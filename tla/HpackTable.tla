----------------------------- MODULE HpackTable -----------------------------
(***************************************************************************)
(* hpack/table.rs: the encoder's table, as operators.                      *)
(*                                                                         *)
(* Entries are kept in "slots", the newest first, and found through        *)
(* "indices", a Robin Hood hash table over their names.  A position in     *)
(* indices, and a link from one entry to the next of its name, is a number *)
(* that stays valid while entries are pushed in front: the place in slots  *)
(* less the number ever inserted, modulo the word.  The oldest entry of a  *)
(* name is the one in indices; newer ones of that name are linked from it. *)
(*                                                                         *)
(* An Option of the code is a set of at most one element.                  *)
(***************************************************************************)
EXTENDS Naturals, Sequences, SequencesExt

CONSTANTS
  Names, Values,
  Lengths,      \* what len() says of a header with that name and value
  HashOf,       \* hash_header: what a name hashes to
  Static,       \* the static table, a sequence of [name, value]
  SkipNames,    \* names whose values are never indexed (skip_value_index)
  RawCapacity,  \* slots of the first allocation of indices, 8 in the code
  Word          \* 2^64 in the code

HeaderSpace == [name : Names, value : Values, sensitive : BOOLEAN]

LenOf(h) == Lengths[<<h.name, h.value>>]

ASSUME TableAssumption ==
  /\ Lengths \in [Names \X Values -> Nat \ {0}]
  /\ HashOf \in [Names -> Nat]
  /\ Static \in Seq([name : Names, value : Values])
  /\ RawCapacity \in Nat \ {0} /\ RawCapacity % 4 = 0
  /\ Word \in Nat \ {0}
  /\ \A name \in SkipNames : \E i \in DOMAIN Static : Static[i].name = name

\* DYN_OFFSET
DynOffset == Len(Static) + 1

\* wrapping_add and wrapping_sub
WrapAdd(a, b) == (a + b) % Word
WrapSub(a, b) == (a + Word - b) % Word

NewTable(max) ==
  [slots |-> <<>>, indices |-> <<>>, inserted |-> 0, size |-> 0, max |-> max]

\* indices is a sequence, its first place being 0 in the code; the mask is its
\* length less 1.
Raw(t) == Len(t.indices)
Capacity(t) == Raw(t) - Raw(t) \div 4
At(t, p) == t.indices[p + 1]
DesiredPos(t, hash) == hash % Raw(t)
ProbeDistance(t, hash, p) == (p + Raw(t) - DesiredPos(t, hash)) % Raw(t)

\* Where a position in indices, or a link, leads.
RealIdx(t, index) == WrapAdd(index, t.inserted)
SlotAt(t, index) == t.slots[RealIdx(t, index) + 1]

Empties(t) == {q \in 0 .. Raw(t) - 1 : At(t, q) = {}}

\* probe_loop: how far it is from a place to the first where the loop stops.
Probe(t, start, stops) ==
  Min({d \in 0 .. Raw(t) - 1 : (start + d) % Raw(t) \in stops})

----------------------------------------------------------------------------
(* Eviction.                                                               *)

\* Mutation of RemovePhaseTwo: nothing moves.
RemovePhaseTwoStays(t, p) == [t EXCEPT !.indices[p + 1] = {}]

\* remove_phase_two: the entries that follow an emptied place move back, up to
\* the first that is empty or where it wants to be.
RemovePhaseTwo(t, p) ==
  LET n == Probe(t, p + 1, Empties(t) \cup {q \in 0 .. Raw(t) - 1 :
             \E pos \in At(t, q) : ProbeDistance(t, pos.hash, q) = 0})
      Back(q) == (q + Raw(t) - p) % Raw(t)
  IN  [t EXCEPT !.indices =
         [i \in 1 .. Raw(t) |->
            CASE Back(i - 1) < n -> t.indices[(i % Raw(t)) + 1]
              [] Back(i - 1) = n -> {}
              [] OTHER -> t.indices[i]]]

\* The oldest entry goes.  Its name stays in indices if a newer entry has it,
\* or the entry that is about to be inserted does.
Evict(t, prev) ==
  LET index == WrapSub(Len(t.slots) - 1, t.inserted)
      slot == Last(t.slots)
      rest == [t EXCEPT !.slots = Front(@), !.size = @ - LenOf(slot.header)]
      start == DesiredPos(t, slot.hash)
      p == (start + Probe(t, start, {q \in 0 .. Raw(t) - 1 :
              \E pos \in At(t, q) : pos.index = index})) % Raw(t)
      Retarget(to) == [rest EXCEPT !.indices[p + 1] = {[index |-> to, hash |-> slot.hash]}]
  IN  CASE slot.next /= {} -> Retarget(CHOOSE next \in slot.next : TRUE)
        [] slot.next = {} /\ prev = {index} -> Retarget(WrapSub(0, t.inserted + 1))
        [] OTHER -> RemovePhaseTwo(rest, p)

\* converge, which takes no more turns than there are entries
ConvergeOnce(t, prev) == IF t.size > t.max THEN Evict(t, prev) ELSE t
Converge(t, prev) ==
  LET after[k \in 0 .. Len(t.slots)] == IF k = 0 THEN t ELSE ConvergeOnce(after[k - 1], prev)
  IN  after[Len(t.slots)]

UpdateSize(t, len, prev) == Converge([t EXCEPT !.size = @ + len], prev)

Cleared(t, raw) == [t EXCEPT !.indices = [i \in 1 .. raw |-> {}]]

Resize(t, size) ==
  IF size = 0
    THEN [Cleared(t, Raw(t)) EXCEPT !.max = 0, !.size = 0, !.slots = <<>>, !.inserted = 0]
    ELSE Converge([t EXCEPT !.max = size], {})

----------------------------------------------------------------------------
(* Growth.                                                                 *)

\* reinsert_entry_in_order
Reinsert(t, pos) ==
  LET start == DesiredPos(t, pos.hash)
      d == Probe(t, start, Empties(t))
  IN  [t EXCEPT !.indices[((start + d) % Raw(t)) + 1] = {pos}]

ReinsertAny(t, entry) == IF entry = {} THEN t ELSE Reinsert(t, CHOOSE pos \in entry : TRUE)

\* The old entries are visited from the first that is where it wants to be.
InOrder(t) ==
  LET ideal == {p \in 0 .. Raw(t) - 1 :
                  \E pos \in At(t, p) : ProbeDistance(t, pos.hash, p) = 0}
      first == IF ideal = {} THEN 0 ELSE CHOOSE p \in ideal : \A q \in ideal : p <= q
  IN  SubSeq(t.indices, first + 1, Raw(t)) \o SubSeq(t.indices, 1, first)

Grow(t, raw) ==
  LET after[k \in 0 .. Raw(t)] ==
        IF k = 0 THEN Cleared(t, raw) ELSE ReinsertAny(after[k - 1], InOrder(t)[k])
  IN  after[Raw(t)]

ReserveOne(t) ==
  CASE Len(t.slots) /= Capacity(t) -> t
    [] Len(t.slots) = Capacity(t) /\ t.slots = <<>> ->
         Cleared(t, RawCapacity)
    [] OTHER -> Grow(t, 2 * Raw(t))

----------------------------------------------------------------------------
(* Indexing a header: the new table, and how the header is represented.    *)
(* Representations name an index, which is 0 for a literal name.           *)

Indexed(index) == [kind |-> "indexed", index |-> index]

Literal(kind, index, h) ==
  [kind |-> kind, index |-> index, value |-> h.value,
   name |-> IF index = 0 THEN {h.name} ELSE {}]

\* encode_not_indexed, encode_not_indexed2
NotIndexed(index, h) == Literal(IF h.sensitive THEN "never" ELSE "without", index, h)

\* index_static: a full match, else the first entry of the name
StaticNamed(h) == {i \in DOMAIN Static : Static[i].name = h.name}
StaticFull(h) == {i \in StaticNamed(h) : Static[i].value = h.value}
StaticIndex(h) ==
  IF StaticNamed(h) = {} THEN 0
  ELSE CHOOSE i \in StaticNamed(h) : \A j \in StaticNamed(h) : i <= j

\* Index::new
ByStatic(h) ==
  IF StaticFull(h) /= {} THEN Indexed(CHOOSE i \in StaticFull(h) : TRUE)
                         ELSE NotIndexed(StaticIndex(h), h)

Insert(t, h) ==
  [t EXCEPT !.inserted = WrapAdd(@, 1),
            !.slots = <<[header |-> h, hash |-> HashOf[h.name], next |-> {}]>> \o @]

\* Mutation of Link: the newest entry is linked nowhere.
LinkNot(t, index) == t

\* The entry at index, unless it was just evicted, leads to the newest.
Link(t, index) ==
  IF RealIdx(t, index) < Len(t.slots)
    THEN [t EXCEPT !.slots[RealIdx(t, index) + 1].next = {WrapSub(0, t.inserted)}]
    ELSE t

\* The walk through the entries of one name: to the first with the value, else
\* to the last.
Walk(t, h, index) ==
  FoldLeft(LAMBDA at, slot :
             IF SlotAt(t, at).header.value = h.value \/ SlotAt(t, at).next = {}
               THEN at ELSE CHOOSE next \in SlotAt(t, at).next : TRUE,
           index, t.slots)

IndexOccupied(t, h, index) ==
  LET found == RealIdx(t, index) + DynOffset
      name == IF StaticNamed(h) /= {} THEN StaticIndex(h) ELSE found
  IN  CASE SlotAt(t, index).header.value = h.value -> [table |-> t, rep |-> Indexed(found)]
        [] SlotAt(t, index).header.value /= h.value /\ h.sensitive ->
             [table |-> t, rep |-> NotIndexed(found, h)]
        [] OTHER ->
             [table |-> Link(Insert(UpdateSize(t, LenOf(h), {index}), h), index),
              rep |-> Literal("insert", name, h)]

\* Mutation of Backshift: the place that was found before eviction is used.
BackshiftNot(t, p, dist) == p

\* Eviction may have moved the entries before p back: the place moves as far as
\* the entries there are nearer to where they want to be.
Backshift(t, p, dist) ==
  LET Place(k) == (p + Raw(t) - k) % Raw(t)
      Free(k) == \A pos \in At(t, Place(k)) : ProbeDistance(t, pos.hash, Place(k)) < dist - k
      steps == {k \in 0 .. dist : \A j \in 1 .. k : Free(j)}
  IN  Place(CHOOSE k \in steps : \A j \in steps : j <= k)

\* The entry takes place p; those from there on move forward into the next gap.
ShiftIn(t, p, pos) ==
  LET n == Probe(t, p, Empties(t))
      Fwd(q) == (q + Raw(t) - p) % Raw(t)
  IN  [t EXCEPT !.indices =
         [i \in 1 .. Raw(t) |->
            CASE Fwd(i - 1) = 0 -> {pos}
              [] Fwd(i - 1) \in 1 .. n -> t.indices[((i + Raw(t) - 2) % Raw(t)) + 1]
              [] OTHER -> t.indices[i]]]

\* index_vacant, "room" being the table after eviction
IndexIn(room, t, h, dist, p) ==
  [table |-> ShiftIn(Insert(room, h),
                     IF room.slots /= t.slots THEN Backshift(room, p, dist) ELSE p,
                     [index |-> WrapSub(0, WrapAdd(room.inserted, 1)), hash |-> HashOf[h.name]]),
   rep |-> Literal("insert", StaticIndex(h), h)]

IndexVacant(t, h, dist, p) ==
  IF h.sensitive THEN [table |-> t, rep |-> ByStatic(h)]
                 ELSE IndexIn(UpdateSize(t, LenOf(h), {}), t, h, dist, p)

\* The entry of this name that indices lead to.
IsEntry(t, h, pos) == pos.hash = HashOf[h.name] /\ SlotAt(t, pos.index).header.name = h.name

\* How far a probe for the name goes, and what it finds there.
Distance(t, h) ==
  LET hash == HashOf[h.name]
      Stops(pos, q) == \/ ProbeDistance(t, pos.hash, q) < ProbeDistance(t, hash, q)
                       \/ IsEntry(t, h, pos)
  IN  Probe(t, DesiredPos(t, hash),
            Empties(t) \cup {q \in 0 .. Raw(t) - 1 : \E pos \in At(t, q) : Stops(pos, q)})

IndexProbed(t, h, dist) ==
  LET p == (DesiredPos(t, HashOf[h.name]) + dist) % Raw(t)
      hit == {pos \in At(t, p) : ProbeDistance(t, pos.hash, p) >= dist}
  IN  IF hit = {} THEN IndexVacant(t, h, dist, p)
                  ELSE IndexOccupied(t, h, Walk(t, h, (CHOOSE pos \in hit : TRUE).index))

IndexReserved(t, h) ==
  IF t.indices = <<>> THEN [table |-> t, rep |-> ByStatic(h)]
                      ELSE IndexProbed(t, h, Distance(t, h))

IndexDynamic(t, h) ==
  IndexReserved(IF LenOf(h) + t.size < t.max \/ ~h.sensitive THEN ReserveOne(t) ELSE t, h)

\* Table::index
IndexHeader(t, h) ==
  IF h.name \in SkipNames \/ StaticFull(h) /= {} \/ LenOf(h) * 4 > t.max * 3
    THEN [table |-> t, rep |-> ByStatic(h)]
    ELSE IndexDynamic(t, h)

----------------------------------------------------------------------------
(* What assert_valid_state, whose body is commented out in the code, says   *)
(* of a table: every entry is either in indices once, where a probe finds   *)
(* it, or linked once; positions lead into the table.                      *)

Found(t, k) ==
  LET slot == t.slots[k]
      d(p) == ProbeDistance(t, slot.hash, p)
      Is(p, i) == \E pos \in At(t, p) : RealIdx(t, pos.index) = i - 1
      places == {p \in 0 .. Raw(t) - 1 : Is(p, k)}
      links == {j \in 1 .. Len(t.slots) : slot.hash = t.slots[j].hash /\
                  \E next \in t.slots[j].next : RealIdx(t, next) = k - 1}
  IN  \/ /\ links = {}
         /\ \E p \in places :
              /\ places = {p}
              /\ \A q \in 0 .. Raw(t) - 1 : d(q) < d(p) =>
                   \E pos \in At(t, q) : ProbeDistance(t, pos.hash, q) >= d(q)
      \/ places = {} /\ \E j \in links : links = {j}

ValidTable(t) ==
  /\ \A p \in 0 .. Raw(t) - 1 : \A pos \in At(t, p) :
       RealIdx(t, pos.index) < Len(t.slots) /\ SlotAt(t, pos.index).hash = pos.hash
  /\ \A k \in DOMAIN t.slots : Found(t, k)
=============================================================================
