-------------------------------- MODULE Hpack --------------------------------
(***************************************************************************)
(* Header blocks from one endpoint to another: hpack/encoder.rs and        *)
(* hpack/decoder.rs, with the table of the encoder in HpackTable, and what *)
(* the codec does around them.  FramedWrite cuts a block into HEADERS and  *)
(* CONTINUATION, FramedRead puts it together and frame/headers.rs keeps    *)
(* what fits the list limit.  SETTINGS that change the size of the table   *)
(* go the other way, and take effect at the encoder when they are          *)
(* acknowledged and at the decoder when the acknowledgement arrives.       *)
(*                                                                         *)
(* On the wire a representation takes two units, so that a frame may end   *)
(* within one.                                                             *)
(***************************************************************************)
EXTENDS HpackTable, FiniteSets, Sums

CONSTANTS
  DefaultSize,       \* DEFAULT_SETTINGS_HEADER_TABLE_SIZE, DEFAULT_MAX_ALLOWED_SIZE
  MalformedNames,    \* names a block must not have, connection for one
  MaxContinuations,  \* max_continuation_frames
  AbuseMultiplier,   \* MAX_HEADER_LIST_ABUSE_MULTIPLIER
  Scenes             \* what the environment does

\* A scene says which blocks are sent, which table sizes the receiver asks
\* for, how many units a frame may hold and how many frames the wire, and the
\* receiver's list limit: as the sum of len, and in units of a payload.
SceneSpace ==
  [blocks : SUBSET Seq(HeaderSpace), sizes : SUBSET Nat,
   room : Nat \ {0, 1}, wire : Nat \ {0}, list : Nat, ignore : Nat]

\* In a block the values of one name follow each other (http::HeaderMap).
Grouped(block) ==
  \A i, j \in DOMAIN block : i < j /\ block[i].name = block[j].name =>
    \A k \in i .. j : block[k].name = block[i].name

ASSUME HpackAssumption ==
  /\ DefaultSize \in Nat /\ MaxContinuations \in Nat /\ AbuseMultiplier \in Nat
  /\ Scenes \subseteq SceneSpace
  /\ \A s \in Scenes : \A block \in s.blocks : Grouped(block)

VARIABLES
  scene,  \* the scene, which never changes
  enc,    \* the sender: table and size_update; next, in units; SETTINGS not yet acknowledged
  dec,    \* the receiver: Decoder and its table; partial; SETTINGS not yet acknowledged
  wire,   \* frames to the receiver
  back,   \* table sizes in SETTINGS to the sender
  log     \* history: the blocks under way with their length, whether all others
          \* were delivered, and the least and the last size acknowledged since
          \* the last block

vars == <<scene, enc, dec, wire, back, log>>

AtMostOne(S) == {{}} \cup {{x} : x \in S}

Init ==
  /\ scene \in Scenes
  /\ enc = [table |-> NewTable(DefaultSize), update |-> <<>>, next |-> <<>>,
            remote |-> {}]
  /\ dec = [entries |-> <<>>, size |-> 0, max |-> DefaultSize, last |-> DefaultSize,
            queued |-> {}, partial |-> {}, waiting |-> {}, error |-> "none"]
  /\ wire = <<>> /\ back = <<>>
  /\ log = [blocks |-> <<>>, agree |-> TRUE, least |-> DefaultSize, last |-> DefaultSize]

----------------------------------------------------------------------------
(* The encoder.                                                            *)

\* Mutation of UpdateMaxSize: the last size wins.
UpdateMaxSizeLast(e, size) ==
  LET val == IF size < DefaultSize THEN size ELSE DefaultSize
  IN  [e EXCEPT !.update = IF val /= e.table.max THEN <<val>> ELSE <<>>]

\* update_max_size.  The update is None, One or Two: a sequence that long.  The
\* least of several sizes must reach the decoder as well as the last.
UpdateMaxSize(e, size) ==
  LET val == IF size < DefaultSize THEN size ELSE DefaultSize
      old == e.update
  IN  [e EXCEPT !.update =
         CASE old = <<>> -> IF val /= e.table.max THEN <<val>> ELSE <<>>
           [] old /= <<>> /\ val <= old[1] /\ (Len(old) = 1 \/ val < old[1]) -> <<val>>
           [] Len(old) = 1 /\ val > old[1] /\ old[1] > e.table.max -> <<val>>
           [] OTHER -> <<old[1], val>>]

\* Mutation of WithoutName: an entry that was just inserted keeps the index its
\* name had.
WithoutNameAsFound(rep, h) == NotIndexed(rep.index, h)

\* encode_header_without_name: a further value of the name just encoded
WithoutName(rep, h) ==
  NotIndexed(IF rep.kind = "insert" THEN DynOffset ELSE rep.index, h)

Represented(e, r) == [table |-> r.table, reps |-> Append(e.reps, r.rep), named |-> r.rep]

\* One header of a block; "reps" ends with the last one that had a name.
EncodeHeader(e, h, again) ==
  IF again
    THEN [e EXCEPT !.reps = Append(@, WithoutName(e.named, h))]
    ELSE Represented(e, IndexHeader(e.table, h))

\* encode_size_updates
Resized(t, update) ==
  CASE update = <<>> -> t
    [] Len(update) = 1 -> Resize(t, update[1])
    [] Len(update) = 2 -> Resize(Resize(t, update[1]), update[2])

SizeUpdates(e) ==
  [table |-> Resized(e.table, e.update),
   reps |-> [i \in DOMAIN e.update |-> [kind |-> "size", index |-> e.update[i]]],
   named |-> Indexed(0)]

Again(block, i) == i > 1 /\ block[i].name = block[i - 1].name

\* Encoder::encode: size updates first
Encode(e, block) ==
  LET after[i \in 0 .. Len(block)] ==
        IF i = 0 THEN SizeUpdates(e) ELSE EncodeHeader(after[i - 1], block[i], Again(block, i))
  IN  after[Len(block)]

Units(reps) ==
  [i \in 1 .. 2 * Len(reps) |-> [rep |-> reps[(i + 1) \div 2], part |-> (i + 1) % 2]]

\* EncodingHeaderBlock::encode: what fits a frame, and the rest as next
Fragment(kind, units) ==
  [kind |-> kind, payload |-> SubSeq(units, 1, Min({scene.room, Len(units)})),
   end |-> Len(units) <= scene.room]
Remaining(units) == SubSeq(units, scene.room + 1, Len(units))

HasCapacity == enc.next = <<>> /\ Len(wire) < scene.wire

SendHeaders(block) ==
  /\ HasCapacity
  /\ \E r \in {Encode(enc, block)} :
       /\ enc' = [enc EXCEPT !.table = r.table, !.update = <<>>,
                             !.next = Remaining(Units(r.reps))]
       /\ wire' = Append(wire, Fragment("headers", Units(r.reps)))
       /\ log' = [log EXCEPT !.blocks = Append(@, [fields |-> block, units |-> 2 * Len(r.reps)]),
                             !.least = log.last]
  /\ UNCHANGED <<scene, dec, back>>

\* unset_frame: the CONTINUATION goes before anything else
WriteContinuation ==
  /\ enc.next /= <<>> /\ Len(wire) < scene.wire
  /\ wire' = Append(wire, Fragment("continuation", enc.next))
  /\ enc' = [enc EXCEPT !.next = Remaining(@)]
  /\ UNCHANGED <<scene, dec, back, log>>

\* SETTINGS are read, and acknowledged when a frame can be buffered; only then
\* are others read.
RecvSettings ==
  /\ back /= <<>> /\ enc.remote = {}
  /\ enc' = [enc EXCEPT !.remote = {Head(back)}]
  /\ back' = Tail(back)
  /\ UNCHANGED <<scene, dec, wire, log>>

Acknowledged(size) ==
  [log EXCEPT !.last = Min({size, DefaultSize}), !.least = Min({size, @})]

\* Mutation of AckSettings: the acknowledgement does not wait for next.
AckSettingsWithin ==
  /\ Len(wire) < scene.wire
  /\ \E size \in enc.remote :
       /\ enc' = [UpdateMaxSize(enc, size) EXCEPT !.remote = {}]
       /\ log' = Acknowledged(size)
  /\ wire' = Append(wire, [kind |-> "ack"])
  /\ UNCHANGED <<scene, dec, back>>

AckSettings ==
  /\ HasCapacity
  /\ \E size \in enc.remote :
       /\ enc' = [UpdateMaxSize(enc, size) EXCEPT !.remote = {}]
       /\ log' = Acknowledged(size)
  /\ wire' = Append(wire, [kind |-> "ack"])
  /\ UNCHANGED <<scene, dec, back>>

----------------------------------------------------------------------------
(* The decoder: "d" is its table, and while it decodes also the block.      *)

\* consolidate: the oldest entries go until the size fits; reserve is the same
\* with room for an entry.
FitOnce(d, room) ==
  IF d.size + room > d.max
    THEN [d EXCEPT !.size = @ - LenOf(Last(d.entries)), !.entries = Front(@)]
    ELSE d
Fit(d, room) ==
  LET after[k \in 0 .. Len(d.entries)] == IF k = 0 THEN d ELSE FitOnce(after[k - 1], room)
  IN  after[Len(d.entries)]

SetMaxSize(d, size) == Fit([d EXCEPT !.max = size], 0)

InsertEntry(d, entry) ==
  LET room == Fit(d, LenOf(entry))
  IN  IF room.size + LenOf(entry) <= room.max
        THEN [room EXCEPT !.size = @ + LenOf(entry), !.entries = <<entry>> \o @]
        ELSE room

HasEntry(d, index) == index \in 1 .. Len(Static) + Len(d.entries)
Get(d, index) ==
  IF index <= Len(Static) THEN Static[index] ELSE d.entries[index - Len(Static)]

\* decode_indexed and decode_literal
FieldOf(d, rep) ==
  CASE rep.kind = "indexed" -> Get(d, rep.index)
    [] rep.kind /= "indexed" /\ rep.index = 0 ->
         [name |-> CHOOSE n \in rep.name : TRUE, value |-> rep.value]
    [] OTHER -> [name |-> Get(d, rep.index).name, value |-> rep.value]

Fails(d, error) == [d EXCEPT !.error = error]

\* The closure of HeaderBlock::load.  The block's fields are kept up to the list
\* limit, and decoding goes on beyond it, and after a field that is malformed,
\* for the sake of the table.
Keep(d, field) ==
  LET total == d.total + LenOf(field)
      over == d.over \/ total >= scene.list
  IN  CASE field.name \in MalformedNames -> [d EXCEPT !.malformed = TRUE]
        [] field.name \notin MalformedNames /\ total > AbuseMultiplier * scene.list ->
             Fails(d, "tooLarge")
        [] OTHER -> [d EXCEPT !.total = total, !.over = over,
                              !.fields = IF over THEN @ ELSE Append(@, field)]

\* Mutation of Accepts: once over the limit nothing is decoded.
AcceptsUpToLimit(d) == d.error = "none" /\ ~d.over

\* Decoding goes on until there is an error.
Accepts(d) == d.error = "none"

\* Decoder::decode, one representation.  The name of a literal is looked up
\* before the insertion evicts anything.
DecodeRep(d, rep) ==
  CASE ~Accepts(d) -> d
    [] Accepts(d) /\ rep.kind = "size" ->
         IF ~d.canResize \/ rep.index > d.last THEN Fails(d, "size")
                                               ELSE SetMaxSize(d, rep.index)
    [] Accepts(d) /\ rep.kind /= "size" /\ rep.index /= 0 /\ ~HasEntry(d, rep.index) ->
         Fails(d, "index")
    [] OTHER ->
         LET field == FieldOf(d, rep)
             inserted == IF rep.kind = "insert" THEN InsertEntry(d, field) ELSE d
         IN  Keep([inserted EXCEPT !.canResize = FALSE], field)

NewPartial == [fields |-> <<>>, over |-> FALSE, buf |-> <<>>, count |-> 0]

SumLen(fields) == Total([i \in DOMAIN fields |-> LenOf(fields[i])], Len(fields))

\* What a fragment is loaded into.  The size calculate_header_list_size starts
\* with is that of the fields kept.
Loading(d, partial) ==
  [entries |-> d.entries, size |-> d.size, max |-> d.max,
   last |-> IF d.queued = {} THEN d.last ELSE CHOOSE size \in d.queued : TRUE,
   canResize |-> TRUE, malformed |-> FALSE, error |-> "none",
   fields |-> partial.fields, total |-> SumLen(partial.fields), over |-> partial.over]

\* load_hpack: one fragment after what was left of the one before
Load(d, partial, units) ==
  LET after[i \in 0 .. Len(units) \div 2] ==
        IF i = 0 THEN Loading(d, partial) ELSE DecodeRep(after[i - 1], units[2 * i].rep)
  IN  after[Len(units) \div 2]

----------------------------------------------------------------------------
(* The receiver.                                                           *)

SendSettings(size) ==
  /\ dec.waiting = {}
  /\ dec' = [dec EXCEPT !.waiting = {size}]
  /\ back' = Append(back, size)
  /\ UNCHANGED <<scene, enc, wire, log>>

Reads(kind) == dec.error = "none" /\ wire /= <<>> /\ Head(wire).kind = kind

\* recv_settings with the acknowledgement: queue_size_update
RecvAck ==
  /\ Reads("ack")
  /\ dec' = IF dec.partial /= {} THEN Fails(dec, "interleaved")
            ELSE [dec EXCEPT !.waiting = {},
                             !.queued = {size \in @ \cup dec.waiting :
                                           \A other \in @ \cup dec.waiting : other <= size}]
  /\ wire' = Tail(wire)
  /\ UNCHANGED <<scene, enc, back, log>>

\* The fields of a block that a receiver may keep.
Proper(block) ==
  SelectSeq([i \in DOMAIN block.fields |-> [name |-> block.fields[i].name,
                                            value |-> block.fields[i].value]],
            LAMBDA field : field.name \notin MalformedNames)
IsMalformed(block) == Len(Proper(block)) < Len(block.fields)

\* What the receiver made of a block is what the sender meant by it: all of it,
\* or as much as the limit allows, or that it is malformed.  That is sure of a
\* block in one frame: "malformed" is local to one call of load, which returns
\* NeedMore before it looks at the flag when the fragment ends within a
\* representation, and what was malformed is then only missing.
Outcome(d, block) ==
  /\ d.malformed => IsMalformed(block)
  /\ IsMalformed(block) /\ block.units <= scene.room => d.malformed
  /\ ~d.malformed => /\ d.over = (SumLen(Proper(block)) >= scene.list)
                     /\ IF d.over THEN IsPrefix(d.fields, Proper(block))
                                  ELSE d.fields = Proper(block)

\* One frame of a block, continuing "partial".  One that is malformed so far is
\* refused at once, and nothing is left that its CONTINUATION could continue.
RecvFragment(frame, partial) ==
  LET units == partial.buf \o frame.payload
      left == IF Len(units) % 2 = 0 THEN <<>> ELSE <<Last(units)>>
      d == Load(dec, partial, units)
      decoded == [dec EXCEPT !.entries = d.entries, !.size = d.size, !.max = d.max,
                             !.last = d.last, !.queued = {}, !.partial = {}]
      more == [fields |-> d.fields, over |-> d.over, buf |-> left, count |-> partial.count]
      done == left = <<>> /\ (d.malformed \/ frame.end)
  IN  /\ dec' = CASE d.error /= "none" -> Fails(decoded, d.error)
                  [] d.error = "none" /\ left /= <<>> /\ frame.end -> Fails(decoded, "truncated")
                  [] d.error = "none" /\ done -> decoded
                  [] OTHER -> [decoded EXCEPT !.partial = {more}]
      /\ log' = IF d.error = "none" /\ done
                  THEN [log EXCEPT !.blocks = IF frame.end THEN Tail(@) ELSE @,
                                   !.agree = @ /\ Outcome(d, Head(log.blocks))]
                  ELSE log

RecvHeaders ==
  /\ Reads("headers")
  /\ IF dec.partial /= {}
       THEN dec' = Fails(dec, "interleaved") /\ UNCHANGED log
       ELSE RecvFragment(Head(wire), NewPartial)
  /\ wire' = Tail(wire)
  /\ UNCHANGED <<scene, enc, back>>

RecvContinuation ==
  LET frame == Head(wire)
      Counted(p) == [p EXCEPT !.count = IF frame.end THEN 0 ELSE @ + 1]
      TooMuch(p) == /\ p.buf /= <<>> /\ p.over
                    /\ Len(p.buf) + Len(frame.payload) > scene.ignore
  IN  /\ Reads("continuation")
      /\ CASE dec.partial = {} -> dec' = Fails(dec, "unexpected") /\ UNCHANGED log
           [] \E p \in dec.partial : Counted(p).count > MaxContinuations ->
                dec' = Fails(dec, "tooMany") /\ UNCHANGED log
           [] \E p \in dec.partial : Counted(p).count <= MaxContinuations /\ TooMuch(p) ->
                dec' = Fails(dec, "ignored") /\ UNCHANGED log
           [] OTHER -> \E p \in dec.partial : RecvFragment(frame, Counted(p))
      /\ wire' = Tail(wire)
      /\ UNCHANGED <<scene, enc, back>>

\* An error of the decoder ends the connection: nothing more is read.
GoneAway == dec.error /= "none" /\ UNCHANGED vars

----------------------------------------------------------------------------
Next ==
  \/ \E block \in scene.blocks : SendHeaders(block)
  \/ WriteContinuation \/ RecvSettings \/ AckSettings
  \/ \E size \in scene.sizes : SendSettings(size)
  \/ RecvAck \/ RecvHeaders \/ RecvContinuation \/ GoneAway

Spec == Init /\ [][Next]_vars

----------------------------------------------------------------------------
(* Properties.                                                             *)

\* Whatever was inserted, evicted, resized or grown before: every entry of the
\* encoder's table can be found by a probe and by the links of its name.  (This
\* is what assert_valid_state says, whose body is commented out.)
EntriesFound == ValidTable(enc.table)

\* Every block that is not rejected is delivered as it was meant, however it was
\* cut into frames and whichever sizes were asked for meanwhile; see Outcome for
\* the malformed ones.
HeadersAgree == log.agree

\* A frame of this encoder is an error to this decoder only because its block is
\* beyond the receiver's limits, and then it is the error of that limit: a list
\* beyond a multiple of the limit, more frames than are allowed, a list over the
\* limit cut within a representation with a frame too long to go on for.  One
\* rejection is not about a limit: CONTINUATION of a block that was found
\* malformed before its end.  Never is it an index, a size update or a frame
\* that is out of place.
RejectedOnlyBeyondLimits ==
  LET block == Head(log.blocks)
      length == SumLen(Proper(block))
  IN  CASE dec.error = "none" -> TRUE
        [] dec.error = "tooLarge" -> length > AbuseMultiplier * scene.list
        [] dec.error = "tooMany" -> block.units > (MaxContinuations + 2) * scene.room
        [] dec.error = "ignored" -> length >= scene.list /\ scene.room + 1 > scene.ignore
        [] dec.error = "unexpected" -> IsMalformed(block) /\ block.units > scene.room
        [] OTHER -> FALSE

\* When no block is under way both tables hold the same entries, in the same
\* order: also after blocks that were too large to be kept or malformed.
TablesAgree ==
  log.blocks = <<>> =>
    /\ dec.entries = [i \in DOMAIN enc.table.slots |->
                        [name |-> enc.table.slots[i].header.name,
                         value |-> enc.table.slots[i].header.value]]
    /\ dec.size = enc.table.size /\ dec.max = enc.table.max

\* What update_max_size makes of several sizes is what they come to: at the next
\* block the table shrinks to the least of them and ends at the last, even if
\* the last is what the table already had.  The receiver's table stays within
\* what it allows.
SizeObeyed ==
  LET sizes == <<enc.table.max>> \o enc.update
  IN  /\ Last(sizes) = log.last /\ Min(Range(sizes)) = log.least
      /\ dec.size = SumLen(dec.entries) /\ dec.size <= dec.max
=============================================================================
