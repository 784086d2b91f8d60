---------------------------- MODULE Hpack_proofs ----------------------------
(***************************************************************************)
(* Theorems about Hpack, for any names, lengths, hash values, static       *)
(* table, block, sizes, wires and any order of steps: the entries of each  *)
(* table take what its size says, and several size changes come to the     *)
(* least and the last of them.                                             *)
(*                                                                         *)
(* The model folds an operation over a table or a block.  Of each fold the *)
(* first part says that it has as many turns as it should (the lemmas      *)
(* named Runs); what a turn keeps then holds at the end by induction on a  *)
(* set of numbers.                                                         *)
(***************************************************************************)
EXTENDS Hpack, Recursion_proofs, SequenceTheorems, TLAPS

----------------------------------------------------------------------------
(* Folds.                                                                  *)

\* Converge takes as many turns as there are entries.
LEMMA ConvergeRuns ==
  ASSUME NEW t, NEW prev, Len(t.slots) \in Nat
  PROVE  \E after :
           /\ after[0] = t
           /\ \A k \in 1 .. Len(t.slots) : after[k] = ConvergeOnce(after[k - 1], prev)
           /\ Converge(t, prev) = after[Len(t.slots)]
<1> DEFINE n == Len(t.slots)
           x == t
           Next1(y, k) == ConvergeOnce(y, prev)
           IsOne(f, m) == /\ DOMAIN f = 0 .. m /\ f[0] = x
                          /\ \A k \in 1 .. m : f[k] = Next1(f[k - 1], k)
           S == {m \in Nat : \E f : IsOne(f, m)}
           run == CHOOSE f : f = [k \in 0 .. n |-> IF k = 0 THEN x ELSE Next1(f[k - 1], k)]
<1>1. Converge(t, prev) = run[n]
  BY DEF Converge
<1>2. n \in Nat
  OBVIOUS
<1> HIDE DEF n, x, Next1
<1>3. 0 \in S
  <2>1. IsOne([k \in 0 .. 0 |-> x], 0)
    OBVIOUS
  <2> QED
    BY <2>1
<1>4. ASSUME NEW m \in Nat, m \in S PROVE m + 1 \in S
  <2>1. PICK f : IsOne(f, m)
    BY <1>4
  <2> DEFINE g == [k \in 0 .. m + 1 |-> IF k = m + 1 THEN Next1(f[m], k) ELSE f[k]]
  <2>2. DOMAIN g = 0 .. m + 1 /\ g[0] = x
    BY <2>1
  <2>3. ASSUME NEW k \in 1 .. m + 1 PROVE g[k] = Next1(g[k - 1], k)
    <3>1. CASE k = m + 1
      <4>1. g[k] = Next1(f[m], k) /\ g[k - 1] = f[m]
        BY <3>1
      <4> HIDE DEF g
      <4> QED
        BY <4>1
    <3>2. CASE k # m + 1
      <4>1. k \in 1 .. m /\ g[k] = f[k] /\ g[k - 1] = f[k - 1]
        BY <3>2
      <4> HIDE DEF g
      <4> QED
        BY <2>1, <4>1
    <3> QED
      BY <3>1, <3>2
  <2>4. IsOne(g, m + 1)
    <3> HIDE DEF g
    <3> QED
      BY <2>2, <2>3
  <2>5. m + 1 \in Nat
    BY <1>4
  <2> HIDE DEF g, IsOne
  <2> QED
    BY <2>4, <2>5
<1>5. n \in S
  <2> HIDE DEF S
  <2> QED
    BY <1>2, <1>3, <1>4, InductionOverNat
<1>6. PICK f : IsOne(f, n)
  BY <1>5
<1> DEFINE b == [k \in 0 .. n |-> f[k]]
<1>7. b = [k \in 0 .. n |-> IF k = 0 THEN x ELSE Next1(b[k - 1], k)]
  <2>1. ASSUME NEW k \in 0 .. n PROVE b[k] = IF k = 0 THEN x ELSE Next1(b[k - 1], k)
    <3>1. CASE k = 0
      BY <1>2, <1>6, <3>1
    <3>2. CASE k # 0
      <4>1. k \in 1 .. n /\ b[k] = f[k] /\ b[k - 1] = f[k - 1]
        BY <1>2, <3>2
      <4> HIDE DEF b
      <4> QED
        BY <1>2, <1>6, <3>2, <4>1
    <3> QED
      BY <3>1, <3>2
  <2> QED
    BY <2>1
<1>8. run = [k \in 0 .. n |-> IF k = 0 THEN x ELSE Next1(run[k - 1], k)]
  <2> HIDE DEF b
  <2> QED
    BY <1>7
<1>9. /\ run[0] = x
      /\ \A k \in 1 .. n : run[k] = Next1(run[k - 1], k)
  <2> HIDE DEF run
  <2>1. \A k \in 1 .. n : k \in 0 .. n /\ k # 0
    OBVIOUS
  <2> QED
    BY <1>2, <1>8, <2>1
<1> HIDE DEF run
<1> QED
  BY <1>1, <1>9 DEF n, x, Next1

\* Grow takes a turn for each old place.
LEMMA GrowRuns ==
  ASSUME NEW t, NEW raw, Raw(t) \in Nat
  PROVE  \E after :
           /\ after[0] = Cleared(t, raw)
           /\ \A k \in 1 .. Raw(t) : after[k] = ReinsertAny(after[k - 1], InOrder(t)[k])
           /\ Grow(t, raw) = after[Raw(t)]
<1> DEFINE n == Raw(t)
           x == Cleared(t, raw)
           Next1(y, k) == ReinsertAny(y, InOrder(t)[k])
           IsOne(f, m) == /\ DOMAIN f = 0 .. m /\ f[0] = x
                          /\ \A k \in 1 .. m : f[k] = Next1(f[k - 1], k)
           S == {m \in Nat : \E f : IsOne(f, m)}
           run == CHOOSE f : f = [k \in 0 .. n |-> IF k = 0 THEN x ELSE Next1(f[k - 1], k)]
<1>1. Grow(t, raw) = run[n]
  BY DEF Grow
<1>2. n \in Nat
  OBVIOUS
<1> HIDE DEF n, x, Next1
<1>3. 0 \in S
  <2>1. IsOne([k \in 0 .. 0 |-> x], 0)
    OBVIOUS
  <2> QED
    BY <2>1
<1>4. ASSUME NEW m \in Nat, m \in S PROVE m + 1 \in S
  <2>1. PICK f : IsOne(f, m)
    BY <1>4
  <2> DEFINE g == [k \in 0 .. m + 1 |-> IF k = m + 1 THEN Next1(f[m], k) ELSE f[k]]
  <2>2. DOMAIN g = 0 .. m + 1 /\ g[0] = x
    BY <2>1
  <2>3. ASSUME NEW k \in 1 .. m + 1 PROVE g[k] = Next1(g[k - 1], k)
    <3>1. CASE k = m + 1
      <4>1. g[k] = Next1(f[m], k) /\ g[k - 1] = f[m]
        BY <3>1
      <4> HIDE DEF g
      <4> QED
        BY <4>1
    <3>2. CASE k # m + 1
      <4>1. k \in 1 .. m /\ g[k] = f[k] /\ g[k - 1] = f[k - 1]
        BY <3>2
      <4> HIDE DEF g
      <4> QED
        BY <2>1, <4>1
    <3> QED
      BY <3>1, <3>2
  <2>4. IsOne(g, m + 1)
    <3> HIDE DEF g
    <3> QED
      BY <2>2, <2>3
  <2>5. m + 1 \in Nat
    BY <1>4
  <2> HIDE DEF g, IsOne
  <2> QED
    BY <2>4, <2>5
<1>5. n \in S
  <2> HIDE DEF S
  <2> QED
    BY <1>2, <1>3, <1>4, InductionOverNat
<1>6. PICK f : IsOne(f, n)
  BY <1>5
<1> DEFINE b == [k \in 0 .. n |-> f[k]]
<1>7. b = [k \in 0 .. n |-> IF k = 0 THEN x ELSE Next1(b[k - 1], k)]
  <2>1. ASSUME NEW k \in 0 .. n PROVE b[k] = IF k = 0 THEN x ELSE Next1(b[k - 1], k)
    <3>1. CASE k = 0
      BY <1>2, <1>6, <3>1
    <3>2. CASE k # 0
      <4>1. k \in 1 .. n /\ b[k] = f[k] /\ b[k - 1] = f[k - 1]
        BY <1>2, <3>2
      <4> HIDE DEF b
      <4> QED
        BY <1>2, <1>6, <3>2, <4>1
    <3> QED
      BY <3>1, <3>2
  <2> QED
    BY <2>1
<1>8. run = [k \in 0 .. n |-> IF k = 0 THEN x ELSE Next1(run[k - 1], k)]
  <2> HIDE DEF b
  <2> QED
    BY <1>7
<1>9. /\ run[0] = x
      /\ \A k \in 1 .. n : run[k] = Next1(run[k - 1], k)
  <2> HIDE DEF run
  <2>1. \A k \in 1 .. n : k \in 0 .. n /\ k # 0
    OBVIOUS
  <2> QED
    BY <1>2, <1>8, <2>1
<1> HIDE DEF run
<1> QED
  BY <1>1, <1>9 DEF n, x, Next1

\* Encode takes a turn for each header.
LEMMA EncodeRuns ==
  ASSUME NEW e, NEW block, Len(block) \in Nat
  PROVE  \E after :
           /\ after[0] = SizeUpdates(e)
           /\ \A k \in 1 .. Len(block) : after[k] = EncodeHeader(after[k - 1], block[k], Again(block, k))
           /\ Encode(e, block) = after[Len(block)]
<1> DEFINE n == Len(block)
           x == SizeUpdates(e)
           Next1(y, k) == EncodeHeader(y, block[k], Again(block, k))
           IsOne(f, m) == /\ DOMAIN f = 0 .. m /\ f[0] = x
                          /\ \A k \in 1 .. m : f[k] = Next1(f[k - 1], k)
           S == {m \in Nat : \E f : IsOne(f, m)}
           run == CHOOSE f : f = [k \in 0 .. n |-> IF k = 0 THEN x ELSE Next1(f[k - 1], k)]
<1>1. Encode(e, block) = run[n]
  BY DEF Encode
<1>2. n \in Nat
  OBVIOUS
<1> HIDE DEF n, x, Next1
<1>3. 0 \in S
  <2>1. IsOne([k \in 0 .. 0 |-> x], 0)
    OBVIOUS
  <2> QED
    BY <2>1
<1>4. ASSUME NEW m \in Nat, m \in S PROVE m + 1 \in S
  <2>1. PICK f : IsOne(f, m)
    BY <1>4
  <2> DEFINE g == [k \in 0 .. m + 1 |-> IF k = m + 1 THEN Next1(f[m], k) ELSE f[k]]
  <2>2. DOMAIN g = 0 .. m + 1 /\ g[0] = x
    BY <2>1
  <2>3. ASSUME NEW k \in 1 .. m + 1 PROVE g[k] = Next1(g[k - 1], k)
    <3>1. CASE k = m + 1
      <4>1. g[k] = Next1(f[m], k) /\ g[k - 1] = f[m]
        BY <3>1
      <4> HIDE DEF g
      <4> QED
        BY <4>1
    <3>2. CASE k # m + 1
      <4>1. k \in 1 .. m /\ g[k] = f[k] /\ g[k - 1] = f[k - 1]
        BY <3>2
      <4> HIDE DEF g
      <4> QED
        BY <2>1, <4>1
    <3> QED
      BY <3>1, <3>2
  <2>4. IsOne(g, m + 1)
    <3> HIDE DEF g
    <3> QED
      BY <2>2, <2>3
  <2>5. m + 1 \in Nat
    BY <1>4
  <2> HIDE DEF g, IsOne
  <2> QED
    BY <2>4, <2>5
<1>5. n \in S
  <2> HIDE DEF S
  <2> QED
    BY <1>2, <1>3, <1>4, InductionOverNat
<1>6. PICK f : IsOne(f, n)
  BY <1>5
<1> DEFINE b == [k \in 0 .. n |-> f[k]]
<1>7. b = [k \in 0 .. n |-> IF k = 0 THEN x ELSE Next1(b[k - 1], k)]
  <2>1. ASSUME NEW k \in 0 .. n PROVE b[k] = IF k = 0 THEN x ELSE Next1(b[k - 1], k)
    <3>1. CASE k = 0
      BY <1>2, <1>6, <3>1
    <3>2. CASE k # 0
      <4>1. k \in 1 .. n /\ b[k] = f[k] /\ b[k - 1] = f[k - 1]
        BY <1>2, <3>2
      <4> HIDE DEF b
      <4> QED
        BY <1>2, <1>6, <3>2, <4>1
    <3> QED
      BY <3>1, <3>2
  <2> QED
    BY <2>1
<1>8. run = [k \in 0 .. n |-> IF k = 0 THEN x ELSE Next1(run[k - 1], k)]
  <2> HIDE DEF b
  <2> QED
    BY <1>7
<1>9. /\ run[0] = x
      /\ \A k \in 1 .. n : run[k] = Next1(run[k - 1], k)
  <2> HIDE DEF run
  <2>1. \A k \in 1 .. n : k \in 0 .. n /\ k # 0
    OBVIOUS
  <2> QED
    BY <1>2, <1>8, <2>1
<1> HIDE DEF run
<1> QED
  BY <1>1, <1>9 DEF n, x, Next1

\* Fit takes as many turns as there are entries.
LEMMA FitRuns ==
  ASSUME NEW d, NEW room, Len(d.entries) \in Nat
  PROVE  \E after :
           /\ after[0] = d
           /\ \A k \in 1 .. Len(d.entries) : after[k] = FitOnce(after[k - 1], room)
           /\ Fit(d, room) = after[Len(d.entries)]
<1> DEFINE n == Len(d.entries)
           x == d
           Next1(y, k) == FitOnce(y, room)
           IsOne(f, m) == /\ DOMAIN f = 0 .. m /\ f[0] = x
                          /\ \A k \in 1 .. m : f[k] = Next1(f[k - 1], k)
           S == {m \in Nat : \E f : IsOne(f, m)}
           run == CHOOSE f : f = [k \in 0 .. n |-> IF k = 0 THEN x ELSE Next1(f[k - 1], k)]
<1>1. Fit(d, room) = run[n]
  BY DEF Fit
<1>2. n \in Nat
  OBVIOUS
<1> HIDE DEF n, x, Next1
<1>3. 0 \in S
  <2>1. IsOne([k \in 0 .. 0 |-> x], 0)
    OBVIOUS
  <2> QED
    BY <2>1
<1>4. ASSUME NEW m \in Nat, m \in S PROVE m + 1 \in S
  <2>1. PICK f : IsOne(f, m)
    BY <1>4
  <2> DEFINE g == [k \in 0 .. m + 1 |-> IF k = m + 1 THEN Next1(f[m], k) ELSE f[k]]
  <2>2. DOMAIN g = 0 .. m + 1 /\ g[0] = x
    BY <2>1
  <2>3. ASSUME NEW k \in 1 .. m + 1 PROVE g[k] = Next1(g[k - 1], k)
    <3>1. CASE k = m + 1
      <4>1. g[k] = Next1(f[m], k) /\ g[k - 1] = f[m]
        BY <3>1
      <4> HIDE DEF g
      <4> QED
        BY <4>1
    <3>2. CASE k # m + 1
      <4>1. k \in 1 .. m /\ g[k] = f[k] /\ g[k - 1] = f[k - 1]
        BY <3>2
      <4> HIDE DEF g
      <4> QED
        BY <2>1, <4>1
    <3> QED
      BY <3>1, <3>2
  <2>4. IsOne(g, m + 1)
    <3> HIDE DEF g
    <3> QED
      BY <2>2, <2>3
  <2>5. m + 1 \in Nat
    BY <1>4
  <2> HIDE DEF g, IsOne
  <2> QED
    BY <2>4, <2>5
<1>5. n \in S
  <2> HIDE DEF S
  <2> QED
    BY <1>2, <1>3, <1>4, InductionOverNat
<1>6. PICK f : IsOne(f, n)
  BY <1>5
<1> DEFINE b == [k \in 0 .. n |-> f[k]]
<1>7. b = [k \in 0 .. n |-> IF k = 0 THEN x ELSE Next1(b[k - 1], k)]
  <2>1. ASSUME NEW k \in 0 .. n PROVE b[k] = IF k = 0 THEN x ELSE Next1(b[k - 1], k)
    <3>1. CASE k = 0
      BY <1>2, <1>6, <3>1
    <3>2. CASE k # 0
      <4>1. k \in 1 .. n /\ b[k] = f[k] /\ b[k - 1] = f[k - 1]
        BY <1>2, <3>2
      <4> HIDE DEF b
      <4> QED
        BY <1>2, <1>6, <3>2, <4>1
    <3> QED
      BY <3>1, <3>2
  <2> QED
    BY <2>1
<1>8. run = [k \in 0 .. n |-> IF k = 0 THEN x ELSE Next1(run[k - 1], k)]
  <2> HIDE DEF b
  <2> QED
    BY <1>7
<1>9. /\ run[0] = x
      /\ \A k \in 1 .. n : run[k] = Next1(run[k - 1], k)
  <2> HIDE DEF run
  <2>1. \A k \in 1 .. n : k \in 0 .. n /\ k # 0
    OBVIOUS
  <2> QED
    BY <1>2, <1>8, <2>1
<1> HIDE DEF run
<1> QED
  BY <1>1, <1>9 DEF n, x, Next1

\* Load takes a turn for each representation.
LEMMA LoadRuns ==
  ASSUME NEW d, NEW partial, NEW units, Len(units) \in Nat
  PROVE  \E after :
           /\ after[0] = Loading(d, partial)
           /\ \A k \in 1 .. Len(units) \div 2 : after[k] = DecodeRep(after[k - 1], units[2 * k].rep)
           /\ Load(d, partial, units) = after[Len(units) \div 2]
<1> DEFINE n == Len(units) \div 2
           x == Loading(d, partial)
           Next1(y, k) == DecodeRep(y, units[2 * k].rep)
           IsOne(f, m) == /\ DOMAIN f = 0 .. m /\ f[0] = x
                          /\ \A k \in 1 .. m : f[k] = Next1(f[k - 1], k)
           S == {m \in Nat : \E f : IsOne(f, m)}
           run == CHOOSE f : f = [k \in 0 .. n |-> IF k = 0 THEN x ELSE Next1(f[k - 1], k)]
<1>1. Load(d, partial, units) = run[n]
  BY DEF Load
<1>2. n \in Nat
  OBVIOUS
<1> HIDE DEF n, x, Next1
<1>3. 0 \in S
  <2>1. IsOne([k \in 0 .. 0 |-> x], 0)
    OBVIOUS
  <2> QED
    BY <2>1
<1>4. ASSUME NEW m \in Nat, m \in S PROVE m + 1 \in S
  <2>1. PICK f : IsOne(f, m)
    BY <1>4
  <2> DEFINE g == [k \in 0 .. m + 1 |-> IF k = m + 1 THEN Next1(f[m], k) ELSE f[k]]
  <2>2. DOMAIN g = 0 .. m + 1 /\ g[0] = x
    BY <2>1
  <2>3. ASSUME NEW k \in 1 .. m + 1 PROVE g[k] = Next1(g[k - 1], k)
    <3>1. CASE k = m + 1
      <4>1. g[k] = Next1(f[m], k) /\ g[k - 1] = f[m]
        BY <3>1
      <4> HIDE DEF g
      <4> QED
        BY <4>1
    <3>2. CASE k # m + 1
      <4>1. k \in 1 .. m /\ g[k] = f[k] /\ g[k - 1] = f[k - 1]
        BY <3>2
      <4> HIDE DEF g
      <4> QED
        BY <2>1, <4>1
    <3> QED
      BY <3>1, <3>2
  <2>4. IsOne(g, m + 1)
    <3> HIDE DEF g
    <3> QED
      BY <2>2, <2>3
  <2>5. m + 1 \in Nat
    BY <1>4
  <2> HIDE DEF g, IsOne
  <2> QED
    BY <2>4, <2>5
<1>5. n \in S
  <2> HIDE DEF S
  <2> QED
    BY <1>2, <1>3, <1>4, InductionOverNat
<1>6. PICK f : IsOne(f, n)
  BY <1>5
<1> DEFINE b == [k \in 0 .. n |-> f[k]]
<1>7. b = [k \in 0 .. n |-> IF k = 0 THEN x ELSE Next1(b[k - 1], k)]
  <2>1. ASSUME NEW k \in 0 .. n PROVE b[k] = IF k = 0 THEN x ELSE Next1(b[k - 1], k)
    <3>1. CASE k = 0
      BY <1>2, <1>6, <3>1
    <3>2. CASE k # 0
      <4>1. k \in 1 .. n /\ b[k] = f[k] /\ b[k - 1] = f[k - 1]
        BY <1>2, <3>2
      <4> HIDE DEF b
      <4> QED
        BY <1>2, <1>6, <3>2, <4>1
    <3> QED
      BY <3>1, <3>2
  <2> QED
    BY <2>1
<1>8. run = [k \in 0 .. n |-> IF k = 0 THEN x ELSE Next1(run[k - 1], k)]
  <2> HIDE DEF b
  <2> QED
    BY <1>7
<1>9. /\ run[0] = x
      /\ \A k \in 1 .. n : run[k] = Next1(run[k - 1], k)
  <2> HIDE DEF run
  <2>1. \A k \in 1 .. n : k \in 0 .. n /\ k # 0
    OBVIOUS
  <2> QED
    BY <1>2, <1>8, <2>1
<1> HIDE DEF run
<1> QED
  BY <1>1, <1>9 DEF n, x, Next1

----------------------------------------------------------------------------
(* The encoder's table.                                                    *)

SlotSpace == [header : HeaderSpace, hash : Nat, next : SUBSET Nat]
PosSpace == [index : Nat, hash : Nat]
TableSpace ==
  [slots : Seq(SlotSpace), indices : Seq(SUBSET PosSpace), inserted : Nat,
   size : Nat, max : Nat]

\* The size of the entries, and a table that counts "extra" besides.
Lens(slots) == [k \in DOMAIN slots |-> LenOf(slots[k].header)]
Held(slots) == Total(Lens(slots), Len(slots))
Counts(t, extra) == t \in TableSpace /\ t.size = Held(t.slots) + extra

LEMMA LensAreNatural ==
  ASSUME NEW slots \in Seq(SlotSpace)
  PROVE  /\ \A k \in 1 .. Len(slots) : Lens(slots)[k] \in Nat
         /\ Held(slots) \in Nat
         /\ Summable(Lens(slots), Len(slots))
         /\ \A k \in 1 .. Len(slots) : Lens(slots)[k] = LenOf(slots[k].header)
<1>1. \A k \in 1 .. Len(slots) : Lens(slots)[k] = LenOf(slots[k].header)
  BY DEF Lens
<1>2. ASSUME NEW k \in 1 .. Len(slots) PROVE LenOf(slots[k].header) \in Nat
  <2>1. slots[k] \in SlotSpace
    BY ElementOfSeq
  <2>2. slots[k].header \in HeaderSpace
    BY <2>1 DEF SlotSpace
  <2> QED
    BY <2>2, TableAssumption DEF HeaderSpace, LenOf
<1>3. \A k \in 1 .. Len(slots) : Lens(slots)[k] \in Nat
  BY <1>1, <1>2
<1>4. Len(slots) \in Nat
  OBVIOUS
<1> QED
  BY <1>1, <1>3, <1>4, TotalOfNaturals DEF Held

LEMMA LenIsPositive ==
  ASSUME NEW h \in HeaderSpace PROVE LenOf(h) \in Nat /\ LenOf(h) > 0
BY TableAssumption DEF HeaderSpace, LenOf

LEMMA HeldByNone ==
  ASSUME NEW slots \in Seq(SlotSpace), Len(slots) = 0
  PROVE  Held(slots) = 0
BY TotalOfNone DEF Held

\* What the oldest entry holds is no longer held when it goes.
LEMMA HeldByFront ==
  ASSUME NEW slots \in Seq(SlotSpace), Len(slots) > 0
  PROVE  /\ Last(slots) \in SlotSpace
         /\ Front(slots) \in Seq(SlotSpace) /\ Len(Front(slots)) = Len(slots) - 1
         /\ \A k \in 1 .. Len(slots) - 1 : Front(slots)[k] = slots[k]
         /\ Held(slots) = Held(Front(slots)) + LenOf(Last(slots).header)
         /\ LenOf(Last(slots).header) \in Nat
<1> DEFINE n == Len(slots) - 1
           rest == Front(slots)
<1>1. n \in Nat /\ Len(slots) = n + 1
  OBVIOUS
<1>2. rest \in Seq(SlotSpace) /\ Len(rest) = n /\ \A k \in 1 .. n : rest[k] = slots[k]
  BY <1>1 DEF Front
<1>3. Last(slots) = slots[n + 1] /\ Last(slots) \in SlotSpace
  BY <1>1, ElementOfSeq DEF Last
<1> HIDE DEF rest, n
<1>4. \A k \in 1 .. n : Lens(rest)[k] = Lens(slots)[k]
  <2> TAKE k \in 1 .. n
  <2>1. k \in 1 .. Len(slots) /\ k \in 1 .. Len(rest) /\ rest[k] = slots[k]
    BY <1>1, <1>2
  <2> QED
    BY <2>1, <1>2, LensAreNatural
<1>5. Total(Lens(slots), n + 1) = Total(Lens(slots), n) + Lens(slots)[n + 1]
  BY <1>1, LensAreNatural, TotalOfMore
<1>6. Total(Lens(rest), n) = Total(Lens(slots), n)
  BY <1>1, <1>2, <1>4, LensAreNatural, TotalOfEqual DEF Agree
<1>7. n + 1 \in 1 .. Len(slots)
  BY <1>1
<1>8. Lens(slots)[n + 1] = LenOf(Last(slots).header) /\ Lens(slots)[n + 1] \in Nat
  BY <1>3, <1>7, LensAreNatural
<1>9. Held(slots) = Held(rest) + LenOf(Last(slots).header)
  BY <1>1, <1>2, <1>5, <1>6, <1>8 DEF Held
<1> QED
  BY <1>1, <1>2, <1>3, <1>8, <1>9 DEF rest, n

\* A new entry is held besides the others.
LEMMA HeldByMore ==
  ASSUME NEW slots \in Seq(SlotSpace), NEW slot \in SlotSpace
  PROVE  /\ <<slot>> \o slots \in Seq(SlotSpace)
         /\ Held(<<slot>> \o slots) = Held(slots) + LenOf(slot.header)
<1> DEFINE all == <<slot>> \o slots
           n == Len(slots)
<1>1. n \in Nat /\ all \in Seq(SlotSpace) /\ Len(all) = n + 1
      /\ all[1] = slot /\ \A k \in 1 .. n : all[k + 1] = slots[k]
  OBVIOUS
<1> HIDE DEF all
<1>2. \A k \in 1 .. n : Lens(slots)[k] = Lens(all)[k + 1]
  <2> TAKE k \in 1 .. n
  <2>1. k + 1 \in 1 .. Len(all) /\ k \in 1 .. Len(slots)
    BY <1>1
  <2> QED
    BY <2>1, <1>1, LensAreNatural
<1> HIDE DEF n
<1>3. Summable(Lens(all), n + 1)
  BY <1>1, LensAreNatural
<1>4. Total(Lens(all), n + 1) = Lens(all)[1] + Total(Lens(slots), n)
  BY <1>1, <1>2, <1>3, TotalOfRest
<1>5. Lens(all)[1] = LenOf(slot.header) /\ Lens(all)[1] \in Nat
  <2>1. 1 \in 1 .. Len(all)
    BY <1>1
  <2> QED
    BY <2>1, <1>1, LensAreNatural
<1>6. Held(slots) \in Nat
  BY LensAreNatural
<1>7. Held(all) = Total(Lens(all), n + 1) /\ Held(slots) = Total(Lens(slots), n)
  BY <1>1 DEF Held, n
<1> QED
  BY <1>1, <1>4, <1>5, <1>6, <1>7 DEF all

\* A change of links changes nothing held.
LEMMA HeldByEqual ==
  ASSUME NEW slots \in Seq(SlotSpace), NEW other \in Seq(SlotSpace), Len(slots) = Len(other),
         \A k \in 1 .. Len(slots) : slots[k].header = other[k].header
  PROVE  Held(slots) = Held(other)
<1>1. \A k \in 1 .. Len(slots) : Lens(slots)[k] = Lens(other)[k]
  BY LensAreNatural
<1>2. Len(slots) \in Nat
  OBVIOUS
<1> QED
  BY <1>1, <1>2, LensAreNatural, TotalOfEqual DEF Held, Agree

\* u is t with other indices.
Reindexed(t, u) ==
  u \in TableSpace /\ u.slots = t.slots /\ u.size = t.size /\ u.max = t.max
  /\ u.inserted = t.inserted

LEMMA ReindexedBy ==
  ASSUME NEW t \in TableSpace, NEW indices \in Seq(SUBSET PosSpace)
  PROVE  Reindexed(t, [t EXCEPT !.indices = indices])
BY DEF Reindexed, TableSpace

LEMMA WrapsInWord ==
  ASSUME NEW a \in Nat, NEW b \in Nat
  PROVE  WrapAdd(a, b) \in 0 .. Word - 1 /\ WrapAdd(a, b) \in Nat
BY TableAssumption DEF WrapAdd

LEMMA WrapsBack ==
  ASSUME NEW a \in Nat, NEW b \in Nat, b <= Word
  PROVE  WrapSub(a, b) \in 0 .. Word - 1 /\ WrapSub(a, b) \in Nat
BY TableAssumption DEF WrapSub

LEMMA RemovePhaseTwoTyped ==
  ASSUME NEW t \in TableSpace, NEW p
  PROVE  Reindexed(t, RemovePhaseTwo(t, p))
<1> DEFINE n == Probe(t, p + 1, Empties(t) \cup {q \in 0 .. Raw(t) - 1 :
             \E pos \in At(t, q) : ProbeDistance(t, pos.hash, q) = 0})
           Back(q) == (q + Raw(t) - p) % Raw(t)
           f == [i \in 1 .. Raw(t) |->
                   CASE Back(i - 1) < n -> t.indices[(i % Raw(t)) + 1]
                     [] Back(i - 1) = n -> {}
                     [] OTHER -> t.indices[i]]
<1>1. RemovePhaseTwo(t, p) = [t EXCEPT !.indices = f]
  BY DEF RemovePhaseTwo
<1>2. Raw(t) \in Nat /\ t.indices \in Seq(SUBSET PosSpace)
      /\ \A i \in 1 .. Raw(t) : t.indices[i] \in SUBSET PosSpace
  BY DEF TableSpace, Raw
<1> HIDE DEF n, Back
<1>3. ASSUME NEW i \in 1 .. Raw(t) PROVE f[i] \in SUBSET PosSpace
  <2>1. (i % Raw(t)) + 1 \in 1 .. Raw(t)
    BY <1>2
  <2>2. t.indices[(i % Raw(t)) + 1] \in SUBSET PosSpace /\ t.indices[i] \in SUBSET PosSpace
    BY <1>2, <2>1
  <2>3. f[i] = CASE Back(i - 1) < n -> t.indices[(i % Raw(t)) + 1]
                 [] Back(i - 1) = n -> {}
                 [] OTHER -> t.indices[i]
    OBVIOUS
  <2> HIDE DEF f
  <2> QED
    BY <2>2, <2>3
<1>4. f \in Seq(SUBSET PosSpace)
  <2>1. DOMAIN f = 1 .. Raw(t)
    OBVIOUS
  <2>2. f \in [1 .. Raw(t) -> SUBSET PosSpace]
    BY <1>3, <2>1
  <2> QED
    BY <1>2, <2>2
<1> QED
  BY <1>1, <1>4, ReindexedBy

----------------------------------------------------------------------------
(* Eviction, growth and insertion keep the table's type and its count.     *)

LEMMA PositionReplaced ==
  ASSUME NEW t \in TableSpace, NEW p, NEW pos \in PosSpace
  PROVE  Reindexed(t, [t EXCEPT !.indices[p] = {pos}])
<1> DEFINE f == [t.indices EXCEPT ![p] = {pos}]
<1>1. t.indices \in Seq(SUBSET PosSpace)
  BY DEF TableSpace
<1>2. f \in Seq(SUBSET PosSpace)
  <2>1. t.indices \in [1 .. Len(t.indices) -> SUBSET PosSpace] /\ Len(t.indices) \in Nat
    BY <1>1
  <2>2. f \in [1 .. Len(t.indices) -> SUBSET PosSpace]
    BY <2>1
  <2> HIDE DEF f
  <2> QED
    BY <2>1, <2>2
<1>3. [t EXCEPT !.indices[p] = {pos}] = [t EXCEPT !.indices = f]
  BY DEF TableSpace
<1> HIDE DEF f
<1> QED
  BY <1>2, <1>3, ReindexedBy

\* The links of the oldest entry lead somewhere.
NoLink(prev) == prev \in SUBSET Nat

LEMMA EvictTyped ==
  ASSUME NEW t, NEW extra \in Nat, NEW prev, Counts(t, extra), Len(t.slots) > 0
  PROVE  /\ Counts(Evict(t, prev), extra)
         /\ Evict(t, prev).max = t.max /\ Evict(t, prev).inserted = t.inserted
         /\ Evict(t, prev).slots = Front(t.slots)
         /\ Raw(Evict(t, prev)) \in Nat
<1> DEFINE slot == Last(t.slots)
           rest == [t EXCEPT !.slots = Front(@), !.size = @ - LenOf(slot.header)]
           index == WrapSub(Len(t.slots) - 1, t.inserted)
           start == DesiredPos(t, slot.hash)
           p == (start + Probe(t, start, {q \in 0 .. Raw(t) - 1 :
                   \E pos \in At(t, q) : pos.index = index})) % Raw(t)
           Retarget(to) == [rest EXCEPT !.indices[p + 1] = {[index |-> to, hash |-> slot.hash]}]
<1>1. t \in TableSpace /\ t.slots \in Seq(SlotSpace) /\ t.size \in Nat
      /\ t.size = Held(t.slots) + extra
  BY DEF Counts, TableSpace
<1>2. /\ slot \in SlotSpace /\ LenOf(slot.header) \in Nat
      /\ Front(t.slots) \in Seq(SlotSpace)
      /\ Held(t.slots) = Held(Front(t.slots)) + LenOf(slot.header)
      /\ Held(Front(t.slots)) \in Nat
  BY <1>1, HeldByFront, LensAreNatural
<1> DEFINE left == t.size - LenOf(slot.header)
<1>3. left \in Nat /\ left = Held(Front(t.slots)) + extra
  BY <1>1, <1>2
<1>4. rest = [t EXCEPT !.slots = Front(t.slots), !.size = left]
  BY <1>1 DEF TableSpace
<1> HIDE DEF slot, left
<1>5. /\ rest \in TableSpace /\ rest.slots = Front(t.slots) /\ rest.size = left
      /\ rest.max = t.max /\ rest.inserted = t.inserted
  BY <1>1, <1>2, <1>3, <1>4 DEF TableSpace
<1> HIDE DEF rest, p, index
<1>6. ASSUME NEW to \in Nat PROVE Reindexed(rest, Retarget(to))
  <2>1. [index |-> to, hash |-> slot.hash] \in PosSpace
    BY <1>2 DEF SlotSpace, PosSpace
  <2> QED
    BY <1>5, <2>1, PositionReplaced
<1>7. Reindexed(rest, Evict(t, prev))
  <2>1. Evict(t, prev) =
          CASE slot.next /= {} -> Retarget(CHOOSE next \in slot.next : TRUE)
            [] slot.next = {} /\ prev = {index} -> Retarget(WrapSub(0, t.inserted + 1))
            [] OTHER -> RemovePhaseTwo(rest, p)
    BY DEF Evict, slot, rest, p, index
  <2>2. CASE slot.next /= {}
    <3>1. (CHOOSE next \in slot.next : TRUE) \in Nat
      BY <1>2, <2>2 DEF SlotSpace
    <3>2. Evict(t, prev) = Retarget(CHOOSE next \in slot.next : TRUE)
      BY <2>1, <2>2
    <3> HIDE DEF Retarget
    <3> QED
      BY <1>6, <3>1, <3>2
  <2>3. CASE slot.next = {} /\ prev = {index}
    <3>1. WrapSub(0, t.inserted + 1) \in Nat
      BY <1>1, TableAssumption DEF WrapSub, TableSpace
    <3>2. Evict(t, prev) = Retarget(WrapSub(0, t.inserted + 1))
      BY <2>1, <2>3
    <3> HIDE DEF Retarget
    <3> QED
      BY <1>6, <3>1, <3>2
  <2>4. CASE slot.next = {} /\ prev /= {index}
    <3>1. Evict(t, prev) = RemovePhaseTwo(rest, p)
      BY <2>1, <2>4
    <3> QED
      BY <1>5, <3>1, RemovePhaseTwoTyped
  <2> QED
    BY <2>2, <2>3, <2>4
<1>8. Raw(Evict(t, prev)) \in Nat
  BY <1>7 DEF Reindexed, TableSpace, Raw
<1> QED
  BY <1>3, <1>5, <1>7, <1>8 DEF Reindexed, Counts

LEMMA ConvergeTyped ==
  ASSUME NEW t, NEW extra \in Nat, NEW prev, Counts(t, extra), extra <= t.max
  PROVE  /\ Counts(Converge(t, prev), extra)
         /\ Converge(t, prev).max = t.max /\ Converge(t, prev).inserted = t.inserted
         /\ Converge(t, prev).size <= t.max
<1> DEFINE n == Len(t.slots)
<1>1. t \in TableSpace /\ n \in Nat /\ t.max \in Nat
  BY DEF Counts, TableSpace
<1>2. PICK after : /\ after[0] = t
                   /\ \A k \in 1 .. n : after[k] = ConvergeOnce(after[k - 1], prev)
                   /\ Converge(t, prev) = after[n]
  BY <1>1, ConvergeRuns
<1> HIDE DEF n
<1> DEFINE Good(u, k) ==
             /\ Counts(u, extra) /\ u.max = t.max /\ u.inserted = t.inserted
             /\ u.size <= u.max \/ Len(u.slots) = n - k
           S == {k \in Nat : k <= n => Good(after[k], k)}
<1>3. 0 \in S
  BY <1>1, <1>2 DEF n
<1>4. ASSUME NEW k \in Nat, k \in S PROVE k + 1 \in S
  <2> SUFFICES ASSUME k + 1 <= n PROVE Good(after[k + 1], k + 1)
    OBVIOUS
  <2> DEFINE u == after[k]
  <2>1. Good(u, k) /\ after[k + 1] = ConvergeOnce(u, prev)
    BY <1>1, <1>2, <1>4
  <2> HIDE DEF u
  <2>2. u \in TableSpace /\ u.slots \in Seq(SlotSpace) /\ u.size \in Nat /\ u.max \in Nat
    BY <2>1 DEF Counts, TableSpace
  <2>3. CASE u.size <= u.max
    <3>1. ConvergeOnce(u, prev) = u
      BY <2>2, <2>3 DEF ConvergeOnce
    <3> QED
      BY <2>1, <2>3, <3>1
  <2>4. CASE ~(u.size <= u.max)
    <3>1. ConvergeOnce(u, prev) = Evict(u, prev)
      BY <2>2, <2>4 DEF ConvergeOnce
    <3>2. Len(u.slots) = n - k /\ Len(u.slots) > 0
      BY <1>1, <2>1, <2>4
    <3>3. Len(Front(u.slots)) = n - (k + 1)
      BY <1>1, <2>2, <3>2, HeldByFront
    <3>4. /\ Counts(Evict(u, prev), extra) /\ Evict(u, prev).max = u.max
          /\ Evict(u, prev).inserted = u.inserted /\ Evict(u, prev).slots = Front(u.slots)
      BY <2>1, <3>2, EvictTyped
    <3> QED
      BY <2>1, <3>1, <3>3, <3>4
  <2> QED
    BY <2>3, <2>4
<1>5. Good(after[n], n)
  <2> HIDE DEF S, Good
  <2>1. n \in S
    BY <1>1, <1>3, <1>4, InductionOverNat
  <2> QED
    BY <2>1 DEF S
<1>6. after[n].size <= t.max
  <2> DEFINE u == after[n]
  <2> HIDE DEF u
  <2>1. u \in TableSpace /\ u.slots \in Seq(SlotSpace) /\ u.size = Held(u.slots) + extra /\ u.max = t.max
    BY <1>5 DEF Counts, TableSpace, u
  <2>2. u.size <= u.max \/ Len(u.slots) = 0
    BY <1>1, <1>5 DEF u
  <2>3. CASE Len(u.slots) = 0
    <3>1. Held(u.slots) = 0
      BY <2>1, <2>3, HeldByNone
    <3> QED
      BY <1>1, <2>1, <3>1 DEF u
  <2> QED
    BY <2>1, <2>2, <2>3 DEF u
<1> QED
  BY <1>2, <1>5, <1>6

LEMMA ClearedTyped ==
  ASSUME NEW t \in TableSpace, NEW raw \in Nat
  PROVE  Reindexed(t, Cleared(t, raw)) /\ Raw(Cleared(t, raw)) = raw
<1> DEFINE f == [i \in 1 .. raw |-> {}]
<1>1. f \in [1 .. raw -> SUBSET PosSpace]
  OBVIOUS
<1>2. f \in Seq(SUBSET PosSpace) /\ Len(f) = raw
  <2> HIDE DEF f
  <2> QED
    BY <1>1
<1>3. Cleared(t, raw) = [t EXCEPT !.indices = f]
  BY DEF Cleared
<1> HIDE DEF f
<1> QED
  BY <1>2, <1>3, ReindexedBy DEF Raw, TableSpace

LEMMA ResizeTyped ==
  ASSUME NEW t, Counts(t, 0), NEW size \in Nat
  PROVE  Counts(Resize(t, size), 0) /\ Resize(t, size).max = size
         /\ Resize(t, size).size <= size
<1>1. t \in TableSpace /\ t.size = Held(t.slots) + 0
  BY DEF Counts
<1>2. CASE size = 0
  <2> DEFINE c == Cleared(t, Raw(t))
  <2>1. c \in TableSpace
    BY <1>1, ClearedTyped DEF Reindexed, Raw, TableSpace
  <2>2. Resize(t, size) = [c EXCEPT !.max = 0, !.size = 0, !.slots = <<>>, !.inserted = 0]
    BY <1>2 DEF Resize
  <2> HIDE DEF c
  <2> DEFINE u == [c EXCEPT !.max = 0, !.size = 0, !.slots = <<>>, !.inserted = 0]
  <2>5. <<>> \in Seq(SlotSpace) /\ Len(<<>>) = 0
    OBVIOUS
  <2>3. u \in TableSpace /\ u.slots = <<>> /\ u.size = 0 /\ u.max = 0
    BY <2>1, <2>5 DEF TableSpace
  <2>4. Held(<<>>) = 0
    BY <2>5, HeldByNone
  <2> HIDE DEF u
  <2>6. Resize(t, size) = u
    BY <2>2 DEF u
  <2> QED
    BY <1>2, <2>3, <2>4, <2>6 DEF Counts
<1>3. CASE size /= 0
  <2> DEFINE u == [t EXCEPT !.max = size]
  <2>1. u \in TableSpace /\ u.slots = t.slots /\ u.size = t.size /\ u.max = size
    BY <1>1 DEF TableSpace
  <2>2. Resize(t, size) = Converge(u, {})
    BY <1>3 DEF Resize
  <2>3. Counts(u, 0)
    BY <1>1, <2>1 DEF Counts
  <2> HIDE DEF u
  <2> QED
    BY <2>1, <2>2, <2>3, ConvergeTyped
<1> QED
  BY <1>2, <1>3

LEMMA ReinsertTyped ==
  ASSUME NEW t \in TableSpace, NEW pos \in PosSpace
  PROVE  Reindexed(t, Reinsert(t, pos))
<1>1. PICK p : Reinsert(t, pos) = [t EXCEPT !.indices[p] = {pos}]
  BY DEF Reinsert
<1>2. Reindexed(t, [t EXCEPT !.indices[p] = {pos}])
  BY PositionReplaced
<1> QED
  BY <1>1, <1>2

LEMMA InOrderTyped ==
  ASSUME NEW t \in TableSpace
  PROVE  /\ InOrder(t) \in Seq(SUBSET PosSpace) /\ Len(InOrder(t)) = Raw(t)
         /\ Raw(t) \in Nat
<1> DEFINE ideal == {p \in 0 .. Raw(t) - 1 :
                       \E pos \in At(t, p) : ProbeDistance(t, pos.hash, p) = 0}
           first == IF ideal = {} THEN 0 ELSE CHOOSE p \in ideal : \A q \in ideal : p <= q
<1>1. t.indices \in Seq(SUBSET PosSpace) /\ Len(t.indices) = Raw(t) /\ Raw(t) \in Nat
  BY DEF TableSpace, Raw
<1>2. first \in Nat /\ (first = 0 \/ first < Raw(t))
  <2>1. ideal \in SUBSET Nat /\ \A p \in ideal : p < Raw(t)
    BY <1>1
  <2> HIDE DEF ideal
  <2>2. CASE ideal = {}
    BY <2>2
  <2>3. CASE ideal /= {}
    <3>1. \E p \in ideal : \A q \in ideal : p <= q
      BY <2>1, <2>3, Smallest
    <3>2. first \in ideal
      BY <2>3, <3>1
    <3> HIDE DEF first
    <3> QED
      BY <2>1, <3>2
  <2> QED
    BY <2>2, <2>3
<1>3. InOrder(t) = SubSeq(t.indices, first + 1, Raw(t)) \o SubSeq(t.indices, 1, first)
  BY DEF InOrder
<1> HIDE DEF first
<1>4. /\ SubSeq(t.indices, first + 1, Raw(t)) \in Seq(SUBSET PosSpace)
      /\ Len(SubSeq(t.indices, first + 1, Raw(t))) = Raw(t) - first
  BY <1>1, <1>2
<1>5. /\ SubSeq(t.indices, 1, first) \in Seq(SUBSET PosSpace)
      /\ Len(SubSeq(t.indices, 1, first)) = first
  BY <1>1, <1>2
<1> QED
  BY <1>1, <1>2, <1>3, <1>4, <1>5

LEMMA GrowTyped ==
  ASSUME NEW t \in TableSpace, NEW raw \in Nat
  PROVE  Reindexed(t, Grow(t, raw))
<1> DEFINE n == Raw(t)
<1>1. n \in Nat /\ InOrder(t) \in Seq(SUBSET PosSpace) /\ Len(InOrder(t)) = n
  BY InOrderTyped
<1>2. PICK after : /\ after[0] = Cleared(t, raw)
                   /\ \A k \in 1 .. n : after[k] = ReinsertAny(after[k - 1], InOrder(t)[k])
                   /\ Grow(t, raw) = after[n]
  BY <1>1, GrowRuns
<1> HIDE DEF n
<1> DEFINE S == {k \in Nat : k <= n => Reindexed(t, after[k])}
<1>3. 0 \in S
  BY <1>2, ClearedTyped
<1>4. ASSUME NEW k \in Nat, k \in S PROVE k + 1 \in S
  <2> SUFFICES ASSUME k + 1 <= n PROVE Reindexed(t, after[k + 1])
    OBVIOUS
  <2> DEFINE entry == InOrder(t)[k + 1]
  <2>1. Reindexed(t, after[k]) /\ after[k + 1] = ReinsertAny(after[k], entry)
    BY <1>1, <1>2, <1>4
  <2>2. entry \in SUBSET PosSpace
    BY <1>1
  <2> HIDE DEF entry
  <2>3. CASE entry = {}
    BY <2>1, <2>3 DEF ReinsertAny
  <2>4. CASE entry /= {}
    <3>1. (CHOOSE pos \in entry : TRUE) \in PosSpace
      BY <2>2, <2>4
    <3>2. Reindexed(after[k], after[k + 1])
      BY <2>1, <2>4, <3>1, ReinsertTyped DEF ReinsertAny, Reindexed
    <3> QED
      BY <2>1, <3>2 DEF Reindexed
  <2> QED
    BY <2>3, <2>4
<1>5. n \in S
  <2> HIDE DEF S
  <2> QED
    BY <1>1, <1>3, <1>4, InductionOverNat
<1> QED
  BY <1>1, <1>2, <1>5

LEMMA ReserveOneTyped ==
  ASSUME NEW t \in TableSpace
  PROVE  Reindexed(t, ReserveOne(t))
<1>1. Raw(t) \in Nat /\ 2 * Raw(t) \in Nat /\ RawCapacity \in Nat
  BY TableAssumption DEF TableSpace, Raw
<1>2. ReserveOne(t) \in {t, Cleared(t, RawCapacity), Grow(t, 2 * Raw(t))}
  BY DEF ReserveOne
<1>3. Reindexed(t, t)
  BY DEF Reindexed
<1> QED
  BY <1>1, <1>2, <1>3, ClearedTyped, GrowTyped

LEMMA InsertTyped ==
  ASSUME NEW t, NEW h \in HeaderSpace, Counts(t, LenOf(h))
  PROVE  Counts(Insert(t, h), 0) /\ Insert(t, h).max = t.max
<1> DEFINE slot == [header |-> h, hash |-> HashOf[h.name], next |-> {}]
<1>1. t \in TableSpace /\ t.slots \in Seq(SlotSpace) /\ t.inserted \in Nat
      /\ t.size = Held(t.slots) + LenOf(h)
  BY DEF Counts, TableSpace
<1>2. slot \in SlotSpace
  BY TableAssumption DEF SlotSpace, HeaderSpace
<1>3. Insert(t, h) = [t EXCEPT !.inserted = WrapAdd(t.inserted, 1), !.slots = <<slot>> \o t.slots]
  BY <1>1 DEF Insert, TableSpace
<1>4. WrapAdd(t.inserted, 1) \in Nat
  BY <1>1, WrapsInWord
<1>5. <<slot>> \o t.slots \in Seq(SlotSpace) /\ Held(<<slot>> \o t.slots) = Held(t.slots) + LenOf(h)
  <2>1. slot.header = h
    OBVIOUS
  <2> HIDE DEF slot
  <2> QED
    BY <1>1, <1>2, <2>1, HeldByMore
<1> HIDE DEF slot
<1> DEFINE slots == <<slot>> \o t.slots
<1> HIDE DEF slots
<1>6. Insert(t, h) = [t EXCEPT !.inserted = WrapAdd(t.inserted, 1), !.slots = slots]
      /\ slots \in Seq(SlotSpace) /\ Held(slots) = Held(t.slots) + LenOf(h)
  BY <1>3, <1>5 DEF slots
<1>7. Held(t.slots) \in Nat /\ LenOf(h) \in Nat
  BY <1>1, LensAreNatural, LenIsPositive
<1> HIDE DEF slots
<1> DEFINE u == [t EXCEPT !.inserted = WrapAdd(t.inserted, 1), !.slots = slots]
<1>8. u \in TableSpace /\ u.slots = slots /\ u.size = t.size /\ u.max = t.max
  BY <1>1, <1>4, <1>6 DEF TableSpace
<1> HIDE DEF u
<1>9. Insert(t, h) = u
  BY <1>6 DEF u
<1> QED
  BY <1>1, <1>6, <1>7, <1>8, <1>9 DEF Counts

----------------------------------------------------------------------------
(* Indexing a header, and a block of them.                                 *)

LEMMA LinkTyped ==
  ASSUME NEW t, Counts(t, 0), NEW index
  PROVE  Counts(Link(t, index), 0) /\ Link(t, index).max = t.max
<1> DEFINE g == RealIdx(t, index) + 1
           to == {WrapSub(0, t.inserted)}
           slots == [t.slots EXCEPT ![g].next = to]
<1>1. t \in TableSpace /\ t.slots \in Seq(SlotSpace) /\ t.inserted \in Nat
      /\ t.size = Held(t.slots) + 0
  BY DEF Counts, TableSpace
<1>2. Link(t, index) \in {t, [t EXCEPT !.slots = slots]}
  BY <1>1 DEF Link, TableSpace
<1>3. to \in SUBSET Nat
  BY <1>1, TableAssumption DEF WrapSub
<1> HIDE DEF g, to
<1>4. t.slots \in [1 .. Len(t.slots) -> SlotSpace] /\ Len(t.slots) \in Nat
  BY <1>1
<1>5. /\ slots \in [1 .. Len(t.slots) -> SlotSpace]
      /\ \A k \in 1 .. Len(t.slots) : slots[k].header = t.slots[k].header
  <2>1. ASSUME NEW k \in 1 .. Len(t.slots)
        PROVE  slots[k] \in SlotSpace /\ slots[k].header = t.slots[k].header
    <3>1. t.slots[k] \in SlotSpace
      BY <1>4
    <3>2. CASE k = g
      <4>1. slots[k] = [t.slots[k] EXCEPT !.next = to]
        BY <1>4, <3>2
      <4> HIDE DEF slots
      <4> QED
        BY <1>3, <3>1, <4>1 DEF SlotSpace
    <3>3. CASE k /= g
      <4>1. slots[k] = t.slots[k]
        BY <1>4, <3>3
      <4> HIDE DEF slots
      <4> QED
        BY <3>1, <4>1
    <3> QED
      BY <3>2, <3>3
  <2>2. DOMAIN slots = 1 .. Len(t.slots)
    BY <1>4
  <2>3. slots = [k \in 1 .. Len(t.slots) |-> slots[k]]
    BY <1>4
  <2> HIDE DEF slots
  <2> QED
    BY <2>1, <2>2, <2>3
<1> HIDE DEF slots
<1>6. slots \in Seq(SlotSpace) /\ Len(slots) = Len(t.slots)
  BY <1>4, <1>5
<1>7. Held(slots) = Held(t.slots)
  BY <1>1, <1>5, <1>6, HeldByEqual
<1> DEFINE u == [t EXCEPT !.slots = slots]
<1>8. u \in TableSpace /\ u.slots = slots /\ u.size = t.size /\ u.max = t.max
  BY <1>1, <1>6 DEF TableSpace
<1> HIDE DEF u
<1>9. Link(t, index) \in {t, u}
  BY <1>2 DEF u
<1> QED
  BY <1>1, <1>7, <1>8, <1>9 DEF Counts

LEMMA ShiftInTyped ==
  ASSUME NEW t \in TableSpace, NEW p, NEW pos \in PosSpace
  PROVE  Reindexed(t, ShiftIn(t, p, pos))
<1> DEFINE n == Probe(t, p, Empties(t))
           Fwd(q) == (q + Raw(t) - p) % Raw(t)
           f == [i \in 1 .. Raw(t) |->
                   CASE Fwd(i - 1) = 0 -> {pos}
                     [] Fwd(i - 1) \in 1 .. n -> t.indices[((i + Raw(t) - 2) % Raw(t)) + 1]
                     [] OTHER -> t.indices[i]]
<1>1. ShiftIn(t, p, pos) = [t EXCEPT !.indices = f]
  BY DEF ShiftIn
<1>2. Raw(t) \in Nat /\ t.indices \in Seq(SUBSET PosSpace)
      /\ \A i \in 1 .. Raw(t) : t.indices[i] \in SUBSET PosSpace
  BY DEF TableSpace, Raw
<1> HIDE DEF n, Fwd
<1>3. ASSUME NEW i \in 1 .. Raw(t) PROVE f[i] \in SUBSET PosSpace
  <2>1. ((i + Raw(t) - 2) % Raw(t)) + 1 \in 1 .. Raw(t)
    <3>1. i + Raw(t) - 2 \in Int /\ Raw(t) > 0
      BY <1>2
    <3> QED
      BY <1>2, <3>1
  <2>2. t.indices[((i + Raw(t) - 2) % Raw(t)) + 1] \in SUBSET PosSpace
        /\ t.indices[i] \in SUBSET PosSpace
    BY <1>2, <2>1
  <2>3. f[i] = CASE Fwd(i - 1) = 0 -> {pos}
                 [] Fwd(i - 1) \in 1 .. n -> t.indices[((i + Raw(t) - 2) % Raw(t)) + 1]
                 [] OTHER -> t.indices[i]
    OBVIOUS
  <2> HIDE DEF f
  <2> QED
    BY <2>2, <2>3
<1>4. f \in Seq(SUBSET PosSpace)
  <2>1. DOMAIN f = 1 .. Raw(t)
    OBVIOUS
  <2>2. f \in [1 .. Raw(t) -> SUBSET PosSpace]
    BY <1>3, <2>1
  <2> HIDE DEF f
  <2>3. \A n1 \in Nat : \A T : [1 .. n1 -> T] \subseteq Seq(T)
    OBVIOUS
  <2> QED
    BY <1>2, <2>2, <2>3
<1> HIDE DEF f
<1> QED
  BY <1>1, <1>4, ReindexedBy

\* What an insertion puts on the wire can be decoded into an entry, and a size
\* update is a number.
Decodable(rep) ==
  /\ rep.kind = "insert" => rep.value \in Values /\
                            (rep.index = 0 => rep.name /= {} /\ rep.name \subseteq Names)
  /\ rep.kind = "size" => rep.index \in Nat

LEMMA LiteralDecodable ==
  ASSUME NEW kind \in {"insert", "never", "without"}, NEW index, NEW h \in HeaderSpace
  PROVE  Decodable(Literal(kind, index, h))
<1>1. h.name \in Names /\ h.value \in Values
  BY DEF HeaderSpace
<1> QED
  BY <1>1 DEF Literal, Decodable

LEMMA IndexedDecodable ==
  ASSUME NEW index PROVE Decodable(Indexed(index))
BY DEF Indexed, Decodable

LEMMA NotIndexedDecodable ==
  ASSUME NEW index, NEW h \in HeaderSpace
  PROVE  Decodable(NotIndexed(index, h))
<1>1. CASE h.sensitive
  BY <1>1, LiteralDecodable DEF NotIndexed
<1>2. CASE ~h.sensitive
  BY <1>2, LiteralDecodable DEF NotIndexed
<1> QED
  BY <1>1, <1>2

LEMMA ByStaticDecodable ==
  ASSUME NEW h \in HeaderSpace
  PROVE  Decodable(ByStatic(h))
<1>1. CASE StaticFull(h) /= {}
  BY <1>1, IndexedDecodable DEF ByStatic
<1>2. CASE StaticFull(h) = {}
  BY <1>2, NotIndexedDecodable DEF ByStatic
<1> QED
  BY <1>1, <1>2

\* A table of the same size limit, whose size is what its entries hold.
Kept(t, u) == Counts(u, 0) /\ u.max = t.max

Represents(t, r) == Kept(t, r.table) /\ Decodable(r.rep)

LEMMA UpdateSizeTyped ==
  ASSUME NEW t, Counts(t, 0), NEW h \in HeaderSpace, LenOf(h) <= t.max, NEW prev
  PROVE  LET u == UpdateSize(t, LenOf(h), prev)
         IN  Counts(u, LenOf(h)) /\ u.max = t.max /\ u.inserted = t.inserted /\ u.size <= t.max
<1> DEFINE u == [t EXCEPT !.size = t.size + LenOf(h)]
<1>1. t \in TableSpace /\ t.size = Held(t.slots) + 0 /\ LenOf(h) \in Nat
  BY LenIsPositive DEF Counts
<1>2. Held(t.slots) \in Nat
  BY <1>1, LensAreNatural DEF TableSpace
<1>3. u \in TableSpace /\ u.slots = t.slots /\ u.size = t.size + LenOf(h) /\ u.max = t.max
      /\ u.inserted = t.inserted
  BY <1>1 DEF TableSpace
<1>4. UpdateSize(t, LenOf(h), prev) = Converge(u, prev)
  BY <1>1 DEF UpdateSize, TableSpace
<1> HIDE DEF u
<1>5. Counts(u, LenOf(h))
  BY <1>1, <1>2, <1>3 DEF Counts
<1> QED
  BY <1>1, <1>3, <1>4, <1>5, ConvergeTyped

LEMMA IndexOccupiedTyped ==
  ASSUME NEW t, Counts(t, 0), NEW h \in HeaderSpace, LenOf(h) <= t.max, NEW index
  PROVE  Represents(t, IndexOccupied(t, h, index))
<1> DEFINE found == RealIdx(t, index) + DynOffset
           name == IF StaticNamed(h) /= {} THEN StaticIndex(h) ELSE found
           room == UpdateSize(t, LenOf(h), {index})
           new == Insert(room, h)
<1>1. IndexOccupied(t, h, index) \in
        {[table |-> t, rep |-> Indexed(found)], [table |-> t, rep |-> NotIndexed(found, h)],
         [table |-> Link(new, index), rep |-> Literal("insert", name, h)]}
  BY DEF IndexOccupied
<1>2. Kept(t, t)
  BY DEF Kept
<1>3. Counts(room, LenOf(h)) /\ room.max = t.max
  BY UpdateSizeTyped
<1> HIDE DEF room
<1>4. Counts(new, 0) /\ new.max = t.max
  BY <1>3, InsertTyped
<1> HIDE DEF new, found, name
<1>5. Kept(t, Link(new, index))
  BY <1>4, LinkTyped DEF Kept
<1>6. Decodable(Indexed(found)) /\ Decodable(NotIndexed(found, h))
      /\ Decodable(Literal("insert", name, h))
  BY IndexedDecodable, NotIndexedDecodable, LiteralDecodable
<1> QED
  BY <1>1, <1>2, <1>5, <1>6 DEF Represents

LEMMA IndexVacantTyped ==
  ASSUME NEW t, Counts(t, 0), NEW h \in HeaderSpace, LenOf(h) <= t.max, NEW dist, NEW p
  PROVE  Represents(t, IndexVacant(t, h, dist, p))
<1>1. CASE h.sensitive
  BY <1>1, ByStaticDecodable DEF IndexVacant, Represents, Kept
<1>2. CASE ~h.sensitive
  <2> DEFINE room == UpdateSize(t, LenOf(h), {})
             place == IF room.slots /= t.slots THEN Backshift(room, p, dist) ELSE p
             pos == [index |-> WrapSub(0, WrapAdd(room.inserted, 1)), hash |-> HashOf[h.name]]
             new == Insert(room, h)
  <2>1. IndexVacant(t, h, dist, p) =
          [table |-> ShiftIn(new, place, pos), rep |-> Literal("insert", StaticIndex(h), h)]
    BY <1>2 DEF IndexVacant, IndexIn
  <2>2. Counts(room, LenOf(h)) /\ room.max = t.max
    BY UpdateSizeTyped
  <2>3. pos \in PosSpace
    <3>1. room.inserted \in Nat
      BY <2>2 DEF Counts, TableSpace
    <3>2. WrapAdd(room.inserted, 1) \in 0 .. Word - 1
      BY <3>1, WrapsInWord
    <3>3. WrapSub(0, WrapAdd(room.inserted, 1)) \in Nat
      BY <3>2, WrapsBack, TableAssumption
    <3>4. HashOf[h.name] \in Nat
      BY TableAssumption DEF HeaderSpace
    <3> HIDE DEF room
    <3> QED
      BY <3>3, <3>4 DEF PosSpace
  <2> HIDE DEF room, place, pos
  <2>4. Counts(new, 0) /\ new.max = t.max
    BY <2>2, InsertTyped
  <2> HIDE DEF new
  <2>5. Reindexed(new, ShiftIn(new, place, pos))
    BY <2>3, <2>4, ShiftInTyped DEF Counts
  <2>6. Kept(t, ShiftIn(new, place, pos))
    BY <2>4, <2>5 DEF Reindexed, Counts, Kept
  <2> QED
    BY <2>1, <2>6, LiteralDecodable DEF Represents
<1> QED
  BY <1>1, <1>2

LEMMA IndexHeaderTyped ==
  ASSUME NEW t, Counts(t, 0), NEW h \in HeaderSpace
  PROVE  Represents(t, IndexHeader(t, h))
<1>1. t \in TableSpace /\ t.max \in Nat /\ LenOf(h) \in Nat
  BY LenIsPositive DEF Counts, TableSpace
<1>2. CASE h.name \in SkipNames \/ StaticFull(h) /= {} \/ LenOf(h) * 4 > t.max * 3
  BY <1>2, ByStaticDecodable DEF IndexHeader, Represents, Kept
<1>3. CASE ~(h.name \in SkipNames \/ StaticFull(h) /= {} \/ LenOf(h) * 4 > t.max * 3)
  <2> DEFINE u == IF LenOf(h) + t.size < t.max \/ ~h.sensitive THEN ReserveOne(t) ELSE t
  <2>1. IndexHeader(t, h) = IndexReserved(u, h)
    BY <1>3 DEF IndexHeader, IndexDynamic
  <2>2. Reindexed(t, u)
    BY <1>1, ReserveOneTyped DEF Reindexed
  <2> HIDE DEF u
  <2>3. Counts(u, 0) /\ u.max = t.max /\ LenOf(h) <= u.max
    BY <1>1, <1>3, <2>2 DEF Reindexed, Counts
  <2>4. \/ IndexReserved(u, h) = [table |-> u, rep |-> ByStatic(h)]
        \/ \E dist, p : IndexReserved(u, h) = IndexVacant(u, h, dist, p)
        \/ \E index : IndexReserved(u, h) = IndexOccupied(u, h, index)
    BY DEF IndexReserved, IndexProbed
  <2>5. Represents(u, IndexReserved(u, h))
    <3>1. CASE IndexReserved(u, h) = [table |-> u, rep |-> ByStatic(h)]
      BY <2>3, <3>1, ByStaticDecodable DEF Represents, Kept
    <3>2. CASE \E dist, p : IndexReserved(u, h) = IndexVacant(u, h, dist, p)
      BY <2>3, <3>2, IndexVacantTyped
    <3>3. CASE \E index : IndexReserved(u, h) = IndexOccupied(u, h, index)
      BY <2>3, <3>3, IndexOccupiedTyped
    <3> QED
      BY <2>4, <3>1, <3>2, <3>3
  <2> QED
    BY <2>1, <2>3, <2>5 DEF Represents, Kept
<1> QED
  BY <1>2, <1>3

\* What Encode has made of a block so far; "reps" are of some set R.
Encoded(e, acc) ==
  /\ Counts(acc.table, 0) /\ acc.table.max = IF e.update = <<>> THEN e.table.max ELSE Last(e.update)
  /\ \E R : acc.reps \in Seq(R) /\ \A rep \in R : Decodable(rep)

LEMMA ResizedTyped ==
  ASSUME NEW t, Counts(t, 0), NEW update \in Seq(Nat), Len(update) <= 2
  PROVE  /\ Counts(Resized(t, update), 0)
         /\ Resized(t, update).max = IF update = <<>> THEN t.max ELSE Last(update)
<1>1. CASE Len(update) = 0
  <2>1. update = <<>>
    BY <1>1
  <2> QED
    BY <2>1 DEF Resized
<1>2. CASE Len(update) = 1
  <2>1. update /= <<>> /\ Last(update) = update[1] /\ update[1] \in Nat
    BY <1>2 DEF Last
  <2> QED
    BY <1>2, <2>1, ResizeTyped DEF Resized
<1>3. CASE Len(update) = 2
  <2>1. update /= <<>> /\ Last(update) = update[2] /\ update[1] \in Nat /\ update[2] \in Nat
    <3>1. Last(update) = update[2]
      BY <1>3 DEF Last
    <3>2. 1 \in 1 .. Len(update) /\ 2 \in 1 .. Len(update)
      BY <1>3
    <3>3. update[1] \in Nat /\ update[2] \in Nat
      BY <3>2, ElementOfSeq
    <3>4. Len(<<>>) = 0
      OBVIOUS
    <3>5. Len(update) /= Len(<<>>)
      BY <1>3, <3>4
    <3>6. update /= <<>>
      BY <3>5, Zenon
    <3> QED
      BY <3>1, <3>3, <3>6
  <2>2. Counts(Resize(t, update[1]), 0)
    BY <2>1, ResizeTyped
  <2>3. Counts(Resize(Resize(t, update[1]), update[2]), 0)
        /\ Resize(Resize(t, update[1]), update[2]).max = update[2]
    BY <2>1, <2>2, ResizeTyped
  <2> QED
    BY <1>3, <2>1, <2>3 DEF Resized
<1>4. Len(update) = 0 \/ Len(update) = 1 \/ Len(update) = 2
  <2>1. Len(update) \in Nat
    OBVIOUS
  <2>2. \A n \in Nat : n <= 2 => n = 0 \/ n = 1 \/ n = 2
    OBVIOUS
  <2> QED
    BY <2>1, <2>2
<1> QED
  BY <1>1, <1>2, <1>3, <1>4

LEMMA AppendDecodable ==
  ASSUME NEW R, NEW reps \in Seq(R), \A rep \in R : Decodable(rep), NEW rep, Decodable(rep)
  PROVE  \E Q : Append(reps, rep) \in Seq(Q) /\ \A x \in Q : Decodable(x)
<1> DEFINE Q == R \cup {rep}
<1>1. reps \in Seq(Q) /\ rep \in Q
  <2>1. reps \in [1 .. Len(reps) -> R] /\ Len(reps) \in Nat
    OBVIOUS
  <2>2. reps \in [1 .. Len(reps) -> Q]
    BY <2>1
  <2> HIDE DEF Q
  <2>3. reps \in Seq(Q)
    BY <2>1, <2>2
  <2> QED
    BY <2>3 DEF Q
<1>2. \A x \in Q : Decodable(x)
  OBVIOUS
<1> HIDE DEF Q
<1>3. Append(reps, rep) \in Seq(Q)
  BY <1>1
<1> QED
  BY <1>2, <1>3

LEMMA EncodeHeaderTyped ==
  ASSUME NEW e, NEW acc, Encoded(e, acc), NEW h \in HeaderSpace, NEW again \in BOOLEAN
  PROVE  Encoded(e, EncodeHeader(acc, h, again))
<1>1. PICK R : acc.reps \in Seq(R) /\ \A rep \in R : Decodable(rep)
  BY DEF Encoded
<1>2. CASE again
  <2> DEFINE rep == WithoutName(acc.named, h)
             next == [acc EXCEPT !.reps = Append(@, rep)]
  <2>1. Decodable(rep)
    BY NotIndexedDecodable DEF WithoutName
  <2> HIDE DEF rep
  <2>2. EncodeHeader(acc, h, again) = next
    BY <1>2 DEF EncodeHeader, rep
  <2>3. next.table = acc.table /\ (next.reps = Append(acc.reps, rep) \/ next.reps = acc.reps)
    OBVIOUS
  <2> HIDE DEF next
  <2>4. \E Q : Append(acc.reps, rep) \in Seq(Q) /\ \A x \in Q : Decodable(x)
    BY <1>1, <2>1, AppendDecodable
  <2>5. \E Q : next.reps \in Seq(Q) /\ \A x \in Q : Decodable(x)
    BY <1>1, <2>3, <2>4
  <2> QED
    BY <2>2, <2>3, <2>5 DEF Encoded
<1>3. CASE ~again
  <2> DEFINE r == IndexHeader(acc.table, h)
             next == [table |-> r.table, reps |-> Append(acc.reps, r.rep), named |-> r.rep]
  <2>1. Represents(acc.table, r)
    BY IndexHeaderTyped DEF Encoded
  <2> HIDE DEF r
  <2>2. EncodeHeader(acc, h, again) = next
    BY <1>3 DEF EncodeHeader, Represented, r
  <2>3. next.table = r.table /\ next.reps = Append(acc.reps, r.rep)
    OBVIOUS
  <2> HIDE DEF next
  <2>4. \E Q : next.reps \in Seq(Q) /\ \A x \in Q : Decodable(x)
    BY <1>1, <2>1, <2>3, AppendDecodable DEF Represents
  <2>5. Counts(next.table, 0) /\ next.table.max = acc.table.max
    BY <2>1, <2>3 DEF Represents, Kept
  <2> QED
    BY <2>2, <2>4, <2>5 DEF Encoded
<1> QED
  BY <1>2, <1>3

LEMMA EncodeTyped ==
  ASSUME NEW e, Counts(e.table, 0), e.update \in Seq(Nat), Len(e.update) <= 2,
         NEW block \in Seq(HeaderSpace)
  PROVE  Encoded(e, Encode(e, block))
<1> DEFINE n == Len(block)
<1>1. n \in Nat
  OBVIOUS
<1>2. PICK after :
        /\ after[0] = SizeUpdates(e)
        /\ \A k \in 1 .. n : after[k] = EncodeHeader(after[k - 1], block[k], Again(block, k))
        /\ Encode(e, block) = after[n]
  BY <1>1, EncodeRuns
<1>3. Encoded(e, SizeUpdates(e))
  <2> DEFINE reps == [i \in DOMAIN e.update |-> [kind |-> "size", index |-> e.update[i]]]
             R == {rep \in [kind : {"size"}, index : Nat] : TRUE}
  <2>1. e.update \in [1 .. Len(e.update) -> Nat] /\ Len(e.update) \in Nat
    OBVIOUS
  <2>2. reps \in [1 .. Len(e.update) -> R]
    BY <2>1
  <2>3. \A rep \in R : Decodable(rep)
    BY DEF Decodable
  <2> HIDE DEF reps, R
  <2>4. reps \in Seq(R)
    BY <2>1, <2>2
  <2>5. SizeUpdates(e).table = Resized(e.table, e.update) /\ SizeUpdates(e).reps = reps
    BY DEF SizeUpdates, reps
  <2> QED
    BY <2>3, <2>4, <2>5, ResizedTyped DEF Encoded
<1> DEFINE S == {k \in Nat : k <= n => Encoded(e, after[k])}
<1> HIDE DEF n
<1>4. 0 \in S
  BY <1>2, <1>3
<1>5. ASSUME NEW k \in Nat, k \in S PROVE k + 1 \in S
  <2> SUFFICES ASSUME k + 1 <= n PROVE Encoded(e, after[k + 1])
    OBVIOUS
  <2>1. Encoded(e, after[k])
    BY <1>1, <1>5
  <2>2. k + 1 \in 1 .. n /\ (k + 1) - 1 = k
    BY <1>1
  <2>3. after[k + 1] = EncodeHeader(after[k], block[k + 1], Again(block, k + 1))
    BY <1>2, <2>2
  <2>4. block[k + 1] \in HeaderSpace
    BY <2>2, ElementOfSeq DEF n
  <2>5. Again(block, k + 1) \in BOOLEAN
    BY DEF Again
  <2> QED
    BY <2>1, <2>3, <2>4, <2>5, EncodeHeaderTyped
<1>6. n \in S
  <2> HIDE DEF S
  <2> QED
    BY <1>1, <1>4, <1>5, InductionOverNat
<1> QED
  BY <1>1, <1>2, <1>6

----------------------------------------------------------------------------
(* The decoder.                                                            *)

FieldSpace == [name : Names, value : Values]

DecoderKeys ==
  {"entries", "size", "max", "last", "canResize", "malformed", "error", "fields", "total", "over"}

\* While it decodes: the size is that of the entries, and within the limit.
Fitting(d) ==
  /\ DOMAIN d = DecoderKeys
  /\ d.entries \in Seq(FieldSpace) /\ d.size = SumLen(d.entries) /\ d.max \in Nat

Decoding(d) == Fitting(d) /\ d.size <= d.max

LEMMA FieldLenIsPositive ==
  ASSUME NEW f \in FieldSpace PROVE LenOf(f) \in Nat /\ LenOf(f) > 0
BY TableAssumption DEF FieldSpace, LenOf

FieldLens(fields) == [i \in DOMAIN fields |-> LenOf(fields[i])]

LEMMA FieldLensAreNatural ==
  ASSUME NEW fields \in Seq(FieldSpace)
  PROVE  /\ \A k \in 1 .. Len(fields) : FieldLens(fields)[k] = LenOf(fields[k])
                                        /\ FieldLens(fields)[k] \in Nat
         /\ SumLen(fields) = Total(FieldLens(fields), Len(fields))
         /\ SumLen(fields) \in Nat
         /\ Summable(FieldLens(fields), Len(fields))
<1>1. \A k \in 1 .. Len(fields) : fields[k] \in FieldSpace
  BY ElementOfSeq
<1>2. \A k \in 1 .. Len(fields) : FieldLens(fields)[k] = LenOf(fields[k])
  BY DEF FieldLens
<1>3. \A k \in 1 .. Len(fields) : FieldLens(fields)[k] \in Nat
  BY <1>1, <1>2, FieldLenIsPositive
<1>4. SumLen(fields) = Total(FieldLens(fields), Len(fields))
  BY DEF SumLen, FieldLens
<1>5. Len(fields) \in Nat
  OBVIOUS
<1> QED
  BY <1>2, <1>3, <1>4, <1>5, TotalOfNaturals

LEMMA SumOfNone ==
  ASSUME NEW fields \in Seq(FieldSpace), Len(fields) = 0
  PROVE  SumLen(fields) = 0
BY FieldLensAreNatural, TotalOfNone

LEMMA SumOfFront ==
  ASSUME NEW fields \in Seq(FieldSpace), Len(fields) > 0
  PROVE  /\ Front(fields) \in Seq(FieldSpace) /\ Len(Front(fields)) = Len(fields) - 1
         /\ SumLen(fields) = SumLen(Front(fields)) + LenOf(Last(fields))
         /\ LenOf(Last(fields)) \in Nat
<1> DEFINE n == Len(fields) - 1
           rest == Front(fields)
<1>1. n \in Nat /\ Len(fields) = n + 1 /\ n + 1 \in 1 .. Len(fields)
  OBVIOUS
<1>2. rest \in Seq(FieldSpace) /\ Len(rest) = n /\ \A k \in 1 .. n : rest[k] = fields[k]
  BY <1>1 DEF Front
<1>3. Last(fields) = fields[n + 1]
  BY <1>1 DEF Last
<1> HIDE DEF rest, n
<1>4. \A k \in 1 .. n : FieldLens(rest)[k] = FieldLens(fields)[k]
  <2> TAKE k \in 1 .. n
  <2>1. k \in 1 .. Len(fields) /\ k \in 1 .. Len(rest) /\ rest[k] = fields[k]
    BY <1>1, <1>2
  <2> QED
    BY <2>1, <1>2, FieldLensAreNatural
<1>5. Total(FieldLens(fields), n + 1) = Total(FieldLens(fields), n) + FieldLens(fields)[n + 1]
  BY <1>1, FieldLensAreNatural, TotalOfMore
<1>6. Total(FieldLens(rest), n) = Total(FieldLens(fields), n)
  BY <1>1, <1>2, <1>4, FieldLensAreNatural, TotalOfEqual DEF Agree
<1>7. FieldLens(fields)[n + 1] = LenOf(Last(fields)) /\ LenOf(Last(fields)) \in Nat
  BY <1>1, <1>3, FieldLensAreNatural
<1>8. SumLen(rest) = Total(FieldLens(rest), n) /\ SumLen(fields) = Total(FieldLens(fields), n + 1)
  BY <1>1, <1>2, FieldLensAreNatural
<1> QED
  BY <1>1, <1>2, <1>5, <1>6, <1>7, <1>8 DEF rest, n

LEMMA SumOfMore ==
  ASSUME NEW fields \in Seq(FieldSpace), NEW f \in FieldSpace
  PROVE  /\ <<f>> \o fields \in Seq(FieldSpace)
         /\ SumLen(<<f>> \o fields) = SumLen(fields) + LenOf(f)
<1> DEFINE all == <<f>> \o fields
           n == Len(fields)
<1>1. n \in Nat /\ all \in Seq(FieldSpace) /\ Len(all) = n + 1
      /\ all[1] = f /\ \A k \in 1 .. n : all[k + 1] = fields[k]
  OBVIOUS
<1> HIDE DEF all
<1>2. \A k \in 1 .. n : FieldLens(fields)[k] = FieldLens(all)[k + 1]
  <2> TAKE k \in 1 .. n
  <2>1. k + 1 \in 1 .. Len(all) /\ k \in 1 .. Len(fields)
    BY <1>1
  <2> QED
    BY <2>1, <1>1, FieldLensAreNatural
<1>3. SumLen(all) = Total(FieldLens(all), n + 1) /\ SumLen(fields) = Total(FieldLens(fields), n)
      /\ SumLen(fields) \in Nat /\ Summable(FieldLens(all), n + 1)
  BY <1>1, FieldLensAreNatural
<1> HIDE DEF n
<1>4. Total(FieldLens(all), n + 1) = FieldLens(all)[1] + Total(FieldLens(fields), n)
  BY <1>1, <1>2, <1>3, TotalOfRest
<1>5. FieldLens(all)[1] = LenOf(f) /\ LenOf(f) \in Nat
  <2>1. 1 \in 1 .. Len(all)
    BY <1>1
  <2> QED
    BY <2>1, <1>1, FieldLensAreNatural
<1> QED
  BY <1>1, <1>3, <1>4, <1>5 DEF all

LEMMA FitTyped ==
  ASSUME NEW d, Fitting(d), NEW room \in Nat
  PROVE  LET u == Fit(d, room)
         IN  /\ Fitting(u) /\ u.max = d.max /\ (d.size <= d.max => u.size <= u.max)
             /\ u.size + room <= u.max \/ u.size = 0
<1> DEFINE n == Len(d.entries)
<1>1. n \in Nat /\ d.max \in Nat
  BY DEF Fitting
<1>2. PICK after : /\ after[0] = d
                   /\ \A k \in 1 .. n : after[k] = FitOnce(after[k - 1], room)
                   /\ Fit(d, room) = after[n]
  BY <1>1, FitRuns
<1> HIDE DEF n
<1> DEFINE Good(u, k) ==
             /\ Fitting(u) /\ u.max = d.max /\ (d.size <= d.max => u.size <= u.max)
             /\ u.size + room <= u.max \/ Len(u.entries) = n - k
           S == {k \in Nat : k <= n => Good(after[k], k)}
<1>3. 0 \in S
  BY <1>1, <1>2 DEF n
<1>4. ASSUME NEW k \in Nat, k \in S PROVE k + 1 \in S
  <2> SUFFICES ASSUME k + 1 <= n PROVE Good(after[k + 1], k + 1)
    OBVIOUS
  <2> DEFINE u == after[k]
             next == FitOnce(u, room)
  <2>1. Good(u, k) /\ after[k + 1] = next
    BY <1>1, <1>2, <1>4
  <2> HIDE DEF u
  <2>2. /\ u.entries \in Seq(FieldSpace) /\ u.size = SumLen(u.entries) /\ u.size \in Nat
        /\ u.max \in Nat /\ DOMAIN u = DecoderKeys
    BY <2>1, FieldLensAreNatural DEF Fitting
  <2>3. CASE u.size + room <= u.max
    <3>1. next = u
      BY <2>2, <2>3 DEF FitOnce
    <3> QED
      BY <2>1, <2>3, <3>1
  <2>4. CASE ~(u.size + room <= u.max)
    <3>1. next = [u EXCEPT !.size = u.size - LenOf(Last(u.entries)), !.entries = Front(u.entries)]
      BY <2>2, <2>4 DEF FitOnce, DecoderKeys
    <3>2. /\ DOMAIN next = DecoderKeys /\ next.entries = Front(u.entries) /\ next.max = u.max
          /\ next.size = u.size - LenOf(Last(u.entries))
      BY <2>2, <3>1 DEF DecoderKeys
    <3> HIDE DEF next
    <3>3. Len(u.entries) = n - k /\ Len(u.entries) > 0
      BY <1>1, <2>1, <2>4
    <3>4. /\ Front(u.entries) \in Seq(FieldSpace) /\ Len(Front(u.entries)) = n - (k + 1)
          /\ u.size = SumLen(Front(u.entries)) + LenOf(Last(u.entries))
          /\ LenOf(Last(u.entries)) \in Nat /\ SumLen(Front(u.entries)) \in Nat
      <4>1. /\ Front(u.entries) \in Seq(FieldSpace)
            /\ Len(Front(u.entries)) = Len(u.entries) - 1
            /\ SumLen(u.entries) = SumLen(Front(u.entries)) + LenOf(Last(u.entries))
            /\ LenOf(Last(u.entries)) \in Nat
        BY <2>2, <3>3, SumOfFront
      <4>2. SumLen(Front(u.entries)) \in Nat
        BY <4>1, FieldLensAreNatural
      <4> QED
        BY <1>1, <2>2, <3>3, <4>1, <4>2
    <3>5. next.size = SumLen(next.entries) /\ next.size \in Nat /\ next.size <= u.size
      BY <2>2, <3>2, <3>4
    <3>6. Fitting(next)
      BY <2>2, <3>2, <3>4, <3>5 DEF Fitting
    <3>7. d.size <= d.max => next.size <= next.max
      BY <2>1, <2>2, <3>2, <3>5
    <3> QED
      BY <2>1, <3>2, <3>4, <3>6, <3>7
  <2> QED
    BY <2>3, <2>4
<1>5. Good(after[n], n)
  <2> HIDE DEF S, Good
  <2>1. n \in S
    BY <1>1, <1>3, <1>4, InductionOverNat
  <2> QED
    BY <2>1 DEF S
<1>6. after[n].size + room <= after[n].max \/ after[n].size = 0
  <2>1. CASE Len(after[n].entries) = 0
    BY <1>5, <2>1, SumOfNone DEF Fitting
  <2> QED
    BY <1>1, <1>5, <2>1
<1> QED
  BY <1>2, <1>5, <1>6

LEMMA SetMaxSizeTyped ==
  ASSUME NEW d, Fitting(d), NEW size \in Nat
  PROVE  Decoding(SetMaxSize(d, size))
<1> DEFINE u == [d EXCEPT !.max = size]
<1>1. Fitting(u) /\ u.max = size
  BY DEF Fitting, DecoderKeys
<1> HIDE DEF u
<1>2. SetMaxSize(d, size) = Fit(u, 0)
  BY DEF SetMaxSize, u
<1> DEFINE v == Fit(u, 0)
<1>3. Fitting(v) /\ v.max = u.max /\ (v.size + 0 <= v.max \/ v.size = 0)
  BY <1>1, FitTyped
<1> HIDE DEF v
<1>4. v.size \in Nat /\ v.max \in Nat
  BY <1>3, FieldLensAreNatural DEF Fitting
<1>5. SetMaxSize(d, size) = v
  BY <1>2 DEF v
<1> QED
  BY <1>3, <1>4, <1>5 DEF Decoding

LEMMA InsertEntryTyped ==
  ASSUME NEW d, Decoding(d), NEW entry \in FieldSpace
  PROVE  Decoding(InsertEntry(d, entry))
<1> DEFINE room == Fit(d, LenOf(entry))
           next == [room EXCEPT !.size = room.size + LenOf(entry),
                                !.entries = <<entry>> \o room.entries]
<1>1. LenOf(entry) \in Nat
  BY FieldLenIsPositive
<1>2. Fitting(room) /\ room.size <= room.max
  BY <1>1, FitTyped DEF Decoding
<1>3. InsertEntry(d, entry) = IF room.size + LenOf(entry) <= room.max THEN next ELSE room
  BY <1>2 DEF InsertEntry, Fitting, DecoderKeys
<1> HIDE DEF room
<1>4. /\ DOMAIN next = DecoderKeys /\ next.entries = <<entry>> \o room.entries
      /\ next.size = room.size + LenOf(entry) /\ next.max = room.max
  BY <1>2 DEF Fitting, DecoderKeys
<1>5. CASE room.size + LenOf(entry) <= room.max
  <2>1. /\ <<entry>> \o room.entries \in Seq(FieldSpace)
        /\ SumLen(<<entry>> \o room.entries) = SumLen(room.entries) + LenOf(entry)
    BY <1>2, SumOfMore DEF Fitting
  <2>2. InsertEntry(d, entry) = next
    BY <1>3, <1>5
  <2> HIDE DEF next
  <2> QED
    BY <1>2, <1>4, <1>5, <2>1, <2>2 DEF Decoding, Fitting
<1>6. CASE ~(room.size + LenOf(entry) <= room.max)
  BY <1>2, <1>3, <1>6 DEF Decoding
<1> QED
  BY <1>5, <1>6

\* d and u have the same table.
SameTable(d, u) ==
  DOMAIN d = DecoderKeys =>
    DOMAIN u = DecoderKeys /\ u.entries = d.entries /\ u.size = d.size /\ u.max = d.max

LEMMA SameTableDecodes ==
  ASSUME NEW d, NEW u, Decoding(d), SameTable(d, u)
  PROVE  Decoding(u)
BY DEF Decoding, Fitting, SameTable

LEMMA FailsTyped ==
  ASSUME NEW d, NEW error
  PROVE  SameTable(d, Fails(d, error))
BY DEF Fails, SameTable, DecoderKeys

LEMMA KeepTyped ==
  ASSUME NEW d, NEW field
  PROVE  SameTable(d, Keep(d, field))
<1>1. \/ Keep(d, field) = [d EXCEPT !.malformed = TRUE]
      \/ Keep(d, field) = Fails(d, "tooLarge")
      \/ \E total, over, fields :
           Keep(d, field) = [d EXCEPT !.total = total, !.over = over, !.fields = fields]
  <2>1. CASE field.name \in MalformedNames
    BY <2>1 DEF Keep
  <2>2. CASE field.name \notin MalformedNames
             /\ d.total + LenOf(field) > AbuseMultiplier * scene.list
    BY <2>2 DEF Keep
  <2>3. CASE field.name \notin MalformedNames
             /\ ~(d.total + LenOf(field) > AbuseMultiplier * scene.list)
    BY <2>3 DEF Keep
  <2> QED
    BY <2>1, <2>2, <2>3
<1>2. CASE Keep(d, field) = [d EXCEPT !.malformed = TRUE]
  BY <1>2 DEF SameTable, DecoderKeys
<1>3. CASE \E total, over, fields :
             Keep(d, field) = [d EXCEPT !.total = total, !.over = over, !.fields = fields]
  <2>1. PICK total, over, fields :
          Keep(d, field) = [d EXCEPT !.total = total, !.over = over, !.fields = fields]
    BY <1>3
  <2> QED
    BY <2>1 DEF SameTable, DecoderKeys
<1>4. CASE Keep(d, field) = Fails(d, "tooLarge")
  BY <1>4, FailsTyped
<1> QED
  BY <1>1, <1>2, <1>3, <1>4

LEMMA DecodeRepTyped ==
  ASSUME NEW d, Decoding(d), NEW rep, Decodable(rep)
  PROVE  Decoding(DecodeRep(d, rep))
<1>1. CASE ~Accepts(d)
  BY <1>1 DEF DecodeRep
<1>2. CASE Accepts(d) /\ rep.kind = "size"
  <2>1. DecodeRep(d, rep) \in {Fails(d, "size"), SetMaxSize(d, rep.index)}
    BY <1>2 DEF DecodeRep
  <2>2. Decoding(SetMaxSize(d, rep.index))
    BY <1>2, SetMaxSizeTyped DEF Decodable, Decoding
  <2> QED
    BY <2>1, <2>2, FailsTyped, SameTableDecodes
<1>3. CASE Accepts(d) /\ rep.kind /= "size" /\ rep.index /= 0 /\ ~HasEntry(d, rep.index)
  <2>1. DecodeRep(d, rep) = Fails(d, "index")
    BY <1>3 DEF DecodeRep
  <2> QED
    BY <2>1, FailsTyped, SameTableDecodes
<1>4. CASE Accepts(d) /\ rep.kind /= "size" /\ ~(rep.index /= 0 /\ ~HasEntry(d, rep.index))
  <2> DEFINE field == FieldOf(d, rep)
             inserted == IF rep.kind = "insert" THEN InsertEntry(d, field) ELSE d
             u == [inserted EXCEPT !.canResize = FALSE]
  <2>1. DecodeRep(d, rep) = Keep(u, field)
    BY <1>4 DEF DecodeRep
  <2>2. rep.kind = "insert" => field \in FieldSpace
    <3> SUFFICES ASSUME rep.kind = "insert" PROVE field \in FieldSpace
      OBVIOUS
    <3>1. rep.value \in Values
      BY DEF Decodable
    <3>2. CASE rep.index = 0
      <4>1. (CHOOSE n \in rep.name : TRUE) \in Names
        BY <3>2 DEF Decodable
      <4> QED
        BY <3>1, <3>2, <4>1 DEF FieldOf, FieldSpace
    <3>3. CASE rep.index /= 0
      <4>1. rep.index \in 1 .. Len(Static) + Len(d.entries)
        BY <1>4, <3>3 DEF HasEntry
      <4>2. Static \in Seq(FieldSpace) /\ d.entries \in Seq(FieldSpace)
        BY TableAssumption DEF FieldSpace, Decoding, Fitting
      <4>3. Get(d, rep.index) \in FieldSpace
        <5>1. CASE rep.index <= Len(Static)
          BY <4>1, <4>2, <5>1, ElementOfSeq DEF Get
        <5>2. CASE ~(rep.index <= Len(Static))
          <6>1. rep.index - Len(Static) \in 1 .. Len(d.entries)
            BY <4>1, <4>2, <5>2
          <6> QED
            BY <4>2, <5>2, <6>1, ElementOfSeq DEF Get
        <5> QED
          BY <5>1, <5>2
      <4> QED
        BY <3>1, <3>3, <4>3 DEF FieldOf, FieldSpace
    <3> QED
      BY <3>2, <3>3
  <2> HIDE DEF field
  <2>3. Decoding(inserted)
    BY <2>2, InsertEntryTyped
  <2> HIDE DEF inserted
  <2>4. SameTable(inserted, u)
    BY DEF SameTable, DecoderKeys
  <2> HIDE DEF u
  <2> QED
    BY <2>1, <2>3, <2>4, SameTableDecodes, KeepTyped
<1> QED
  BY <1>1, <1>2, <1>3, <1>4

----------------------------------------------------------------------------
(* What is on its way.                                                     *)

\* Units of representations the decoder can read.
Readable(units) ==
  /\ \E S : units \in Seq(S)
  /\ \A i \in 1 .. Len(units) : Decodable(units[i].rep)

LEMMA SeqOfBoth ==
  ASSUME NEW S, NEW T, NEW s \in Seq(S)
  PROVE  s \in Seq(S \cup T) /\ s \in Seq(T \cup S)
<1>1. s \in [1 .. Len(s) -> S] /\ Len(s) \in Nat
  OBVIOUS
<1>2. s \in [1 .. Len(s) -> S \cup T] /\ s \in [1 .. Len(s) -> T \cup S]
  BY <1>1
<1> QED
  BY <1>1, <1>2

LEMMA ReadableNone ==
  Readable(<<>>)
<1>1. <<>> \in Seq({}) /\ Len(<<>>) = 0
  OBVIOUS
<1> QED
  BY <1>1 DEF Readable

LEMMA ReadableBoth ==
  ASSUME NEW a, NEW b, Readable(a), Readable(b)
  PROVE  Readable(a \o b)
<1>1. PICK S : a \in Seq(S)
  BY DEF Readable
<1>2. PICK T : b \in Seq(T)
  BY DEF Readable
<1> DEFINE U == S \cup T
<1>3. a \in Seq(U) /\ b \in Seq(U)
  BY <1>1, <1>2, SeqOfBoth
<1> HIDE DEF U
<1> DEFINE c == a \o b
<1>4. /\ c \in Seq(U) /\ Len(a) \in Nat /\ Len(b) \in Nat /\ Len(c) = Len(a) + Len(b)
      /\ \A i \in 1 .. Len(c) : c[i] = IF i <= Len(a) THEN a[i] ELSE b[i - Len(a)]
  BY <1>3
<1> HIDE DEF c
<1>5. ASSUME NEW i \in 1 .. Len(c) PROVE Decodable(c[i].rep)
  <2>1. CASE i <= Len(a)
    <3>1. i \in 1 .. Len(a) /\ c[i] = a[i]
      BY <1>4, <2>1
    <3> QED
      BY <3>1 DEF Readable
  <2>2. CASE ~(i <= Len(a))
    <3>1. i - Len(a) \in 1 .. Len(b) /\ c[i] = b[i - Len(a)]
      BY <1>4, <2>2
    <3> QED
      BY <3>1 DEF Readable
  <2> QED
    BY <2>1, <2>2
<1>6. Readable(c)
  BY <1>4, <1>5 DEF Readable
<1> QED
  BY <1>6 DEF c

LEMMA ReadablePart ==
  ASSUME NEW a, Readable(a), NEW m \in Nat \ {0}, NEW n \in Nat, n <= Len(a)
  PROVE  Readable(SubSeq(a, m, n))
<1>1. PICK S : a \in Seq(S)
  BY DEF Readable
<1> DEFINE c == SubSeq(a, m, n)
<1>2. Len(a) \in Nat
  BY <1>1
<1>3. CASE m > n
  <2>1. c = <<>>
    BY <1>1, <1>3
  <2> QED
    BY <2>1, ReadableNone
<1>4. CASE ~(m > n)
  <2>1. /\ c \in Seq(S) /\ Len(c) = n - m + 1
        /\ \A i \in 1 .. Len(c) : c[i] = a[m + i - 1]
    BY <1>1, <1>2, <1>4
  <2> HIDE DEF c
  <2>2. ASSUME NEW i \in 1 .. Len(c) PROVE Decodable(c[i].rep)
    <3>1. m + i - 1 \in 1 .. Len(a) /\ c[i] = a[m + i - 1]
      BY <1>2, <1>4, <2>1
    <3> QED
      BY <3>1 DEF Readable
  <2>3. Readable(c)
    BY <2>1, <2>2 DEF Readable
  <2> QED
    BY <2>3 DEF c
<1> QED
  BY <1>3, <1>4

LEMMA ReadableLast ==
  ASSUME NEW a, Readable(a), Len(a) > 0
  PROVE  Readable(<<Last(a)>>)
<1>1. PICK S : a \in Seq(S)
  BY DEF Readable
<1>2. Len(a) \in 1 .. Len(a) /\ Last(a) = a[Len(a)]
  BY <1>1 DEF Last
<1>3. Decodable(Last(a).rep)
  BY <1>2 DEF Readable
<1> DEFINE x == Last(a)
<1> HIDE DEF x
<1>4. <<x>> \in Seq({x}) /\ Len(<<x>>) = 1 /\ <<x>>[1] = x
  OBVIOUS
<1>5. \A i \in 1 .. 1 : i = 1
  OBVIOUS
<1>6. Decodable(x.rep)
  BY <1>3 DEF x
<1>7. Readable(<<x>>)
  BY <1>4, <1>5, <1>6 DEF Readable
<1> QED
  BY <1>7 DEF x

LEMMA UnitsReadable ==
  ASSUME NEW reps, \E R : reps \in Seq(R) /\ \A rep \in R : Decodable(rep)
  PROVE  Readable(Units(reps)) /\ Len(Units(reps)) \in Nat
<1>1. PICK R : reps \in Seq(R) /\ \A rep \in R : Decodable(rep)
  OBVIOUS
<1> DEFINE n == 2 * Len(reps)
           c == [i \in 1 .. n |-> [rep |-> reps[(i + 1) \div 2], part |-> (i + 1) % 2]]
           S == {c[i] : i \in 1 .. n}
<1>2. Len(reps) \in Nat /\ n \in Nat
  BY <1>1
<1>3. Units(reps) = c
  BY DEF Units
<1>4. ASSUME NEW i \in 1 .. n PROVE Decodable(c[i].rep)
  <2>1. (i + 1) \div 2 \in 1 .. Len(reps)
    BY <1>2
  <2>2. c[i].rep = reps[(i + 1) \div 2]
    OBVIOUS
  <2>3. reps[(i + 1) \div 2] \in R
    BY <1>1, <2>1, ElementOfSeq
  <2> QED
    BY <1>1, <2>2, <2>3
<1>5. DOMAIN c = 1 .. n /\ \A i \in 1 .. n : c[i] \in S
  OBVIOUS
<1>6. c = [i \in 1 .. n |-> c[i]]
  OBVIOUS
<1> HIDE DEF c, S
<1>7. c \in [1 .. n -> S]
  BY <1>5, <1>6
<1>8. c \in Seq(S) /\ Len(c) = n
  BY <1>2, <1>7
<1> HIDE DEF n
<1> QED
  BY <1>2, <1>3, <1>4, <1>8 DEF Readable

\* A frame of the receiver's.
Frame(f) == f.kind /= "ack" => Readable(f.payload)

Framed(frames) ==
  /\ \E S : frames \in Seq(S)
  /\ \A i \in 1 .. Len(frames) : Frame(frames[i])

LEMMA FramedMore ==
  ASSUME NEW frames, Framed(frames), NEW f, Frame(f)
  PROVE  Framed(Append(frames, f))
<1>1. PICK S : frames \in Seq(S)
  BY DEF Framed
<1> DEFINE T == S \cup {f}
           c == Append(frames, f)
<1>2. frames \in Seq(T) /\ f \in T
  BY <1>1, SeqOfBoth
<1> HIDE DEF T
<1>3. /\ c \in Seq(T) /\ Len(frames) \in Nat /\ Len(c) = Len(frames) + 1
      /\ \A i \in 1 .. Len(c) : c[i] = IF i = Len(frames) + 1 THEN f ELSE frames[i]
  BY <1>2
<1> HIDE DEF c
<1>4. ASSUME NEW i \in 1 .. Len(c) PROVE Frame(c[i])
  <2>1. CASE i = Len(frames) + 1
    BY <1>3, <2>1
  <2>2. CASE i /= Len(frames) + 1
    <3>1. i \in 1 .. Len(frames) /\ c[i] = frames[i]
      BY <1>3, <2>2
    <3> QED
      BY <3>1 DEF Framed
  <2> QED
    BY <2>1, <2>2
<1>5. Framed(c)
  BY <1>3, <1>4 DEF Framed
<1> QED
  BY <1>5 DEF c

LEMMA FramedLess ==
  ASSUME NEW frames, Framed(frames), frames /= <<>>
  PROVE  Framed(Tail(frames)) /\ Frame(Head(frames))
<1>1. PICK S : frames \in Seq(S)
  BY DEF Framed
<1> DEFINE c == Tail(frames)
<1>2. /\ Len(frames) \in Nat /\ Len(frames) > 0 /\ Head(frames) = frames[1]
      /\ c \in Seq(S) /\ Len(c) = Len(frames) - 1
      /\ \A i \in 1 .. Len(c) : c[i] = frames[i + 1]
  BY <1>1
<1> HIDE DEF c
<1>3. ASSUME NEW i \in 1 .. Len(c) PROVE Frame(c[i])
  <2>1. i + 1 \in 1 .. Len(frames) /\ c[i] = frames[i + 1]
    BY <1>2
  <2> QED
    BY <2>1 DEF Framed
<1>4. Framed(c) /\ 1 \in 1 .. Len(frames)
  BY <1>2, <1>3 DEF Framed
<1>5. Frame(frames[1])
  BY <1>4 DEF Framed
<1> QED
  BY <1>2, <1>4, <1>5 DEF c

LEMMA LoadTyped ==
  ASSUME NEW d, d.entries \in Seq(FieldSpace), d.size = SumLen(d.entries), d.max \in Nat,
         d.size <= d.max, NEW partial, NEW units, Readable(units)
  PROVE  Decoding(Load(d, partial, units))
<1> DEFINE n == Len(units) \div 2
<1>1. Len(units) \in Nat /\ n \in Nat
  BY DEF Readable
<1>2. PICK after :
        /\ after[0] = Loading(d, partial)
        /\ \A k \in 1 .. n : after[k] = DecodeRep(after[k - 1], units[2 * k].rep)
        /\ Load(d, partial, units) = after[n]
  BY <1>1, LoadRuns
<1>3. Decoding(Loading(d, partial))
  BY DEF Loading, Decoding, Fitting, DecoderKeys
<1>4. \A k \in 1 .. n : 2 * k \in 1 .. Len(units)
  BY <1>1
<1> HIDE DEF n
<1> DEFINE S == {k \in Nat : k <= n => Decoding(after[k])}
<1>5. 0 \in S
  BY <1>2, <1>3
<1>6. ASSUME NEW k \in Nat, k \in S PROVE k + 1 \in S
  <2> SUFFICES ASSUME k + 1 <= n PROVE Decoding(after[k + 1])
    OBVIOUS
  <2>1. Decoding(after[k]) /\ k + 1 \in 1 .. n /\ (k + 1) - 1 = k
    BY <1>1, <1>6
  <2>2. after[k + 1] = DecodeRep(after[k], units[2 * (k + 1)].rep)
    BY <1>2, <2>1
  <2>3. Decodable(units[2 * (k + 1)].rep)
    BY <1>4, <2>1 DEF Readable
  <2> QED
    BY <2>1, <2>2, <2>3, DecodeRepTyped
<1>7. n \in S
  <2> HIDE DEF S
  <2> QED
    BY <1>1, <1>5, <1>6, InductionOverNat
<1> QED
  BY <1>1, <1>2, <1>7

----------------------------------------------------------------------------
(* Size updates.                                                           *)

LEMMA MinOfTwo ==
  ASSUME NEW a \in Nat, NEW b \in Nat
  PROVE  Min({a, b}) = IF a <= b THEN a ELSE b
<1> DEFINE m == IF a <= b THEN a ELSE b
<1>1. m \in {a, b} /\ \A y \in {a, b} : m <= y
  OBVIOUS
<1>2. \A x \in {a, b} : (\A y \in {a, b} : x <= y) => x = m
  OBVIOUS
<1> HIDE DEF m
<1>3. Min({a, b}) = m
  BY <1>1, <1>2 DEF Min
<1> QED
  BY <1>3 DEF m

\* What was announced comes to: the least of the size in force and those pending,
\* and the last of them.  Of two, the first is the lesser.
Announced(e, least, last) ==
  /\ e.update \in Seq(Nat) /\ e.table.max \in Nat /\ e.table.max <= DefaultSize
  /\ Len(e.update) \in {0, 1, 2}
  /\ least \in Nat /\ last \in Nat
  /\ Len(e.update) = 0 => last = e.table.max /\ least = last
  /\ Len(e.update) = 1 => /\ last = e.update[1] /\ last <= DefaultSize
                          /\ least = IF e.update[1] <= e.table.max THEN e.update[1]
                                                                  ELSE e.table.max
  /\ Len(e.update) = 2 => /\ last = e.update[2] /\ last <= DefaultSize
                          /\ e.update[1] <= e.update[2]
                          /\ least = IF e.update[1] <= e.table.max THEN e.update[1]
                                                                  ELSE e.table.max

LEMMA AnnouncedIsObeyed ==
  ASSUME NEW e, NEW least, NEW last, Announced(e, least, last)
  PROVE  LET sizes == <<e.table.max>> \o e.update
         IN  Last(sizes) = last /\ Min(Range(sizes)) = least
<1> DEFINE m == e.table.max
           u == e.update
           sizes == <<m>> \o u
<1>1. m \in Nat /\ u \in Seq(Nat) /\ least \in Nat
  BY DEF Announced
<1>2. Len(u) = 0 => u = <<>>
  BY <1>1
<1>3. /\ sizes \in Seq(Nat) /\ Len(u) \in Nat /\ Len(sizes) = Len(u) + 1 /\ DOMAIN sizes = 1 .. Len(u) + 1
      /\ sizes[1] = m /\ \A i \in 1 .. Len(u) : sizes[i + 1] = u[i]
  BY <1>1
<1>4. Len(u) = 1 => u[1] \in Nat
  BY <1>1
<1>5. Len(u) = 2 => u[1] \in Nat /\ u[2] \in Nat
  BY <1>1
<1>7. /\ Len(u) \in {0, 1, 2}
      /\ Len(u) = 0 => last = m /\ least = last
      /\ Len(u) = 1 => last = u[1] /\ least = IF u[1] <= m THEN u[1] ELSE m
      /\ Len(u) = 2 => /\ last = u[2] /\ u[1] <= u[2]
                       /\ least = IF u[1] <= m THEN u[1] ELSE m
  BY DEF Announced
<1> HIDE DEF sizes, u, m
<1>8. Last(sizes) = last
  <2>1. Last(sizes) = sizes[Len(u) + 1]
    BY <1>3 DEF Last
  <2>2. CASE Len(u) = 0
    BY <1>3, <1>7, <2>1, <2>2
  <2>3. CASE Len(u) = 1
    <3>1. sizes[1 + 1] = u[1]
      BY <1>3, <2>3
    <3> QED
      BY <1>7, <2>1, <2>3, <3>1
  <2>4. CASE Len(u) = 2
    <3>1. sizes[2 + 1] = u[2]
      BY <1>3, <2>4
    <3> QED
      BY <1>7, <2>1, <2>4, <3>1
  <2> QED
    BY <1>7, <2>2, <2>3, <2>4
<1>9. least \in Range(sizes) /\ \A y \in Range(sizes) : y \in Nat /\ least <= y
  <2>1. Range(sizes) = {sizes[i] : i \in 1 .. Len(u) + 1}
    BY <1>3 DEF Range
  <2>2. CASE Len(u) = 0
    <3>1. \A i \in 1 .. 0 + 1 : i = 1
      OBVIOUS
    <3> QED
      BY <1>1, <1>3, <1>7, <2>1, <2>2, <3>1
  <2>3. CASE Len(u) = 1
    <3>1. sizes[2] = u[1]
      BY <1>3, <2>3
    <3>2. Range(sizes) = {sizes[i] : i \in 1 .. 2}
      BY <2>1, <2>3
    <3>3. \A i \in 1 .. 2 : i = 1 \/ i = 2
      OBVIOUS
    <3>4. Range(sizes) = {m, u[1]}
      BY <1>3, <3>1, <3>2, <3>3
    <3> QED
      BY <1>1, <1>4, <1>7, <2>3, <3>4
  <2>4. CASE Len(u) = 2
    <3>1. sizes[2] = u[1] /\ sizes[3] = u[2]
      BY <1>3, <2>4
    <3>2. Range(sizes) = {sizes[i] : i \in 1 .. 3}
      BY <2>1, <2>4
    <3>3. \A i \in 1 .. 3 : i = 1 \/ i = 2 \/ i = 3
      OBVIOUS
    <3>4. Range(sizes) = {m, u[1], u[2]}
      BY <1>3, <3>1, <3>2, <3>3
    <3> QED
      BY <1>1, <1>5, <1>7, <2>4, <3>4
  <2> QED
    BY <1>7, <2>2, <2>3, <2>4
<1>10. Min(Range(sizes)) = least
  <2>1. \A x \in Range(sizes) : (\A y \in Range(sizes) : x <= y) => x = least
    BY <1>1, <1>9
  <2> QED
    BY <1>9, <2>1 DEF Min
<1> QED
  BY <1>8, <1>10 DEF sizes, u, m

\* The sizes an acknowledgement adds.
LEMMA UpdateMaxSizeTyped ==
  ASSUME NEW e, DOMAIN e = {"table", "update", "next", "remote"},
         NEW least, NEW last, Announced(e, least, last), NEW size \in Nat
  PROVE  /\ Announced(UpdateMaxSize(e, size), Min({size, least}), Min({size, DefaultSize}))
         /\ \E update : UpdateMaxSize(e, size) = [e EXCEPT !.update = update]
<1> DEFINE val == IF size < DefaultSize THEN size ELSE DefaultSize
           m == e.table.max
           old == e.update
           update == CASE old = <<>> -> IF val /= m THEN <<val>> ELSE <<>>
             [] old /= <<>> /\ val <= old[1] /\ (Len(old) = 1 \/ val < old[1]) -> <<val>>
             [] Len(old) = 1 /\ val > old[1] /\ old[1] > m -> <<val>>
             [] OTHER -> <<old[1], val>>
           low == Min({size, least})
           next == [e EXCEPT !.update = update]
<1>1. DefaultSize \in Nat
  BY HpackAssumption
<1>2. m \in Nat /\ m <= DefaultSize /\ old \in Seq(Nat) /\ least \in Nat /\ Len(old) \in {0, 1, 2}
      /\ last \in Nat
  BY DEF Announced
<1>3. val \in Nat /\ val <= DefaultSize /\ Min({size, DefaultSize}) = val
  BY <1>1, MinOfTwo
<1>4. low = IF size <= least THEN size ELSE least
  BY <1>2, MinOfTwo
<1>5. /\ Len(old) = 0 => least = m
      /\ Len(old) = 1 => least = IF old[1] <= m THEN old[1] ELSE m
      /\ Len(old) = 2 => old[1] <= old[2] /\ least = IF old[1] <= m THEN old[1] ELSE m
  BY DEF Announced
<1>6. /\ Len(old) = 0 => old = <<>>
      /\ old = <<>> => Len(old) = 0
      /\ Len(old) = 1 => old[1] \in Nat
      /\ Len(old) = 2 => old[1] \in Nat /\ old[2] \in Nat
  BY <1>2
<1>7. UpdateMaxSize(e, size) = next
  BY DEF UpdateMaxSize
<1>8. next.update = update /\ next.table = e.table
  OBVIOUS
<1>9. low \in Nat /\ low = IF val <= least THEN val ELSE least
  BY <1>1, <1>2, <1>4, <1>5, <1>6
<1> HIDE DEF low, next
<1>10. \/ Len(old) = 0 /\ val = m /\ update = <<>>
       \/ Len(old) = 0 /\ val /= m /\ update = <<val>>
       \/ Len(old) \in {1, 2} /\ val <= old[1] /\ update = <<val>>
       \/ Len(old) = 1 /\ val > old[1] /\ old[1] > m /\ update = <<val>>
       \/ Len(old) = 1 /\ val > old[1] /\ ~(old[1] > m) /\ update = <<old[1], val>>
       \/ Len(old) = 2 /\ val >= old[1] /\ update = <<old[1], val>>
  <2>1. CASE Len(old) = 0
    BY <1>6, <2>1
  <2>2. CASE Len(old) = 1
    <3>1. old /= <<>>
      BY <1>6, <2>2
    <3>2. CASE val <= old[1]
      BY <2>2, <3>1, <3>2
    <3>3. CASE val > old[1] /\ old[1] > m
      BY <1>3, <1>6, <2>2, <3>1, <3>3
    <3>4. CASE val > old[1] /\ ~(old[1] > m)
      BY <1>3, <1>6, <2>2, <3>1, <3>4
    <3> QED
      BY <1>3, <1>6, <2>2, <3>2, <3>3, <3>4
  <2>3. CASE Len(old) = 2
    <3>1. old /= <<>>
      BY <1>6, <2>3
    <3>2. CASE val < old[1]
      BY <1>3, <1>6, <2>3, <3>1, <3>2
    <3>3. CASE val >= old[1]
      BY <1>3, <1>6, <2>3, <3>1, <3>3
    <3> QED
      BY <1>3, <1>6, <2>3, <3>2, <3>3
  <2> QED
    BY <1>2, <2>1, <2>2, <2>3
<1> HIDE DEF update, val
<1>11. Announced(next, low, val)
  <2>1. CASE Len(old) = 0 /\ val = m /\ update = <<>>
    <3>1. update \in Seq(Nat) /\ Len(update) = 0
      BY <2>1
    <3> QED
      BY <1>2, <1>3, <1>5, <1>8, <1>9, <2>1, <3>1 DEF Announced
  <2>2. CASE update = <<val>> /\ low = IF val <= m THEN val ELSE m
    <3>1. update \in Seq(Nat) /\ Len(update) = 1 /\ update[1] = val
      BY <1>3, <2>2
    <3> QED
      BY <1>2, <1>3, <1>8, <1>9, <2>2, <3>1 DEF Announced
  <2>3. CASE /\ update = <<old[1], val>> /\ old[1] \in Nat /\ old[1] <= val
             /\ low = IF old[1] <= m THEN old[1] ELSE m
    <3>1. update \in Seq(Nat) /\ Len(update) = 2 /\ update[1] = old[1] /\ update[2] = val
      BY <1>3, <2>3
    <3> QED
      BY <1>2, <1>3, <1>8, <1>9, <2>3, <3>1 DEF Announced
  <2> HIDE DEF old, m
  <2>4. CASE Len(old) = 0 /\ val /= m /\ update = <<val>>
    BY <1>2, <1>3, <1>5, <1>9, <2>2, <2>4
  <2>5. CASE Len(old) \in {1, 2} /\ val <= old[1] /\ update = <<val>>
    BY <1>2, <1>3, <1>5, <1>6, <1>9, <2>2, <2>5
  <2>6. CASE Len(old) = 1 /\ val > old[1] /\ old[1] > m /\ update = <<val>>
    BY <1>2, <1>3, <1>5, <1>6, <1>9, <2>2, <2>6
  <2>7. CASE Len(old) = 1 /\ val > old[1] /\ ~(old[1] > m) /\ update = <<old[1], val>>
    BY <1>2, <1>3, <1>5, <1>6, <1>9, <2>3, <2>7
  <2>8. CASE Len(old) = 2 /\ val >= old[1] /\ update = <<old[1], val>>
    BY <1>2, <1>3, <1>5, <1>6, <1>9, <2>3, <2>8
  <2> QED
    BY <1>10, <2>1, <2>4, <2>5, <2>6, <2>7, <2>8
<1> QED
  BY <1>3, <1>7, <1>11 DEF low, next

----------------------------------------------------------------------------
(* The specification.                                                      *)

EncoderKeys == {"table", "update", "next", "remote"}
ReceiverKeys == {"entries", "size", "max", "last", "queued", "partial", "waiting", "error"}
LogKeys == {"blocks", "agree", "least", "last"}

Sender(e, l) ==
  /\ DOMAIN e = EncoderKeys /\ DOMAIN l = LogKeys
  /\ Counts(e.table, 0) /\ Announced(e, l.least, l.last)
  /\ Readable(e.next) /\ e.remote \subseteq Nat

Receiver(d) ==
  /\ DOMAIN d = ReceiverKeys
  /\ d.entries \in Seq(FieldSpace) /\ d.size = SumLen(d.entries)
  /\ d.max \in Nat /\ d.size <= d.max
  /\ \A p \in d.partial : Readable(p.buf)

HInv ==
  /\ scene \in SceneSpace /\ back \in Seq(Nat) /\ Framed(wire)
  /\ Sender(enc, log) /\ Receiver(dec)

LEMMA InitHolds ==
  Init => HInv
<1> SUFFICES ASSUME Init PROVE HInv
  OBVIOUS
<1>1. DefaultSize \in Nat /\ scene \in SceneSpace
  BY HpackAssumption DEF Init
<1>2. back \in Seq(Nat)
  BY DEF Init
<1>3. wire \in Seq({}) /\ Len(wire) = 0
  BY DEF Init
<1>4. Framed(wire)
  BY <1>3 DEF Framed
<1>5. Counts(NewTable(DefaultSize), 0) /\ NewTable(DefaultSize).max = DefaultSize
  <2> DEFINE t == NewTable(DefaultSize)
  <2>1. /\ <<>> \in Seq(SlotSpace) /\ <<>> \in Seq(SUBSET PosSpace) /\ Len(<<>>) = 0
    OBVIOUS
  <2>2. t = [slots |-> <<>>, indices |-> <<>>, inserted |-> 0, size |-> 0, max |-> DefaultSize]
    BY DEF NewTable
  <2>3. t \in TableSpace /\ t.slots = <<>> /\ t.size = 0 /\ t.max = DefaultSize
    BY <1>1, <2>1, <2>2 DEF TableSpace
  <2>4. Held(<<>>) = 0
    BY <2>1, HeldByNone
  <2> QED
    BY <2>3, <2>4 DEF Counts
<1>6. Sender(enc, log)
  <2>1. /\ enc = [table |-> NewTable(DefaultSize), update |-> <<>>, next |-> <<>>, remote |-> {}]
        /\ log = [blocks |-> <<>>, agree |-> TRUE, least |-> DefaultSize, last |-> DefaultSize]
    BY DEF Init
  <2>2. /\ DOMAIN enc = EncoderKeys /\ DOMAIN log = LogKeys
        /\ enc.table = NewTable(DefaultSize) /\ enc.update = <<>> /\ enc.next = <<>>
        /\ enc.remote = {} /\ log.least = DefaultSize /\ log.last = DefaultSize
    BY <2>1 DEF EncoderKeys, LogKeys
  <2>3. <<>> \in Seq(Nat) /\ Len(<<>>) = 0
    OBVIOUS
  <2>4. Announced(enc, log.least, log.last)
    BY <1>1, <1>5, <2>2, <2>3 DEF Announced
  <2> QED
    BY <1>5, <2>2, <2>4, ReadableNone DEF Sender
<1>7. Receiver(dec)
  <2>1. dec = [entries |-> <<>>, size |-> 0, max |-> DefaultSize, last |-> DefaultSize,
               queued |-> {}, partial |-> {}, waiting |-> {}, error |-> "none"]
    BY DEF Init
  <2>2. /\ DOMAIN dec = ReceiverKeys /\ dec.entries = <<>> /\ dec.size = 0
        /\ dec.max = DefaultSize /\ dec.partial = {}
    BY <2>1 DEF ReceiverKeys
  <2>3. <<>> \in Seq(FieldSpace) /\ Len(<<>>) = 0
    OBVIOUS
  <2>4. SumLen(<<>>) = 0
    BY <2>3, SumOfNone
  <2> QED
    BY <1>1, <2>2, <2>3, <2>4 DEF Receiver
<1> QED
  BY <1>1, <1>2, <1>4, <1>6, <1>7 DEF HInv

\* What an error leaves of the receiver.
LEMMA ReceiverFails ==
  ASSUME NEW d, Receiver(d), NEW error
  PROVE  Receiver(Fails(d, error))
BY DEF Receiver, ReceiverKeys, Fails

LEMMA FragmentReadable ==
  ASSUME NEW kind, NEW units, Readable(units), scene \in SceneSpace
  PROVE  Frame(Fragment(kind, units)) /\ Readable(Remaining(units))
<1> DEFINE n == Min({scene.room, Len(units)})
<1>1. Len(units) \in Nat
  BY DEF Readable
<1>2. scene.room \in Nat
  BY DEF SceneSpace
<1>3. n \in Nat /\ n <= Len(units)
  BY <1>1, <1>2, MinOfTwo
<1> HIDE DEF n
<1>4. Readable(SubSeq(units, 1, n))
  BY <1>3, ReadablePart
<1>5. scene.room + 1 \in Nat \ {0} /\ Len(units) <= Len(units)
  BY <1>1, <1>2
<1>6. Readable(SubSeq(units, scene.room + 1, Len(units)))
  BY <1>1, <1>5, ReadablePart
<1> QED
  BY <1>4, <1>6 DEF Frame, Fragment, Remaining, n

LEMMA SendHeadersKeeps ==
  ASSUME HInv, NEW block \in scene.blocks, SendHeaders(block)
  PROVE  HInv'
<1> USE DEF HInv
<1>1. block \in Seq(HeaderSpace)
  BY DEF SceneSpace
<1>2. PICK r \in {Encode(enc, block)} :
        /\ enc' = [enc EXCEPT !.table = r.table, !.update = <<>>,
                              !.next = Remaining(Units(r.reps))]
        /\ wire' = Append(wire, Fragment("headers", Units(r.reps)))
        /\ log' = [log EXCEPT !.blocks = Append(@, [fields |-> block, units |-> 2 * Len(r.reps)]),
                              !.least = log.last]
  BY DEF SendHeaders
<1>3. Encoded(enc, r)
  <2>1. Counts(enc.table, 0) /\ enc.update \in Seq(Nat)
    BY DEF Sender, Announced
  <2>2. Len(enc.update) \in {0, 1, 2}
    BY DEF Sender, Announced
  <2>3. Len(enc.update) <= 2
    <3> HIDE DEF HInv
    <3>1. \A n \in {0, 1, 2} : n <= 2
      OBVIOUS
    <3> QED
      BY <2>2, <3>1
  <2>4. Encoded(enc, Encode(enc, block))
    BY <1>1, <2>1, <2>3, EncodeTyped
  <2> QED
    BY <1>2, <2>4
<1>4. Readable(Units(r.reps))
  BY <1>3, UnitsReadable DEF Encoded
<1>5. Frame(Fragment("headers", Units(r.reps))) /\ Readable(Remaining(Units(r.reps)))
  BY <1>4, FragmentReadable
<1>6. Framed(wire')
  BY <1>2, <1>5, FramedMore
<1>7. /\ DOMAIN enc' = EncoderKeys /\ DOMAIN log' = LogKeys /\ enc'.table = r.table /\ enc'.update = <<>>
      /\ enc'.next = Remaining(Units(r.reps)) /\ enc'.remote = enc.remote
      /\ log'.least = log.last /\ log'.last = log.last
  BY <1>2 DEF Sender, EncoderKeys, LogKeys
<1>8. r.table.max = log.last /\ log.last \in Nat /\ log.last <= DefaultSize
  <2>1. r.table.max = IF enc.update = <<>> THEN enc.table.max ELSE Last(enc.update)
    BY <1>3 DEF Encoded
  <2>2. /\ enc.update \in Seq(Nat) /\ log.last \in Nat
        /\ Len(enc.update) \in {0, 1, 2} /\ enc.table.max <= DefaultSize
        /\ Len(enc.update) = 0 => log.last = enc.table.max
        /\ Len(enc.update) = 1 => log.last = enc.update[1] /\ log.last <= DefaultSize
        /\ Len(enc.update) = 2 => log.last = enc.update[2] /\ log.last <= DefaultSize
    BY DEF Sender, Announced
  <2>3. CASE Len(enc.update) = 0
    <3>1. enc.update = <<>>
      BY <2>2, <2>3
    <3> QED
      BY <2>1, <2>2, <2>3, <3>1
  <2>4. CASE Len(enc.update) \in {1, 2}
    <3>1. enc.update /= <<>>
      BY <2>2, <2>4
    <3> QED
      BY <2>1, <2>2, <2>4, <3>1 DEF Last
  <2> QED
    BY <2>2, <2>3, <2>4
<1>9. Counts(r.table, 0)
  BY <1>3 DEF Encoded
<1>10. Sender(enc', log')
  <2>1. <<>> \in Seq(Nat) /\ Len(<<>>) = 0
    OBVIOUS
  <2>2. Announced(enc', log'.least, log'.last)
    BY <1>7, <1>8, <2>1 DEF Announced
  <2> QED
    BY <1>5, <1>7, <1>9, <2>2 DEF Sender
<1>11. scene' = scene /\ dec' = dec /\ back' = back
  BY DEF SendHeaders
<1> QED
  BY <1>6, <1>10, <1>11

LEMMA WriteContinuationKeeps ==
  ASSUME HInv, WriteContinuation
  PROVE  HInv'
<1> USE DEF HInv
<1>1. /\ wire' = Append(wire, Fragment("continuation", enc.next))
      /\ enc' = [enc EXCEPT !.next = Remaining(enc.next)]
      /\ scene' = scene /\ dec' = dec /\ back' = back /\ log' = log
  BY DEF WriteContinuation
<1>2. Frame(Fragment("continuation", enc.next)) /\ Readable(Remaining(enc.next))
  BY FragmentReadable DEF Sender
<1>3. Framed(wire')
  BY <1>1, <1>2, FramedMore
<1>4. /\ DOMAIN enc' = EncoderKeys /\ enc'.table = enc.table /\ enc'.update = enc.update
      /\ enc'.next = Remaining(enc.next) /\ enc'.remote = enc.remote
  BY <1>1 DEF Sender, EncoderKeys
<1>5. Sender(enc', log')
  BY <1>1, <1>2, <1>4 DEF Sender, Announced
<1> QED
  BY <1>1, <1>3, <1>5

LEMMA RecvSettingsKeeps ==
  ASSUME HInv, RecvSettings
  PROVE  HInv'
<1> USE DEF HInv
<1>1. /\ back /= <<>> /\ enc' = [enc EXCEPT !.remote = {Head(back)}] /\ back' = Tail(back)
      /\ scene' = scene /\ dec' = dec /\ wire' = wire /\ log' = log
  BY DEF RecvSettings
<1>2. Head(back) \in Nat /\ back' \in Seq(Nat)
  BY <1>1
<1>3. /\ DOMAIN enc' = EncoderKeys /\ enc'.table = enc.table /\ enc'.update = enc.update
      /\ enc'.next = enc.next /\ enc'.remote = {Head(back)}
  BY <1>1 DEF Sender, EncoderKeys
<1>4. Sender(enc', log')
  BY <1>1, <1>2, <1>3 DEF Sender, Announced
<1> QED
  BY <1>1, <1>2, <1>4

LEMMA AckSettingsKeeps ==
  ASSUME HInv, AckSettings
  PROVE  HInv'
<1> USE DEF HInv
<1>1. PICK size \in enc.remote :
        /\ enc' = [UpdateMaxSize(enc, size) EXCEPT !.remote = {}]
        /\ log' = Acknowledged(size)
  BY DEF AckSettings
<1>2. /\ wire' = Append(wire, [kind |-> "ack"])
      /\ scene' = scene /\ dec' = dec /\ back' = back
  BY DEF AckSettings
<1>3. size \in Nat
  BY DEF Sender
<1> DEFINE low == Min({size, log.least})
           new == Min({size, DefaultSize})
<1>4. /\ Announced(UpdateMaxSize(enc, size), low, new)
      /\ \E update : UpdateMaxSize(enc, size) = [enc EXCEPT !.update = update]
  BY <1>3, UpdateMaxSizeTyped DEF Sender, EncoderKeys
<1>5. log' = [log EXCEPT !.last = new, !.least = low]
  BY <1>1 DEF Acknowledged, Sender, LogKeys
<1> HIDE DEF low, new
<1>6. DOMAIN log' = LogKeys /\ log'.last = new /\ log'.least = low
  BY <1>5 DEF Sender, LogKeys
<1>7. PICK update : UpdateMaxSize(enc, size) = [enc EXCEPT !.update = update]
  BY <1>4
<1>8. /\ enc'.update = UpdateMaxSize(enc, size).update
      /\ enc'.table = UpdateMaxSize(enc, size).table
      /\ DOMAIN enc' = EncoderKeys /\ enc'.table = enc.table /\ enc'.next = enc.next
      /\ enc'.remote = {}
  BY <1>1, <1>7 DEF Sender, EncoderKeys
<1>9. Announced(enc', log'.least, log'.last)
  BY <1>4, <1>6, <1>8 DEF Announced
<1>10. Sender(enc', log')
  BY <1>6, <1>8, <1>9 DEF Sender
<1>11. Framed(wire')
  <2>1. Frame([kind |-> "ack"])
    BY DEF Frame
  <2> QED
    BY <1>2, <2>1, FramedMore
<1> QED
  BY <1>2, <1>10, <1>11

LEMMA SendSettingsKeeps ==
  ASSUME HInv, NEW size \in scene.sizes, SendSettings(size)
  PROVE  HInv'
<1> USE DEF HInv
<1>1. /\ dec' = [dec EXCEPT !.waiting = {size}] /\ back' = Append(back, size)
      /\ scene' = scene /\ enc' = enc /\ wire' = wire /\ log' = log
  BY DEF SendSettings
<1>2. size \in Nat
  BY DEF SceneSpace
<1>3. back' \in Seq(Nat)
  BY <1>1, <1>2
<1>4. Receiver(dec')
  BY <1>1 DEF Receiver, ReceiverKeys
<1> QED
  BY <1>1, <1>3, <1>4

LEMMA RecvAckKeeps ==
  ASSUME HInv, RecvAck
  PROVE  HInv'
<1> USE DEF HInv
<1>1. /\ wire /= <<>> /\ wire' = Tail(wire)
      /\ scene' = scene /\ enc' = enc /\ back' = back /\ log' = log
  BY DEF RecvAck, Reads
<1>2. Framed(wire')
  BY <1>1, FramedLess
<1>3. CASE dec.partial /= {}
  <2>1. dec' = Fails(dec, "interleaved")
    BY <1>3 DEF RecvAck
  <2> QED
    BY <1>1, <1>2, <2>1, ReceiverFails
<1>4. CASE ~(dec.partial /= {})
  <2>1. PICK queued : dec' = [dec EXCEPT !.waiting = {}, !.queued = queued]
    BY <1>4 DEF RecvAck
  <2>2. Receiver(dec')
    BY <2>1 DEF Receiver, ReceiverKeys
  <2> QED
    BY <1>1, <1>2, <2>2
<1> QED
  BY <1>3, <1>4

\* One fragment, after what was left of the one before.
LEMMA RecvFragmentKeeps ==
  ASSUME Receiver(dec), Sender(enc, log), NEW frame, NEW partial,
         Readable(frame.payload), Readable(partial.buf), RecvFragment(frame, partial)
  PROVE  Receiver(dec') /\ Sender(enc, log')
<1> DEFINE units == partial.buf \o frame.payload
           left == IF Len(units) % 2 = 0 THEN <<>> ELSE <<Last(units)>>
           d == Load(dec, partial, units)
           decoded == [dec EXCEPT !.entries = d.entries, !.size = d.size, !.max = d.max,
                                  !.last = d.last, !.queued = {}, !.partial = {}]
           more == [fields |-> d.fields, over |-> d.over, buf |-> left, count |-> partial.count]
           done == left = <<>> /\ (d.malformed \/ frame.end)
<1>1. /\ dec' = CASE d.error /= "none" -> Fails(decoded, d.error)
                  [] d.error = "none" /\ left /= <<>> /\ frame.end -> Fails(decoded, "truncated")
                  [] d.error = "none" /\ done -> decoded
                  [] OTHER -> [decoded EXCEPT !.partial = {more}]
      /\ log' = IF d.error = "none" /\ done
                  THEN [log EXCEPT !.blocks = IF frame.end THEN Tail(@) ELSE @,
                                   !.agree = @ /\ Outcome(d, Head(log.blocks))]
                  ELSE log
  BY DEF RecvFragment
<1>2. Readable(units)
  BY ReadableBoth
<1> HIDE DEF units
<1>3. Readable(left)
  <2>1. CASE Len(units) % 2 = 0
    BY <2>1, ReadableNone
  <2>2. CASE ~(Len(units) % 2 = 0)
    <3>1. Len(units) \in Nat
      BY <1>2 DEF Readable
    <3>2. Len(units) > 0
      BY <2>2, <3>1
    <3> QED
      BY <1>2, <2>2, <3>2, ReadableLast
  <2> QED
    BY <2>1, <2>2
<1> HIDE DEF left
<1>4. Decoding(d)
  BY <1>2, LoadTyped DEF Receiver
<1> HIDE DEF d
<1>5. DOMAIN decoded = ReceiverKeys /\ decoded.entries = d.entries /\ decoded.size = d.size
      /\ decoded.max = d.max /\ decoded.partial = {}
  BY DEF Receiver, ReceiverKeys
<1> HIDE DEF decoded
<1>6. Receiver(decoded)
  BY <1>4, <1>5 DEF Receiver, Decoding, Fitting
<1>7. Receiver([decoded EXCEPT !.partial = {more}])
  <2>1. more.buf = left
    OBVIOUS
  <2> HIDE DEF more
  <2> DEFINE u == [decoded EXCEPT !.partial = {more}]
  <2>2. DOMAIN u = ReceiverKeys /\ u.entries = decoded.entries /\ u.size = decoded.size
        /\ u.max = decoded.max /\ u.partial = {more}
    BY <1>5 DEF ReceiverKeys
  <2> HIDE DEF u
  <2>3. Receiver(u)
    BY <1>3, <1>6, <2>1, <2>2 DEF Receiver
  <2> QED
    BY <2>3 DEF u
<1> HIDE DEF more, done
<1>8. Receiver(dec')
  <2>1. dec' \in {Fails(decoded, d.error), Fails(decoded, "truncated"), decoded,
                  [decoded EXCEPT !.partial = {more}]}
    BY <1>1
  <2> QED
    BY <1>6, <1>7, <2>1, ReceiverFails
<1>9. Sender(enc, log')
  <2>1. DOMAIN log' = LogKeys /\ log'.least = log.least /\ log'.last = log.last
    BY <1>1 DEF Sender, LogKeys
  <2> QED
    BY <2>1 DEF Sender
<1> QED
  BY <1>8, <1>9

LEMMA RecvHeadersKeeps ==
  ASSUME HInv, RecvHeaders
  PROVE  HInv'
<1> USE DEF HInv
<1>1. /\ wire /= <<>> /\ wire' = Tail(wire) /\ Head(wire).kind = "headers"
      /\ scene' = scene /\ enc' = enc /\ back' = back
  BY DEF RecvHeaders, Reads
<1>2. Framed(wire') /\ Readable(Head(wire).payload)
  BY <1>1, FramedLess DEF Frame
<1>3. CASE dec.partial /= {}
  <2>1. dec' = Fails(dec, "interleaved") /\ log' = log
    BY <1>3 DEF RecvHeaders
  <2> QED
    BY <1>1, <1>2, <2>1, ReceiverFails
<1>4. CASE ~(dec.partial /= {})
  <2>1. RecvFragment(Head(wire), NewPartial)
    BY <1>4 DEF RecvHeaders
  <2>2. Readable(NewPartial.buf)
    BY ReadableNone DEF NewPartial
  <2>3. Receiver(dec') /\ Sender(enc, log')
    BY <1>2, <2>1, <2>2, RecvFragmentKeeps
  <2> QED
    BY <1>1, <1>2, <2>3
<1> QED
  BY <1>3, <1>4

LEMMA RecvContinuationKeeps ==
  ASSUME HInv, RecvContinuation
  PROVE  HInv'
<1> USE DEF HInv
<1> DEFINE frame == Head(wire)
           Counted(p) == [p EXCEPT !.count = IF frame.end THEN 0 ELSE @ + 1]
<1>1. /\ wire /= <<>> /\ wire' = Tail(wire) /\ Head(wire).kind = "continuation"
      /\ scene' = scene /\ enc' = enc /\ back' = back
  BY DEF RecvContinuation, Reads
<1>2. Framed(wire') /\ Readable(Head(wire).payload)
  BY <1>1, FramedLess DEF Frame
<1>3. \/ \E error : dec' = Fails(dec, error) /\ log' = log
      \/ \E p \in dec.partial : RecvFragment(frame, Counted(p))
  BY DEF RecvContinuation
<1>4. CASE \E error : dec' = Fails(dec, error) /\ log' = log
  BY <1>1, <1>2, <1>4, ReceiverFails
<1>5. CASE \E p \in dec.partial : RecvFragment(frame, Counted(p))
  <2>1. PICK p \in dec.partial : RecvFragment(frame, Counted(p))
    BY <1>5
  <2>2. Readable(p.buf)
    BY DEF Receiver
  <2>3. Counted(p).buf = p.buf
    OBVIOUS
  <2>4. Readable(Counted(p).buf)
    BY <2>2, <2>3
  <2> HIDE DEF Counted
  <2>5. Receiver(dec') /\ Sender(enc, log')
    BY <1>2, <2>1, <2>4, RecvFragmentKeeps
  <2> QED
    BY <1>1, <1>2, <2>5
<1> QED
  BY <1>3, <1>4, <1>5

LEMMA NextKeeps ==
  HInv /\ [Next]_vars => HInv'
<1> SUFFICES ASSUME HInv, [Next]_vars PROVE HInv'
  OBVIOUS
<1>1. ASSUME NEW block \in scene.blocks, SendHeaders(block) PROVE HInv'
  BY <1>1, SendHeadersKeeps
<1>2. CASE WriteContinuation
  BY <1>2, WriteContinuationKeeps
<1>3. CASE RecvSettings
  BY <1>3, RecvSettingsKeeps
<1>4. CASE AckSettings
  BY <1>4, AckSettingsKeeps
<1>5. ASSUME NEW size \in scene.sizes, SendSettings(size) PROVE HInv'
  BY <1>5, SendSettingsKeeps
<1>6. CASE RecvAck
  BY <1>6, RecvAckKeeps
<1>7. CASE RecvHeaders
  BY <1>7, RecvHeadersKeeps
<1>8. CASE RecvContinuation
  BY <1>8, RecvContinuationKeeps
<1>9. CASE UNCHANGED vars
  BY <1>9 DEF HInv, vars, Framed, Frame
<1>10. CASE GoneAway
  BY <1>9, <1>10 DEF GoneAway
<1> QED
  BY <1>1, <1>2, <1>3, <1>4, <1>5, <1>6, <1>7, <1>8, <1>9, <1>10 DEF Next

\* The inductive invariant holds in every reachable state: what is on its way can
\* be read, and each table's size is that of its entries.
THEOREM HeaderInvariance == Spec => []HInv
<1>1. HInv /\ [Next]_vars => HInv'
  BY NextKeeps
<1> QED
  BY InitHolds, <1>1, PTL DEF Spec

\* Whatever sizes are asked for and acknowledged, in any order and number between
\* two blocks, what update_max_size keeps of them comes to their least and their
\* last, and the decoder's entries fit its limit.
THEOREM SizeAlwaysObeyed == Spec => []SizeObeyed
<1>1. HInv => SizeObeyed
  <2> SUFFICES ASSUME HInv PROVE SizeObeyed
    OBVIOUS
  <2>1. Announced(enc, log.least, log.last)
    BY DEF HInv, Sender
  <2> QED
    BY <2>1, AnnouncedIsObeyed DEF HInv, Receiver, SizeObeyed
<1> QED
  BY <1>1, HeaderInvariance, PTL

=============================================================================
