----------------------- MODULE SendFlowQueues_proofs -----------------------
(***************************************************************************)
(* Theorems about SendFlow's queues of streams: no frame is forgotten, and *)
(* no stream that waits for capacity is.  Sound says what each stream and  *)
(* the connection have; here what a stream has to send, and what it wants, *)
(* is related to the queues it waits in.                                   *)
(***************************************************************************)
EXTENDS SendFlow_proofs

----------------------------------------------------------------------------
(* What each function of the code keeps.                                   *)

\* Writing will come to s, now or once it is opened.
InSend(i, s) == Contains(i.sendQ, s) \/ Contains(i.openQ, s)

\* The next frame needs no capacity, or there is some.
Ready(r) ==
  /\ r.queue # <<>>
  /\ Head(r.queue).kind = "data" /\ Head(r.queue).sz > 0 => r.flow.available > 0

\* A reset that discards what is queued waits for nothing.
Pressed(i, s) ==
  IsStored(i.streams[s]) /\ Discards(i.streams[s].state) => InSend(i, s)

\* A frame that could be written will be.
Prompt(i, s) == IsStored(i.streams[s]) /\ Ready(i.streams[s]) => InSend(i, s)

\* Unless DATA the codec holds comes back before it.
Minded(i, rest, s) == Prompt(i, s) \/ (i.inFlight = s /\ rest > 0)

\* No stream is forgotten on the way from i to j.
Tends(i, j, rest) ==
  \A t \in Streams :
    /\ Pressed(i, t) => Pressed(j, t)
    /\ Minded(i, rest, t) => Minded(j, rest, t)

LEMMA TendsTrans ==
  ASSUME NEW i, NEW j, NEW k, NEW rest, Tends(i, j, rest), Tends(j, k, rest)
  PROVE  Tends(i, k, rest)
BY DEF Tends

LEMMA TendsRefl ==
  ASSUME NEW i, NEW rest
  PROVE  Tends(i, i, rest)
BY DEF Tends

\* A stream that gets no more to do, or is put in a queue.
Eases(i, j, t) ==
  /\ InSend(i, t) => InSend(j, t)
  /\ IsStored(j.streams[t]) =>
       /\ IsStored(i.streams[t])
       /\ Discards(j.streams[t].state) => Discards(i.streams[t].state) \/ InSend(j, t)
       /\ Ready(j.streams[t]) => Ready(i.streams[t]) \/ InSend(j, t)

LEMMA EasesTrans ==
  ASSUME NEW i, NEW j, NEW k, NEW t, Eases(i, j, t), Eases(j, k, t)
  PROVE  Eases(i, k, t)
BY DEF Eases

\* All streams but s are, and what the codec holds of them is theirs still.
EasesRest(i, j, s) ==
  /\ \A t \in Streams : t # s => Eases(i, j, t)
  /\ j.inFlight = i.inFlight \/ (i.inFlight = s /\ j.inFlight = Drop)

LEMMA EasesRestTrans ==
  ASSUME NEW i, NEW j, NEW k, NEW s \in Streams, EasesRest(i, j, s), EasesRest(j, k, s)
  PROVE  EasesRest(i, k, s)
<1>1. \A t \in Streams : t # s => Eases(i, k, t)
  BY EasesTrans DEF EasesRest
<1>2. Drop \notin Streams
  BY DEF Drop, Streams
<1> QED
  BY <1>1, <1>2 DEF EasesRest

\* Every stream is.
EasesAll(i, j) == j.inFlight = i.inFlight /\ \A t \in Streams : Eases(i, j, t)

LEMMA EasesAllTrans ==
  ASSUME NEW i, NEW j, NEW k, EasesAll(i, j), EasesAll(j, k)
  PROVE  EasesAll(i, k)
BY EasesTrans DEF EasesAll

LEMMA EasesAllRest ==
  ASSUME NEW i, NEW j, NEW s, EasesAll(i, j)
  PROVE  EasesRest(i, j, s)
BY DEF EasesAll, EasesRest

\* A stream nothing is left to do for, or that waits for it.
Well(i, s) == Pressed(i, s) /\ Prompt(i, s)

LEMMA EasesWell ==
  ASSUME NEW i, NEW j, NEW s, Well(i, s), Eases(i, j, s)
  PROVE  Well(j, s)
BY DEF Well, Eases, Pressed, Prompt

LEMMA InSendWell ==
  ASSUME NEW i, NEW s, InSend(i, s)
  PROVE  Well(i, s)
BY DEF Well, Pressed, Prompt

LEMMA EasesTends ==
  ASSUME NEW i, NEW j, NEW rest, EasesAll(i, j)
  PROVE  Tends(i, j, rest)
<1>1. ASSUME NEW t \in Streams
      PROVE  (Pressed(i, t) => Pressed(j, t)) /\ (Prompt(i, t) => Prompt(j, t))
  BY DEF EasesAll, Eases, Pressed, Prompt
<1> QED
  BY <1>1 DEF EasesAll, Tends, Minded

\* One stream is looked at, the others are eased.
LEMMA OneTends ==
  ASSUME NEW i, NEW j, NEW rest, NEW s \in Streams, EasesRest(i, j, s),
         Pressed(i, s) => Pressed(j, s), Minded(i, rest, s) => Minded(j, rest, s)
  PROVE  Tends(i, j, rest)
<1>1. ASSUME NEW t \in Streams, t # s
      PROVE  (Pressed(i, t) => Pressed(j, t)) /\ (Prompt(i, t) => Prompt(j, t))
  BY <1>1 DEF EasesRest, Eases, Pressed, Prompt
<1>2. ASSUME NEW t \in Streams, t # s, i.inFlight = t
      PROVE  j.inFlight = t
  BY <1>2 DEF EasesRest
<1>3. ASSUME NEW t \in Streams
      PROVE  (Pressed(i, t) => Pressed(j, t)) /\ (Minded(i, rest, t) => Minded(j, rest, t))
  <2>1. CASE t = s
    BY <2>1
  <2>2. CASE t # s
    BY <1>1, <1>2, <2>2 DEF Minded
  <2> QED
    BY <2>1, <2>2
<1> QED
  BY <1>3 DEF Tends

LEMMA SettledTends ==
  ASSUME NEW i, NEW j, NEW rest, NEW s \in Streams, EasesRest(i, j, s),
         Pressed(i, s) => Pressed(j, s), Prompt(j, s)
  PROVE  Tends(i, j, rest)
BY OneTends DEF Minded

LEMMA WellTends ==
  ASSUME NEW i, NEW j, NEW rest, NEW s \in Streams, EasesRest(i, j, s), Well(j, s)
  PROVE  Tends(i, j, rest)
BY SettledTends DEF Well

\* What differs in neither its frames, its state nor its capacity.
LEMMA SameEases ==
  ASSUME NEW i, NEW j, NEW t \in Streams,
         InSend(i, t) => InSend(j, t),
         IsStored(j.streams[t]) => IsStored(i.streams[t]),
         j.streams[t].state = i.streams[t].state,
         j.streams[t].queue = i.streams[t].queue,
         j.streams[t].flow.available = i.streams[t].flow.available
  PROVE  Eases(i, j, t)
BY DEF Eases, Ready

\* A step that changes the record of s and puts nobody out of a queue.
LEMMA ElsewhereEases ==
  ASSUME NEW i, NEW j, NEW s \in Streams, Elsewhere(i, j, s),
         \A t \in Streams : t # s => (InSend(i, t) => InSend(j, t)),
         j.inFlight = i.inFlight \/ (i.inFlight = s /\ j.inFlight = Drop)
  PROVE  EasesRest(i, j, s)
<1>1. ASSUME NEW t \in Streams, t # s
      PROVE  Eases(i, j, t)
  BY <1>1, SameEases DEF Elsewhere
<1> QED
  BY <1>1 DEF EasesRest

----------------------------------------------------------------------------
(* Capacity.                                                               *)

\* DATA at the head of the queue is buffered.
Backed(r) ==
  IsStored(r) /\ r.queue # <<>> /\ Head(r.queue).sz > 0 => r.buffered > 0

LEMMA StoredBacked ==
  ASSUME NEW r, NEW extra \in Nat, NEW low, NEW server, StoredSound(r, extra, low, server)
  PROVE  Backed(r)
<1>1. r.queue \in Seq(Frames) /\ r.buffered = Octets(r.queue) + extra
  BY DEF StoredSound, StreamRecord
<1>2. CASE r.queue # <<>>
  <2>1. Octets(r.queue) \in Nat /\ Head(r.queue) \in Frames /\ Head(r.queue).sz <= Octets(r.queue)
    BY <1>1, <1>2, OctetsType
  <2>2. Head(r.queue).sz \in Int
    BY <2>1, MaxWindowAssumption DEF Frames
  <2> QED
    BY <1>1, <2>1, <2>2 DEF Backed
<1> QED
  BY <1>2 DEF Backed

LEMMA SoundBacked ==
  ASSUME NEW i, NEW but, NEW extra, NEW low, NEW due, SoundBut(i, but, extra, low, due),
         NEW t \in Streams, t # but
  PROVE  Backed(i.streams[t])
<1>1. extra[t] \in Nat /\ StreamSound(i.streams[t], extra[t], low[t], IsServer(i))
  BY DEF SoundBut, Scope
<1>2. CASE StoredSound(i.streams[t], extra[t], low[t], IsServer(i))
  BY <1>1, <1>2, StoredBacked
<1>3. CASE AbsentSound(i.streams[t], extra[t], IsServer(i))
  <2>1. ~IsStored(i.streams[t])
    BY <1>3 DEF AbsentSound, IsStored, NewStream
  <2> QED
    BY <2>1 DEF Backed
<1> QED
  BY <1>1, <1>2, <1>3 DEF StreamSound

\* A stream that gets capacity for what it buffers is scheduled.
Serves(i, j) ==
  \A t \in Streams :
    /\ Contains(i.sendQ, t) => Contains(j.sendQ, t)
    /\ /\ ~(i.streams[t].flow.available > 0) /\ i.streams[t].buffered > 0
       /\ j.streams[t].flow.available > 0
       => Contains(j.sendQ, t)

\* What no change of capacity touches.
Firm(i, j) ==
  /\ j.openQ = i.openQ /\ j.inFlight = i.inFlight
  /\ \A t \in Streams :
       /\ j.streams[t].place = i.streams[t].place
       /\ j.streams[t].state = i.streams[t].state
       /\ j.streams[t].queue = i.streams[t].queue
       /\ j.streams[t].buffered = i.streams[t].buffered

LEMMA ServesTrans ==
  ASSUME NEW i, NEW j, NEW k, Firm(i, j), Serves(i, j), Serves(j, k)
  PROVE  Serves(i, k)
BY DEF Serves, Firm

LEMMA FirmTrans ==
  ASSUME NEW i, NEW j, NEW k, Firm(i, j), Firm(j, k)
  PROVE  Firm(i, k)
BY DEF Firm

LEMMA ServesRefl ==
  ASSUME NEW i
  PROVE  Serves(i, i)
BY DEF Serves

\* Less capacity serves nobody and needs nobody to be served.
LEMMA ServesLess ==
  ASSUME NEW i, NEW j, j.sendQ = i.sendQ,
         \A t \in Streams : j.streams[t].flow.available > 0 => i.streams[t].flow.available > 0
  PROVE  Serves(i, j)
BY DEF Serves

LEMMA ServesEases ==
  ASSUME NEW i, NEW j, NEW t \in Streams, Firm(i, j), Serves(i, j),
         InSend(i, t) \/ Backed(i.streams[t])
  PROVE  Eases(i, j, t)
<1>1. InSend(i, t) => InSend(j, t)
  BY DEF InSend, Serves, Firm
<1>2. /\ IsStored(j.streams[t]) <=> IsStored(i.streams[t])
      /\ j.streams[t].state = i.streams[t].state
  BY DEF Firm, IsStored
<1>3. ASSUME Ready(j.streams[t]), ~Ready(i.streams[t]), IsStored(i.streams[t]),
             Backed(i.streams[t])
      PROVE  InSend(j, t)
  <2>1. /\ Head(i.streams[t].queue).sz > 0 /\ i.streams[t].queue # <<>>
        /\ ~(i.streams[t].flow.available > 0) /\ j.streams[t].flow.available > 0
    BY <1>3 DEF Ready, Firm
  <2>2. i.streams[t].buffered > 0
    BY <1>3, <2>1 DEF Backed
  <2> QED
    BY <2>1, <2>2 DEF Serves, InSend
<1> QED
  BY <1>1, <1>2, <1>3 DEF Eases

LEMMA ServesRest ==
  ASSUME NEW i, NEW j, NEW s \in Streams, Firm(i, j), Serves(i, j),
         \A t \in Streams : t # s => Backed(i.streams[t])
  PROVE  /\ EasesRest(i, j, s)
         /\ InSend(i, s) => InSend(j, s)
<1>1. \A t \in Streams : t # s => Eases(i, j, t)
  BY ServesEases
<1>2. j.inFlight = i.inFlight
  BY DEF Firm
<1>3. InSend(i, s) => InSend(j, s)
  BY DEF InSend, Serves, Firm
<1> QED
  BY <1>1, <1>2, <1>3 DEF EasesRest

LEMMA ServesAll ==
  ASSUME NEW i, NEW j, Firm(i, j), Serves(i, j),
         \A t \in Streams : Backed(i.streams[t])
  PROVE  EasesAll(i, j)
<1>1. \A t \in Streams : Eases(i, j, t)
  BY ServesEases
<1>2. j.inFlight = i.inFlight
  BY DEF Firm
<1> QED
  BY <1>1, <1>2 DEF EasesAll

LEMMA SoundAllBacked ==
  ASSUME NEW i, NEW extra, NEW low, NEW due, Sound(i, extra, low, due)
  PROVE  \A t \in Streams : Backed(i.streams[t])
<1>1. Nobody \notin Streams
  BY StreamsType
<1> QED
  BY <1>1, SoundBacked DEF Sound


\* Capacity moves, and whoever can use what it got is scheduled.
Provides(i, j) == j \in InnerRecord /\ Firm(i, j) /\ Serves(i, j)

LEMMA ProvidesTrans ==
  ASSUME NEW i, NEW j, NEW k, Provides(i, j), Provides(j, k)
  PROVE  Provides(i, k)
BY FirmTrans, ServesTrans DEF Provides

LEMMA ProvidesRefl ==
  ASSUME NEW i \in InnerRecord
  PROVE  Provides(i, i)
BY ServesRefl DEF Provides, Firm

\* A share that does not grow serves nobody and needs nobody to be served.
LEMMA ProvidesLess ==
  ASSUME NEW i, NEW j \in InnerRecord, Firm(i, j), j.sendQ = i.sendQ,
         \A t \in Streams : j.streams[t].flow.available > 0 => i.streams[t].flow.available > 0
  PROVE  Provides(i, j)
BY ServesLess DEF Provides

LEMMA FlowTypes ==
  ASSUME NEW fc \in Flow, NEW sz \in Int
  PROVE  /\ AssignCapacity(fc, sz) \in Flow /\ ClaimCapacity(fc, sz) \in Flow
         /\ (sz > 0 /\ ClaimCapacity(fc, sz).available > 0 => fc.available > 0)
<1>1. fc.available \in Int /\ fc.available + sz \in Int /\ fc.available - sz \in Int
  BY DEF Flow
<1>2. AssignCapacity(fc, sz) \in Flow
  BY <1>1 DEF Flow, AssignCapacity
<1>3. ClaimCapacity(fc, sz) \in Flow
  BY <1>1 DEF Flow, ClaimCapacity
<1>4. ClaimCapacity(fc, sz).available \in {fc.available, fc.available - sz}
  BY <1>1 DEF Flow, ClaimCapacity
<1> QED
  BY <1>1, <1>2, <1>3, <1>4

LEMMA TryAssignProvides ==
  ASSUME NEW i \in InnerRecord, NEW s \in Streams
  PROVE  Provides(i, TryAssign(i, s))
<1> DEFINE j == TryAssign(i, s)
           r == i.streams[s]
           additional == Lesser(r.requested, WindowSize(r.flow)) - r.flow.available
           assign == Lesser(AsSize(i.flow.available), additional)
           flow == AssignCapacity(r.flow, assign)
           flow2 == ClaimCapacity(i.flow, assign)
           queue == IF flow.available < r.requested /\ HasUnavailable(flow)
                      THEN Push(i.capacityQ, s) ELSE i.capacityQ
           queue2 == IF r.buffered > 0 THEN Push(i.sendQ, s) ELSE i.sendQ
           q == [r EXCEPT !.flow = flow]
<1>1. CASE j = i
  BY <1>1, ProvidesRefl
<1>2. CASE j # i
  <2>1. /\ i.streams \in [Streams -> StreamRecord] /\ i.sendQ \in Seq(Streams)
        /\ i.capacityQ \in Seq(Streams) /\ r \in StreamRecord /\ i.flow \in Flow
        /\ r.flow \in Flow
    BY DEF InnerRecord, StreamRecord
  <2>2. assign \in Int
    <3>1. r.requested \in Int /\ r.flow.available \in Int /\ r.flow.window \in Int
          /\ i.flow.available \in Int
      BY <2>1 DEF StreamRecord, Flow
    <3> HIDE DEF r
    <3> QED
      BY <3>1 DEF Lesser, AsSize, WindowSize
  <2>3. j = [i EXCEPT !.streams[s].flow = flow, !.flow = flow2, !.capacityQ = queue,
                      !.sendQ = queue2]
    BY <1>2 DEF TryAssign
  <2> HIDE DEF assign, additional
  <2>4. flow \in Flow /\ flow2 \in Flow
    BY <2>1, <2>2, FlowTypes
  <2>5. queue \in Seq(Streams) /\ queue2 \in Seq(Streams)
        /\ (\A t \in Streams : Contains(i.sendQ, t) => Contains(queue2, t))
        /\ (r.buffered > 0 => Contains(queue2, s))
    <3> DEFINE sendQ == i.sendQ
               capacityQ == i.capacityQ
    <3>1. sendQ \in Seq(Streams) /\ capacityQ \in Seq(Streams)
      BY <2>1
    <3> HIDE DEF sendQ, capacityQ
    <3>2. /\ Push(sendQ, s) \in Seq(Streams) /\ Push(capacityQ, s) \in Seq(Streams)
          /\ \A t \in Streams : Contains(Push(sendQ, s), t) <=> Contains(sendQ, t) \/ t = s
      BY <3>1, PushQueue
    <3> QED
      BY <2>1, <3>1, <3>2 DEF sendQ, capacityQ
  <2> HIDE DEF flow, flow2, queue, queue2
  <2>6. q \in StreamRecord
        /\ q.place = r.place /\ q.state = r.state /\ q.queue = r.queue /\ q.buffered = r.buffered
    BY <2>1, <2>4 DEF StreamRecord
  <2>7. j = [With(i, s, q) EXCEPT !.flow = flow2, !.capacityQ = queue, !.sendQ = queue2]
    BY <2>1, <2>3 DEF With, InnerRecord
  <2> HIDE DEF j
  <2> DEFINE w == With(i, s, q)
  <2>8. w \in InnerRecord /\ w.streams[s] = q /\ Elsewhere(i, w, s) /\ SameBooks(i, w)
    BY <2>6, WithFields
  <2>9. /\ j \in InnerRecord /\ j.streams[s] = q /\ Elsewhere(i, j, s)
        /\ j.openQ = i.openQ /\ j.inFlight = i.inFlight /\ j.sendQ = queue2
    <3>1. j = [w EXCEPT !.flow = flow2, !.capacityQ = queue, !.sendQ = queue2]
      BY <2>7
    <3> HIDE DEF w, q
    <3>2. j \in InnerRecord
      BY <2>4, <2>5, <2>8, <3>1 DEF InnerRecord
    <3>3. /\ j.streams = w.streams /\ j.openQ = w.openQ /\ j.inFlight = w.inFlight
          /\ j.sendQ = queue2
      BY <2>8, <3>1 DEF InnerRecord
    <3> QED
      BY <2>8, <3>2, <3>3 DEF Elsewhere, SameBooks
  <2> HIDE DEF q, r
  <2>10. Firm(i, j)
    <3>1. ASSUME NEW t \in Streams
          PROVE  /\ j.streams[t].place = i.streams[t].place
                 /\ j.streams[t].state = i.streams[t].state
                 /\ j.streams[t].queue = i.streams[t].queue
                 /\ j.streams[t].buffered = i.streams[t].buffered
      BY <2>6, <2>9 DEF Elsewhere, r
    <3> QED
      BY <2>9, <3>1 DEF Firm
  <2>11. Serves(i, j)
    <3>1. ASSUME NEW t \in Streams, ~(i.streams[t].flow.available > 0),
                 i.streams[t].buffered > 0, j.streams[t].flow.available > 0
          PROVE  Contains(j.sendQ, t)
      <4>1. t = s
        BY <2>9, <3>1 DEF Elsewhere
      <4> QED
        BY <2>5, <2>9, <3>1, <4>1 DEF r
    <3> QED
      BY <2>5, <2>9, <3>1 DEF Serves
  <2> QED
    BY <2>9, <2>10, <2>11 DEF Provides, j
<1> QED
  BY <1>1, <1>2

LEMMA AssignNextProvides ==
  ASSUME NEW i \in InnerRecord
  PROVE  Provides(i, AssignNext(i))
<1> DEFINE s == Head(i.capacityQ)
           j == [i EXCEPT !.capacityQ = Tail(@)]
<1>1. CASE i.flow.available <= 0 \/ i.capacityQ = <<>>
  BY <1>1, ProvidesRefl DEF AssignNext
<1>2. CASE ~(i.flow.available <= 0 \/ i.capacityQ = <<>>)
  <2>1. i.capacityQ \in Seq(Streams) /\ i.capacityQ # <<>>
    BY <1>2 DEF InnerRecord
  <2>2. s \in Streams /\ Tail(i.capacityQ) \in Seq(Streams)
    <3> DEFINE q == i.capacityQ
    <3>1. q \in Seq(Streams) /\ q # <<>>
      BY <2>1
    <3> HIDE DEF q
    <3>2. Head(q) \in Streams /\ Tail(q) \in Seq(Streams)
      BY <3>1, TailQueue
    <3> QED
      BY <3>2 DEF q
  <2>3. /\ j \in InnerRecord /\ j.streams = i.streams /\ j.sendQ = i.sendQ
        /\ j.openQ = i.openQ /\ j.inFlight = i.inFlight
    BY <2>2 DEF InnerRecord
  <2>4. AssignNext(i) = IF CanSendData(i.streams[s])
                          THEN Transition(j, TryAssign(j, s), s) ELSE j
    BY <1>2 DEF AssignNext
  <2> HIDE DEF j, s
  <2>5. Provides(i, j)
    BY <2>3, ProvidesLess DEF Firm
  <2>6. CASE ~CanSendData(i.streams[s])
    BY <2>4, <2>5, <2>6
  <2>7. CASE CanSendData(i.streams[s])
    <3> DEFINE k == TryAssign(j, s)
    <3>1. Provides(j, k)
      BY <2>2, <2>3, TryAssignProvides
    <3>2. k \in InnerRecord
      BY <3>1 DEF Provides
    <3>3. ~IsFlushed(k.streams[s])
      <4>1. /\ k.streams[s].state = i.streams[s].state
            /\ k.streams[s].buffered = i.streams[s].buffered
        BY <2>2, <2>3, <3>1 DEF Provides, Firm
      <4>2. i.streams[s].state \in States
        BY <2>2 DEF InnerRecord, StreamRecord
      <4>3. IsSendStreaming(i.streams[s].state) => ~IsClosed(i.streams[s].state)
        BY <4>2, StateKinds
      <4>4. i.streams[s].buffered > 0 => i.streams[s].buffered # 0
        OBVIOUS
      <4> QED
        BY <2>7, <4>1, <4>3, <4>4 DEF CanSendData, IsFlushed
    <3>4. IsPendingReset(j, s) \in BOOLEAN
      BY DEF IsPendingReset, Contains
    <3>5. Transition(j, k, s) = k
      BY <2>2, <3>2, <3>3, <3>4, TransitionIdle DEF Transition
    <3> QED
      BY <2>4, <2>5, <2>7, <3>1, <3>5, ProvidesTrans
  <2> QED
    BY <2>6, <2>7
<1> QED
  BY <1>1, <1>2

LEMMA AssignPendingProvides ==
  ASSUME NEW i \in InnerRecord
  PROVE  Provides(i, AssignPending(i))
<1> DEFINE S == {j \in InnerRecord : Provides(i, j)}
           step == [k \in Nat |-> [j \in InnerRecord |-> AssignNext(j)]]
<1>1. i \in S /\ Len(i.capacityQ) \in Nat
  BY ProvidesRefl DEF InnerRecord
<1>2. ASSUME NEW k \in 1 .. Len(i.capacityQ), NEW j \in S
      PROVE  step[k][j] \in S
  <2>1. k \in Nat /\ step[k][j] = AssignNext(j)
    BY <1>1
  <2>2. Provides(i, AssignNext(j))
    BY AssignNextProvides, ProvidesTrans
  <2> QED
    BY <2>1, <2>2 DEF Provides
<1>3. AssignPending(i) = Loop(step, i, Len(i.capacityQ))
  BY DEF AssignPending
<1>4. Loop(step, i, Len(i.capacityQ)) \in S
  <2> HIDE DEF S, step
  <2> QED
    BY <1>1, <1>2, LoopStays
<1> QED
  BY <1>3, <1>4

LEMMA AssignConnectionProvides ==
  ASSUME NEW i \in InnerRecord, NEW inc \in Int
  PROVE  Provides(i, AssignConnection(i, inc))
<1> DEFINE flow == AssignCapacity(i.flow, inc)
           j == [i EXCEPT !.flow = flow]
<1>1. flow \in Flow
  BY FlowTypes DEF InnerRecord
<1>2. AssignConnection(i, inc) = AssignPending(j)
  BY DEF AssignConnection, InnerRecord
<1> HIDE DEF flow
<1>3. /\ j \in InnerRecord /\ j.streams = i.streams /\ j.sendQ = i.sendQ
      /\ j.openQ = i.openQ /\ j.inFlight = i.inFlight
  BY <1>1 DEF InnerRecord
<1> HIDE DEF j
<1>4. Provides(i, j)
  BY <1>3, ProvidesLess DEF Firm
<1> QED
  BY <1>2, <1>3, <1>4, AssignPendingProvides, ProvidesTrans

LEMMA ReclaimProvides ==
  ASSUME NEW i \in InnerRecord, NEW s \in Streams, NEW sz \in Int
  PROVE  Provides(i, Reclaim(i, s, sz))
<1> DEFINE r == i.streams[s]
           flow == ClaimCapacity(r.flow, sz)
           q == [r EXCEPT !.flow = flow]
           j == [i EXCEPT !.streams[s].flow = flow]
<1>1. CASE sz <= 0
  BY <1>1, ProvidesRefl DEF Reclaim
<1>2. CASE ~(sz <= 0)
  <2>1. r \in StreamRecord /\ r.flow \in Flow /\ sz > 0
    BY <1>2 DEF InnerRecord, StreamRecord
  <2>2. flow \in Flow /\ (flow.available > 0 => r.flow.available > 0)
    BY <2>1, FlowTypes
  <2>3. Reclaim(i, s, sz) = AssignConnection(j, sz)
    BY <1>2 DEF Reclaim, InnerRecord
  <2>4. j = With(i, s, q)
    BY DEF With, InnerRecord
  <2> HIDE DEF flow, j
  <2>5. /\ q \in StreamRecord /\ q.flow = flow
        /\ q.place = r.place /\ q.state = r.state /\ q.queue = r.queue /\ q.buffered = r.buffered
    BY <2>1, <2>2 DEF StreamRecord
  <2> HIDE DEF q
  <2>6. /\ j \in InnerRecord /\ j.streams[s] = q /\ Elsewhere(i, j, s) /\ SameBooks(i, j)
        /\ j.sendQ = i.sendQ
    BY <2>4, <2>5, WithFields
  <2>7. Provides(i, j)
    <3>1. ASSUME NEW t \in Streams
          PROVE  /\ j.streams[t].place = i.streams[t].place
                 /\ j.streams[t].state = i.streams[t].state
                 /\ j.streams[t].queue = i.streams[t].queue
                 /\ j.streams[t].buffered = i.streams[t].buffered
                 /\ (j.streams[t].flow.available > 0 => i.streams[t].flow.available > 0)
      BY <2>2, <2>5, <2>6 DEF Elsewhere
    <3> QED
      BY <2>6, <3>1, ProvidesLess DEF Firm, SameBooks
  <2> QED
    BY <2>3, <2>6, <2>7, AssignConnectionProvides, ProvidesTrans
<1> QED
  BY <1>1, <1>2

LEMMA ReclaimSomeProvides ==
  ASSUME NEW i \in InnerRecord, NEW s \in Streams
  PROVE  Provides(i, ReclaimAll(i, s)) /\ Provides(i, ReclaimReserved(i, s))
<1> DEFINE r == i.streams[s]
<1>1. r \in StreamRecord
  BY DEF InnerRecord
<1>2. r.flow \in Flow /\ r.buffered \in Int
  BY <1>1 DEF StreamRecord
<1>3. r.flow.available \in Int
  BY <1>2 DEF Flow
<1>4. r.flow.available - r.buffered \in Int
  BY <1>2, <1>3
<1> QED
  BY <1>3, <1>4, ReclaimProvides DEF ReclaimAll, ReclaimReserved

LEMMA ReserveProvides ==
  ASSUME NEW i \in InnerRecord, NEW s \in Streams, NEW capacity \in Int
  PROVE  Provides(i, ReserveCapacity(i, s, capacity))
<1> DEFINE r == i.streams[s]
           wanted == capacity + r.buffered
           q == Asking(r, wanted)
           j == [i EXCEPT !.streams[s].requested = wanted]
<1>1. /\ r \in StreamRecord /\ r.requested \in Int /\ r.buffered \in Int
      /\ r.flow.available \in Int
  BY DEF InnerRecord, StreamRecord, Flow
<1>2. wanted \in Int /\ r.flow.available - wanted \in Int
  BY <1>1
<1>3. ReserveCapacity(i, s, capacity)
        \in {i, Reclaim(j, s, r.flow.available - wanted), TryAssign(j, s)}
  <2>1. CASE wanted = r.requested
    BY <1>1, <1>2, <2>1 DEF ReserveCapacity
  <2>2. CASE wanted < r.requested
    BY <1>1, <1>2, <2>2 DEF ReserveCapacity
  <2>3. CASE ~(wanted = r.requested) /\ ~(wanted < r.requested)
    BY <1>1, <1>2, <2>3 DEF ReserveCapacity
  <2> QED
    BY <2>1, <2>2, <2>3
<1>4. j = With(i, s, q)
  BY DEF With, Asking, InnerRecord
<1>5. /\ q \in StreamRecord /\ q.flow = r.flow
      /\ q.place = r.place /\ q.state = r.state /\ q.queue = r.queue /\ q.buffered = r.buffered
  <2> HIDE DEF r, wanted
  <2> QED
    BY <1>1, <1>2, AskingFields
<1> HIDE DEF j, q, wanted
<1>6. /\ j \in InnerRecord /\ j.streams[s] = q /\ Elsewhere(i, j, s) /\ SameBooks(i, j)
      /\ j.sendQ = i.sendQ
  BY <1>4, <1>5, WithFields
<1>7. Provides(i, j)
  <2>1. ASSUME NEW t \in Streams
        PROVE  /\ j.streams[t].place = i.streams[t].place
               /\ j.streams[t].state = i.streams[t].state
               /\ j.streams[t].queue = i.streams[t].queue
               /\ j.streams[t].buffered = i.streams[t].buffered
               /\ (j.streams[t].flow.available > 0 => i.streams[t].flow.available > 0)
    BY <1>5, <1>6 DEF Elsewhere
  <2> QED
    BY <1>6, <2>1, ProvidesLess DEF Firm, SameBooks
<1>8. Provides(j, Reclaim(j, s, r.flow.available - wanted)) /\ Provides(j, TryAssign(j, s))
  BY <1>2, <1>6, ReclaimProvides, TryAssignProvides
<1> QED
  BY <1>3, <1>7, <1>8, ProvidesRefl, ProvidesTrans

----------------------------------------------------------------------------
(* What the handlers of a stream do to the others, and to it.              *)

\* What makes giving capacity away safe.
Ample(i) == i \in InnerRecord /\ \A t \in Streams : Backed(i.streams[t])

LEMMA AmpleType ==
  ASSUME NEW i, Ample(i), NEW s \in Streams
  PROVE  /\ i \in InnerRecord /\ i.streams[s] \in StreamRecord
         /\ i.streams[s].state \in States /\ i.streams[s].queue \in Seq(Frames)
         /\ Backed(i.streams[s])
<1>1. i \in InnerRecord /\ Backed(i.streams[s])
  BY DEF Ample
<1>2. i.streams[s] \in StreamRecord
  BY <1>1 DEF InnerRecord
<1> QED
  BY <1>1, <1>2 DEF StreamRecord

LEMMA SoundAmple ==
  ASSUME NEW i, NEW extra, NEW low, NEW due, Sound(i, extra, low, due)
  PROVE  Ample(i)
BY SoundType, SoundAllBacked DEF Ample

\* A step of the handler of s: nobody else needs anything from it.
Moves(i, j, s) ==
  /\ Ample(j)
  /\ EasesRest(i, j, s)
  /\ InSend(i, s) => InSend(j, s)

LEMMA MovesTrans ==
  ASSUME NEW i, NEW j, NEW k, NEW s \in Streams, Moves(i, j, s), Moves(j, k, s)
  PROVE  Moves(i, k, s)
BY EasesRestTrans DEF Moves

LEMMA MovesRefl ==
  ASSUME NEW i, Ample(i), NEW s
  PROVE  Moves(i, i, s)
BY DEF Moves, EasesRest, Eases

LEMMA MovesAmple ==
  ASSUME NEW i, NEW j, NEW s, Moves(i, j, s)
  PROVE  Ample(j)
BY DEF Moves

LEMMA ProvidesMoves ==
  ASSUME NEW i, NEW j, Ample(i), Provides(i, j)
  PROVE  Ample(j) /\ EasesAll(i, j) /\ \A s \in Streams : Moves(i, j, s)
<1>1. EasesAll(i, j)
  BY ServesAll DEF Ample, Provides
<1>2. \A t \in Streams : Backed(j.streams[t])
  BY DEF Ample, Provides, Firm, Backed, IsStored
<1>3. Ample(j)
  BY <1>2 DEF Ample, Provides
<1>4. \A s \in Streams : InSend(i, s) => InSend(j, s)
  BY DEF Provides, Firm, Serves, InSend
<1>5. \A s \in Streams : Moves(i, j, s)
  BY <1>1, <1>3, <1>4, EasesAllRest DEF Moves
<1> QED
  BY <1>1, <1>3, <1>5

\* At its end the stream is scheduled, or has nothing to write.
LEMMA MovesTends ==
  ASSUME NEW i, NEW j, NEW rest, NEW s \in Streams, Moves(i, j, s),
         \/ InSend(j, s)
         \/ ~Discards(j.streams[s].state) /\ ~Ready(j.streams[s])
  PROVE  Tends(i, j, rest)
<1>1. Well(j, s)
  BY DEF Well, Pressed, Prompt
<1> QED
  BY <1>1, WellTends DEF Moves

LEMMA EditMoves ==
  ASSUME NEW i, Ample(i), NEW s \in Streams, NEW r \in StreamRecord, Backed(r)
  PROVE  LET j == With(i, s, r)
         IN  Moves(i, j, s) /\ j.streams[s] = r /\ j.inFlight = i.inFlight /\ j.openQ = i.openQ
                            /\ j.sendQ = i.sendQ
<1> DEFINE j == With(i, s, r)
<1>1. /\ j \in InnerRecord
      /\ j.streams[s] = r /\ Elsewhere(i, j, s) /\ SameBooks(i, j)
      /\ j.sendQ = i.sendQ
  BY WithFields DEF Ample
<1> HIDE DEF j
<1>2. \A t \in Streams : Backed(j.streams[t])
  BY <1>1 DEF Ample, Elsewhere
<1>3. \A t \in Streams : InSend(i, t) => InSend(j, t)
  BY <1>1 DEF InSend, SameBooks
<1>4. EasesRest(i, j, s)
  BY <1>1, <1>3, ElsewhereEases DEF SameBooks
<1> QED
  BY <1>1, <1>2, <1>3, <1>4 DEF Moves, Ample, SameBooks, j

\* A stream that is put in a queue.
LEMMA EnterMoves ==
  ASSUME NEW i, Ample(i), NEW s \in Streams, NEW j \in InnerRecord,
         j.streams = i.streams, j.inFlight = i.inFlight,
         \A t \in Streams : InSend(i, t) => InSend(j, t)
  PROVE  Moves(i, j, s) /\ EasesAll(i, j)
<1>1. \A t \in Streams : Backed(j.streams[t])
  BY DEF Ample
<1>2. \A t \in Streams : Eases(i, j, t)
  BY DEF Eases
<1> QED
  BY <1>1, <1>2 DEF Moves, Ample, EasesRest, EasesAll

LEMMA ScheduleMoves ==
  ASSUME NEW i, Ample(i), NEW s \in Streams
  PROVE  LET j == ScheduleSend(i, s)
         IN  Moves(i, j, s) /\ InSend(j, s) /\ j.streams = i.streams
<1> DEFINE j == ScheduleSend(i, s)
           sendQ == i.sendQ
           queue == Push(sendQ, s)
<1>1. CASE IsPendingOpen(i, s)
  <2>1. j = i
    BY <1>1 DEF ScheduleSend
  <2> QED
    BY <1>1, <2>1, MovesRefl DEF InSend, IsPendingOpen
<1>2. CASE ~IsPendingOpen(i, s)
  <2>1. sendQ \in Seq(Streams)
    BY DEF Ample, InnerRecord
  <2>2. i \in InnerRecord
    BY DEF Ample
  <2> HIDE DEF sendQ
  <2>3. queue \in Seq(Streams) /\ \A t \in Streams : Contains(queue, t) <=> Contains(sendQ, t) \/ t = s
    BY <2>1, PushQueue
  <2>4. j = [i EXCEPT !.sendQ = queue]
    BY <1>2, <2>2 DEF ScheduleSend, sendQ, InnerRecord
  <2> HIDE DEF queue
  <2>5. /\ j \in InnerRecord /\ j.streams = i.streams /\ j.inFlight = i.inFlight
        /\ j.openQ = i.openQ /\ j.sendQ = queue
    BY <2>2, <2>3, <2>4 DEF InnerRecord
  <2> HIDE DEF j
  <2>6. InSend(j, s) /\ \A t \in Streams : InSend(i, t) => InSend(j, t)
    BY <2>3, <2>5 DEF InSend, sendQ
  <2> QED
    BY <2>5, <2>6, EnterMoves DEF j
<1> QED
  BY <1>1, <1>2

LEMMA HeadOfAppend ==
  ASSUME NEW q \in Seq(Frames), NEW frame \in Frames
  PROVE  /\ q = <<>> => Head(Append(q, frame)) = frame
         /\ q # <<>> => Head(Append(q, frame)) = Head(q)
OBVIOUS

LEMMA BackedQueued ==
  ASSUME NEW r \in StreamRecord, Backed(r), NEW frame \in Frames,
         frame.sz = 0 \/ r.buffered > 0
  PROVE  Backed(Queued(r, frame))
<1>1. r.queue \in Seq(Frames) /\ 0 \in Int
  BY DEF StreamRecord
<1>2. /\ Queued(r, frame).queue = Append(r.queue, frame)
      /\ Queued(r, frame).buffered = r.buffered /\ Queued(r, frame).place = r.place
  BY QueuedFields
<1>3. CASE r.queue = <<>>
  <2>1. Head(Append(r.queue, frame)) = frame
    BY <1>1, <1>3, HeadOfAppend
  <2>2. ~(0 > 0)
    OBVIOUS
  <2> QED
    BY <1>2, <2>1, <2>2 DEF Backed
<1>4. CASE r.queue # <<>>
  <2>1. Head(Append(r.queue, frame)) = Head(r.queue)
    BY <1>1, <1>4, HeadOfAppend
  <2> QED
    BY <1>2, <1>4, <2>1 DEF Backed, IsStored
<1> QED
  BY <1>3, <1>4

LEMMA BackedState ==
  ASSUME NEW r \in StreamRecord, Backed(r), NEW st \in States
  PROVE  WithState(r, st) \in StreamRecord /\ Backed(WithState(r, st))
<1>1. PICK frame : frame \in Frames
  <2>1. Frame("data", 0, TRUE) \in Frames
    BY MaxWindowAssumption DEF Frames, Frame, Kinds
  <2> QED
    BY <2>1
<1> QED
  BY <1>1, RecordTypes, WithStateFields DEF Backed, IsStored

LEMMA QueueFrameMoves ==
  ASSUME NEW i, Ample(i), NEW s \in Streams, NEW frame \in Frames,
         frame.sz = 0 \/ i.streams[s].buffered > 0
  PROVE  LET j == QueueFrame(i, s, frame)
         IN  Moves(i, j, s) /\ InSend(j, s) /\ j.streams[s] = Queued(i.streams[s], frame)
<1> DEFINE r == i.streams[s]
           q == Queued(r, frame)
           w == With(i, s, q)
           j == QueueFrame(i, s, frame)
<1>1. i \in InnerRecord /\ r \in StreamRecord /\ Backed(r)
  BY AmpleType
<1>2. q \in StreamRecord /\ Backed(q)
  <2>1. Idle \in States
    BY DEF States
  <2> QED
    BY <1>1, <2>1, BackedQueued, RecordTypes
<1>3. w = Buffer(i, s, frame)
  BY <1>1 DEF With, Buffer, Queued, InnerRecord
<1> HIDE DEF q
<1>4. Moves(i, w, s) /\ w.streams[s] = q
  BY <1>2, EditMoves
<1>5. j = ScheduleSend(w, s)
  BY <1>3 DEF QueueFrame
<1> HIDE DEF w, j
<1>6. Moves(w, j, s) /\ InSend(j, s) /\ j.streams = w.streams
  BY <1>4, <1>5, MovesAmple, ScheduleMoves
<1>7. Moves(i, j, s)
  BY <1>4, <1>6, MovesTrans
<1> QED
  BY <1>4, <1>6, <1>7 DEF j, q

LEMMA ClearQueueMoves ==
  ASSUME NEW i, Ample(i), NEW s \in Streams
  PROVE  LET j == ClearQueue(i, s)
         IN  /\ Moves(i, j, s) /\ j.streams[s] = Cleared(i.streams[s])
<1> DEFINE r == i.streams[s]
           q == Cleared(r)
           w == With(i, s, q)
           flight == IF i.inFlight = s THEN Drop ELSE i.inFlight
           j == ClearQueue(i, s)
<1>1. i \in InnerRecord /\ r \in StreamRecord
  BY AmpleType
<1>2. q \in StreamRecord
  <2>1. PICK frame : frame \in Frames
    <3>1. Frame("data", 0, TRUE) \in Frames
      BY MaxWindowAssumption DEF Frames, Frame, Kinds
    <3> QED
      BY <3>1
  <2>2. Idle \in States
    BY DEF States
  <2> QED
    BY <1>1, <2>1, <2>2, RecordTypes
<1>3. Backed(q)
  BY <1>1, ClearedFields DEF Backed
<1>4. j = [w EXCEPT !.inFlight = flight]
  BY <1>1 DEF With, ClearQueue, Cleared, InnerRecord
<1>5. flight \in Streams \cup {Nothing, Drop}
  BY <1>1 DEF InnerRecord
<1> HIDE DEF q
<1>6. Moves(i, w, s) /\ w.streams[s] = q /\ w.inFlight = i.inFlight /\ w \in InnerRecord
  BY <1>2, <1>3, EditMoves DEF Moves, Ample
<1> HIDE DEF w, flight
<1>7. /\ j \in InnerRecord /\ j.streams = w.streams /\ j.inFlight = flight
      /\ j.sendQ = w.sendQ /\ j.openQ = w.openQ
  BY <1>4, <1>5, <1>6 DEF InnerRecord
<1> HIDE DEF j
<1>8. flight = i.inFlight \/ (i.inFlight = s /\ flight = Drop)
  BY DEF flight
<1>9. \A t \in Streams : InSend(w, t) => InSend(j, t)
  BY <1>7 DEF InSend
<1>10. \A t \in Streams : t # s => Eases(i, j, t)
  BY <1>6, <1>7, <1>9 DEF Moves, EasesRest, Eases
<1>11. Moves(i, j, s)
  BY <1>6, <1>7, <1>8, <1>9, <1>10 DEF Moves, EasesRest, Ample
<1> QED
  BY <1>6, <1>7, <1>11 DEF j, q

LEMMA StateMoves ==
  ASSUME NEW i, Ample(i), NEW s \in Streams, NEW st \in States
  PROVE  LET j == [i EXCEPT !.streams[s].state = st]
         IN  /\ Moves(i, j, s) /\ j.streams[s] = WithState(i.streams[s], st)
             /\ j.openQ = i.openQ /\ j.sendQ = i.sendQ /\ j.inFlight = i.inFlight
<1> DEFINE r == i.streams[s]
           q == WithState(r, st)
           j == [i EXCEPT !.streams[s].state = st]
<1>1. i \in InnerRecord /\ r \in StreamRecord /\ Backed(r)
  BY AmpleType
<1>2. q \in StreamRecord /\ Backed(q)
  BY <1>1, BackedState
<1>3. j = With(i, s, q)
  BY <1>1 DEF With, WithState, InnerRecord
<1> HIDE DEF q
<1>4. LET w == With(i, s, q)
      IN  /\ Moves(i, w, s) /\ w.streams[s] = q /\ w.inFlight = i.inFlight
          /\ w.openQ = i.openQ /\ w.sendQ = i.sendQ
  BY <1>2, EditMoves
<1> HIDE DEF j
<1>5. /\ Moves(i, j, s) /\ j.streams[s] = q /\ j.inFlight = i.inFlight
      /\ j.openQ = i.openQ /\ j.sendQ = i.sendQ
  BY <1>3, <1>4
<1> QED
  BY <1>5 DEF q, j

\* The transition at the end of a handler puts nobody out of a queue, and
\* the stream that leaves the store had nothing to write.
LEMMA TransitionEases ==
  ASSUME NEW i \in InnerRecord, NEW s \in Streams, NEW wasReset \in BOOLEAN,
         IsStored(i.streams[s])
  PROVE  LET j == TransitionAfter(i, s, wasReset)
         IN  EasesAll(i, j) /\ (Ample(i) => Ample(j))
<1> DEFINE r == i.streams[s]
           j == TransitionAfter(i, s, wasReset)
           l == Left(i, s)
<1>1. r \in StreamRecord
  BY DEF InnerRecord
<1>2. CASE ~IsFlushed(r)
  <2>1. j = i
    BY <1>2, TransitionIdle
  <2> QED
    BY <2>1 DEF EasesAll, Eases
<1>3. CASE IsFlushed(r)
  <2>1. /\ j \in InnerRecord
        /\ j.sendQ = i.sendQ /\ j.openQ = i.openQ /\ j.inFlight = i.inFlight
        /\ \/ j.streams = [i.streams EXCEPT ![s] = l]
           \/ j.streams = [i.streams EXCEPT ![s] = Removed(l)]
    BY <1>1, <1>3, TransitionFields
  <2>2. /\ l \in StreamRecord /\ l.state = r.state /\ l.queue = r.queue
    BY <1>1, LeftFields
  <2>3. Removed(l).place = "removed"
    BY <2>2, RemovedFields
  <2>4. r.queue = <<>>
    BY <1>3 DEF IsFlushed
  <2> HIDE DEF j, l
  <2>5. i.streams \in [Streams -> StreamRecord]
    BY DEF InnerRecord
  <2>6. \A t \in Streams : t # s => j.streams[t] = i.streams[t]
    BY <2>1, <2>5
  <2>7. j.streams[s] \in {l, Removed(l)}
    BY <2>1, <2>5
  <2>8. IsStored(j.streams[s]) => j.streams[s] = l
    BY <2>3, <2>7 DEF IsStored
  <2>9. Backed(j.streams[s])
    BY <2>2, <2>4, <2>8 DEF Backed
  <2>10. \A t \in Streams : InSend(i, t) => InSend(j, t)
    BY <2>1 DEF InSend
  <2>11. Eases(i, j, s)
    BY <2>2, <2>4, <2>8, <2>10 DEF Eases, Ready
  <2>12. \A t \in Streams : t # s => Eases(i, j, t)
    BY <2>6, <2>10 DEF Eases
  <2> QED
    BY <2>1, <2>6, <2>9, <2>11, <2>12 DEF Ample, EasesAll, j
<1> QED
  BY <1>2, <1>3

LEMMA TransitionTends ==
  ASSUME NEW h, NEW i, NEW j, NEW s \in Streams, NEW rest, Tends(h, j, rest), Ample(j),
         IsStored(j.streams[s])
  PROVE  Tends(h, Transition(i, j, s), rest) /\ Ample(Transition(i, j, s))
<1>1. IsPendingReset(i, s) \in BOOLEAN
  BY DEF IsPendingReset, Contains
<1>2. EasesAll(j, Transition(i, j, s)) /\ Ample(Transition(i, j, s))
  BY <1>1, TransitionEases DEF Transition, Ample
<1> QED
  BY <1>2, EasesTends, TendsTrans

LEMMA SendHeadersMoves ==
  ASSUME NEW i, Ample(i), NEW s \in Streams, NEW eos \in BOOLEAN
  PROVE  LET j == SendHeaders(i, s, eos)
         IN  Moves(i, j, s) /\ InSend(j, s)
<1> DEFINE st == SendOpen(i.streams[s].state, eos)
           opened == [i EXCEPT !.streams[s].state = st]
           openQ == opened.openQ
           queue == Push(openQ, s)
           queued == IF i.peer = "client" THEN [opened EXCEPT !.openQ = queue] ELSE opened
           frame == Frame("headers", 0, eos)
           j == SendHeaders(i, s, eos)
<1>1. st \in States
  BY AmpleType, SendOpenState DEF Ensues
<1>2. frame \in Frames /\ frame.sz = 0
  BY MaxWindowAssumption DEF Frames, Frame, Kinds
<1>3. j = QueueFrame(queued, s, frame)
  BY AmpleType DEF SendHeaders, InnerRecord
<1> HIDE DEF st, frame
<1>4. Moves(i, opened, s)
  BY <1>1, StateMoves
<1> HIDE DEF opened
<1>5. opened \in InnerRecord /\ Ample(opened)
  BY <1>4 DEF Moves, Ample
<1>6. openQ \in Seq(Streams)
  BY <1>5 DEF InnerRecord
<1>7. queue \in Seq(Streams) /\ \A t \in Streams : Contains(openQ, t) => Contains(queue, t)
  <2> HIDE DEF openQ
  <2> QED
    BY <1>6, PushQueue
<1> HIDE DEF queue
<1>8. /\ queued \in InnerRecord /\ queued.streams = opened.streams
      /\ queued.inFlight = opened.inFlight /\ queued.sendQ = opened.sendQ
      /\ queued.openQ \in {opened.openQ, queue}
  BY <1>5, <1>7 DEF InnerRecord
<1> HIDE DEF queued
<1>9. \A t \in Streams : InSend(opened, t) => InSend(queued, t)
  BY <1>7, <1>8 DEF InSend
<1>10. Moves(opened, queued, s)
  BY <1>5, <1>8, <1>9, EnterMoves
<1> HIDE DEF j
<1>11. Moves(queued, j, s) /\ InSend(j, s)
  BY <1>2, <1>3, <1>10, MovesAmple, QueueFrameMoves
<1> QED
  BY <1>4, <1>10, <1>11, MovesTrans DEF j

LEMMA SendTrailersTends ==
  ASSUME NEW i, Ample(i), NEW s \in Streams, NEW rest
  PROVE  LET j == SendTrailers(i, s)
         IN  Tends(i, j, rest) /\ Ample(j)
<1> DEFINE st == SendClose(i.streams[s].state)
           closed == [i EXCEPT !.streams[s].state = st]
           frame == Frame("trailers", 0, TRUE)
           queued == QueueFrame(closed, s, frame)
           j == SendTrailers(i, s)
<1>1. st \in States
  BY AmpleType, SendCloseState DEF Ensues
<1>2. frame \in Frames /\ frame.sz = 0
  BY MaxWindowAssumption DEF Frames, Frame, Kinds
<1>3. j = ReserveCapacity(queued, s, 0)
  BY AmpleType DEF SendTrailers, InnerRecord
<1> HIDE DEF st, frame, j
<1>4. Moves(i, closed, s)
  BY <1>1, StateMoves
<1> HIDE DEF closed
<1>5. Moves(closed, queued, s) /\ InSend(queued, s)
  BY <1>2, <1>4, MovesAmple, QueueFrameMoves
<1> HIDE DEF queued
<1>6. queued \in InnerRecord /\ Ample(queued)
  BY <1>5 DEF Moves, Ample
<1>7. Provides(queued, j)
  BY <1>3, <1>6, ReserveProvides
<1>8. Moves(queued, j, s)
  BY <1>6, <1>7, ProvidesMoves
<1>9. Moves(i, j, s) /\ InSend(j, s)
  BY <1>4, <1>5, <1>8, MovesTrans DEF Moves
<1> QED
  BY <1>9, MovesTends, MovesAmple DEF j

LEMMA ResetFrameType == ResetFrame \in Frames /\ ResetFrame.sz = 0
BY MaxWindowAssumption DEF Frames, Frame, Kinds, ResetFrame

LEMMA SendResetTends ==
  ASSUME NEW i, Ample(i), NEW s \in Streams, NEW rest
  PROVE  LET j == SendReset(i, s)
         IN  Tends(i, j, rest) /\ Ample(j)
<1> DEFINE r == i.streams[s]
           st == SetReset("LocalReset")
           reset == [i EXCEPT !.streams[s].state = st]
           cleared == IF IsPendingOpen(i, s) THEN reset ELSE ClearQueue(reset, s)
           queued == QueueFrame(cleared, s, ResetFrame)
           j == SendReset(i, s)
<1>1. r \in StreamRecord /\ i \in InnerRecord
  BY AmpleType
<1>2. st \in States /\ ~IsScheduledReset(st)
  <2>1. "LocalReset" \in Errors /\ "NO_ERROR" \in Reasons
    BY DEF Errors, LocalErrors, Reasons
  <2> QED
    BY <2>1, ResetStates
<1> HIDE DEF st
<1>3. /\ Moves(i, reset, s) /\ reset.streams[s] = WithState(r, st)
  BY <1>2, StateMoves
<1>4. reset.streams[s].state = st /\ reset.streams[s].queue = r.queue
  BY <1>1, <1>3, WithStateFields
<1>5. CASE IsReset(r.state)
  <2>1. j = i
    BY <1>5 DEF SendReset
  <2> QED
    BY <2>1, TendsRefl
<1>6. CASE ~IsReset(r.state) /\ IsClosed(r.state) /\ r.queue = <<>>
  <2>1. j = reset
    BY <1>6 DEF SendReset, st
  <2> HIDE DEF j, reset
  <2>2. ~Discards(j.streams[s].state) /\ ~Ready(j.streams[s])
    BY <1>2, <1>4, <1>6, <2>1 DEF Discards, Ready
  <2> QED
    BY <1>3, <2>1, <2>2, MovesTends, MovesAmple DEF j
<1>7. CASE ~IsReset(r.state) /\ ~(IsClosed(r.state) /\ r.queue = <<>>)
  <2>1. j = ReclaimAll(queued, s)
    BY <1>7 DEF SendReset, st
  <2> HIDE DEF j, reset
  <2>2. Moves(reset, cleared, s)
    BY <1>3, MovesAmple, MovesRefl, ClearQueueMoves
  <2> HIDE DEF cleared
  <2>3. Moves(cleared, queued, s) /\ InSend(queued, s)
    BY <2>2, MovesAmple, QueueFrameMoves, ResetFrameType
  <2> HIDE DEF queued
  <2>4. queued \in InnerRecord /\ Ample(queued)
    BY <2>3 DEF Moves, Ample
  <2>5. Provides(queued, j)
    BY <2>1, <2>4, ReclaimSomeProvides
  <2>6. Moves(queued, j, s)
    BY <2>4, <2>5, ProvidesMoves
  <2>7. Moves(i, j, s) /\ InSend(j, s)
    BY <1>3, <2>2, <2>3, <2>6, MovesTrans DEF Moves
  <2> QED
    BY <2>7, MovesTends, MovesAmple DEF j
<1> QED
  BY <1>5, <1>6, <1>7

LEMMA EnqueueResetEases ==
  ASSUME NEW i, Ample(i), NEW s \in Streams
  PROVE  LET j == EnqueueResetExpiration(i, s)
         IN  EasesAll(i, j) /\ Ample(j) /\ j.streams = i.streams
<1> DEFINE j == EnqueueResetExpiration(i, s)
           resetQ == i.resetQ
           queue == Append(resetQ, s)
<1>1. i \in InnerRecord /\ i.numResets + 1 \in Int
  BY DEF Ample, InnerRecord
<1>2. queue \in Seq(Streams)
  <2>1. resetQ \in Seq(Streams)
    BY <1>1 DEF InnerRecord
  <2> HIDE DEF resetQ
  <2> QED
    BY <2>1
<1>3. j \in {i, [i EXCEPT !.resetQ = queue, !.numResets = i.numResets + 1]}
  BY <1>1 DEF EnqueueResetExpiration, InnerRecord
<1> HIDE DEF queue, j
<1>4. /\ j \in InnerRecord /\ j.streams = i.streams /\ j.inFlight = i.inFlight
      /\ j.sendQ = i.sendQ /\ j.openQ = i.openQ
  BY <1>1, <1>2, <1>3 DEF InnerRecord
<1>5. \A t \in Streams : InSend(i, t) => InSend(j, t)
  BY <1>4 DEF InSend
<1> QED
  BY <1>4, <1>5, EnterMoves DEF Moves, j

LEMMA EnqueueResetTends ==
  ASSUME NEW h, NEW i, Ample(i), NEW s \in Streams, NEW rest, Tends(h, i, rest)
  PROVE  LET j == EnqueueResetExpiration(i, s)
         IN  Tends(h, j, rest) /\ Ample(j)
BY EnqueueResetEases, EasesTends, TendsTrans

LEMMA ResetStreamTends ==
  ASSUME NEW i, Ample(i), NEW s \in Streams, NEW rest
  PROVE  LET j == ResetStream(i, s)
         IN  Tends(i, j, rest) /\ Ample(j)
<1>1. Tends(i, SendReset(i, s), rest) /\ Ample(SendReset(i, s))
  BY SendResetTends
<1> QED
  BY <1>1, EnqueueResetTends DEF ResetStream

LEMMA ScheduleImplicitResetTends ==
  ASSUME NEW i, Ample(i), NEW s \in Streams, NEW reason \in Reasons, NEW rest
  PROVE  LET j == ScheduleImplicitReset(i, s, reason)
         IN  Tends(i, j, rest) /\ Ample(j)
<1> DEFINE st == SetScheduledReset(reason)
           marked == [i EXCEPT !.streams[s].state = st]
           taken == ReclaimReserved(marked, s)
           j == ScheduleImplicitReset(i, s, reason)
<1>1. CASE IsClosed(i.streams[s].state)
  <2>1. j = i
    BY <1>1 DEF ScheduleImplicitReset
  <2> QED
    BY <2>1, TendsRefl
<1>2. CASE ~IsClosed(i.streams[s].state)
  <2>1. j = ScheduleSend(taken, s)
    BY <1>2 DEF ScheduleImplicitReset
  <2>2. st \in States
    <3>1. "LocalReset" \in Errors
      BY DEF Errors, LocalErrors
    <3> QED
      BY <3>1, ResetStates
  <2> HIDE DEF st, j
  <2>3. Moves(i, marked, s)
    BY <2>2, StateMoves
  <2> HIDE DEF marked
  <2>4. marked \in InnerRecord /\ Ample(marked)
    BY <2>3 DEF Moves, Ample
  <2>5. Provides(marked, taken)
    BY <2>4, ReclaimSomeProvides
  <2> HIDE DEF taken
  <2>6. Moves(marked, taken, s)
    BY <2>4, <2>5, ProvidesMoves
  <2>7. Moves(taken, j, s) /\ InSend(j, s)
    BY <2>1, <2>6, MovesAmple, ScheduleMoves
  <2>8. Moves(i, j, s)
    BY <2>3, <2>6, <2>7, MovesTrans
  <2> QED
    BY <2>7, <2>8, MovesTends, MovesAmple DEF j
<1> QED
  BY <1>1, <1>2

LEMMA MaybeCancelTends ==
  ASSUME NEW i, Ample(i), NEW s \in Streams, NEW rest
  PROVE  LET j == MaybeCancel(i, s)
         IN  Tends(i, j, rest) /\ Ample(j)
<1> DEFINE j == MaybeCancel(i, s)
<1>1. CASE IsClosed(i.streams[s].state)
  <2>1. j = i
    BY <1>1 DEF MaybeCancel
  <2> QED
    BY <2>1, TendsRefl
<1>2. CASE ~IsClosed(i.streams[s].state)
  <2>1. PICK reason \in Reasons :
          j = EnqueueResetExpiration(ScheduleImplicitReset(i, s, reason), s)
    BY <1>2 DEF MaybeCancel, Reasons
  <2> HIDE DEF j
  <2>2. /\ Tends(i, ScheduleImplicitReset(i, s, reason), rest)
        /\ Ample(ScheduleImplicitReset(i, s, reason))
    BY ScheduleImplicitResetTends
  <2> QED
    BY <2>1, <2>2, EnqueueResetTends DEF j
<1> QED
  BY <1>1, <1>2

\* A stream that failed has an empty queue.
LEMMA FailSendingTends ==
  ASSUME NEW i, Ample(i), NEW s \in Streams, NEW st \in States, NEW rest,
         Discards(st) => Discards(i.streams[s].state)
  PROVE  LET j == FailSending([i EXCEPT !.streams[s].state = st], s)
         IN  /\ Tends(i, j, rest) /\ Ample(j)
             /\ j.streams[s].queue = <<>> /\ j.streams[s].place = i.streams[s].place
             /\ Moves(i, j, s) /\ j.streams[s].state = st
<1> DEFINE r == i.streams[s]
           marked == [i EXCEPT !.streams[s].state = st]
           cleared == ClearQueue(marked, s)
           j == FailSending(marked, s)
<1>1. r \in StreamRecord /\ i \in InnerRecord
  BY AmpleType
<1>2. Moves(i, marked, s) /\ marked.streams[s] = WithState(r, st)
  BY StateMoves
<1>3. j = ReclaimAll(cleared, s)
  BY DEF FailSending
<1> HIDE DEF j, marked
<1>4. Ample(marked) /\ marked.streams[s] \in StreamRecord
  BY <1>2, MovesAmple, AmpleType
<1>5. Moves(marked, cleared, s) /\ cleared.streams[s] = Cleared(marked.streams[s])
  BY <1>4, ClearQueueMoves
<1> HIDE DEF cleared
<1>6. /\ cleared.streams[s].queue = <<>> /\ cleared.streams[s].state = st
      /\ cleared.streams[s].place = r.place
  BY <1>1, <1>2, <1>4, <1>5, WithStateFields, ClearedFields
<1>7. cleared \in InnerRecord /\ Ample(cleared)
  BY <1>5 DEF Moves, Ample
<1>8. Provides(cleared, j)
  BY <1>3, <1>7, ReclaimSomeProvides
<1>9. Moves(cleared, j, s)
  BY <1>7, <1>8, ProvidesMoves
<1>10. Moves(i, j, s)
  BY <1>2, <1>5, <1>9, MovesTrans
<1>11. /\ j.streams[s].queue = <<>> /\ j.streams[s].state = st
       /\ j.streams[s].place = r.place
  BY <1>6, <1>8 DEF Provides, Firm
<1>12. Prompt(j, s)
  BY <1>11 DEF Prompt, Ready
<1>13. Pressed(i, s) => Pressed(j, s)
  BY <1>10, <1>11 DEF Pressed, Moves, IsStored
<1>14. Tends(i, j, rest) /\ Ample(j)
  BY <1>10, <1>12, <1>13, SettledTends DEF Moves
<1> QED
  BY <1>10, <1>11, <1>14 DEF j, marked

LEMMA NoNewDiscards ==
  ASSUME NEW st \in States
  PROVE  /\ \A e \in Errors : HandleError(st, e) \in States
                              /\ (Discards(HandleError(st, e)) => Discards(st))
         /\ \A queued \in BOOLEAN : RecvReset(st, queued) \in States
                                    /\ (Discards(RecvReset(st, queued)) => Discards(st))
         /\ \A eos \in BOOLEAN : RecvOpen(st, eos, FALSE) \in States
                                 /\ (Discards(RecvOpen(st, eos, FALSE)) => Discards(st))
         /\ RecvClose(st) \in States /\ (Discards(RecvClose(st)) => Discards(st))
         /\ SendClose(st) \in States /\ (Discards(SendClose(st)) => Discards(st))
<1>1. ASSUME NEW e \in Errors
      PROVE  ~IsScheduledReset(CloseWith(st, e))
  BY DEF CloseWith, IsScheduledReset, ClosedBy, Closed, Error, ErrorAfterEndStream
<1>2. ASSUME NEW e \in Errors
      PROVE  HandleError(st, e) \in States /\ (Discards(HandleError(st, e)) => Discards(st))
  BY <1>1, HandleErrorState DEF HandleError, Discards, Ensues
<1>3. ASSUME NEW queued \in BOOLEAN
      PROVE  RecvReset(st, queued) \in States /\ (Discards(RecvReset(st, queued)) => Discards(st))
  BY <1>1, RecvResetState DEF RecvReset, Discards, Ensues, Errors, RemoteErrors
<1>4. ASSUME NEW eos \in BOOLEAN
      PROVE  RecvOpen(st, eos, FALSE) \in States
             /\ (Discards(RecvOpen(st, eos, FALSE)) => Discards(st))
  <2>1. RecvOpen(st, eos, FALSE) \in States
    BY RecvOpenState DEF Receiving, Ensues
  <2>2. CASE ~CanRecvOpen(st)
    BY <2>1, <2>2 DEF RecvOpen
  <2>3. CASE CanRecvOpen(st)
    BY <2>1, <2>3, SMTT(30)
      DEF RecvOpen, Discards, IsScheduledReset, ClosedBy, IsClosed, CanRecvOpen, IsRecvHeaders,
          HasRemote, Idle, ReservedRemote, Open, HalfClosedLocal, HalfClosedRemote, Closed,
          EndStream, States, ReservedLocal, Half, Streaming, AwaitingHeaders
  <2> QED
    BY <2>2, <2>3
<1>5. RecvClose(st) \in States /\ (Discards(RecvClose(st)) => Discards(st))
  <2>1. RecvClose(st) \in States
    BY RecvCloseState DEF Receiving, Ensues
  <2>2. RecvClose(st) \in {st, Closed(EndStream), HalfClosedRemote(st.local)}
    BY DEF RecvClose
  <2> QED
    BY <2>1, <2>2 DEF Discards, IsScheduledReset, ClosedBy, IsClosed, Closed, HalfClosedRemote, EndStream
<1>6. SendClose(st) \in States /\ (Discards(SendClose(st)) => Discards(st))
  <2>1. SendClose(st) \in States
    BY SendCloseState DEF Ensues
  <2>2. SendClose(st) \in {st, Closed(EndStream), HalfClosedLocal(st.remote)}
    BY DEF SendClose
  <2> QED
    BY <2>1, <2>2 DEF Discards, IsScheduledReset, ClosedBy, IsClosed, Closed, HalfClosedLocal, EndStream
<1> QED
  BY <1>2, <1>3, <1>4, <1>5, <1>6

LEMMA FailStreamTends ==
  ASSUME NEW i, Ample(i), NEW s \in Streams, NEW error \in Errors, NEW rest,
         IsStored(i.streams[s])
  PROVE  LET j == FailStream(i, s, error)
         IN  Tends(i, j, rest) /\ Ample(j)
<1> DEFINE st == HandleError(i.streams[s].state, error)
           k == FailSending([i EXCEPT !.streams[s].state = st], s)
<1>1. st \in States /\ (Discards(st) => Discards(i.streams[s].state))
  BY AmpleType, NoNewDiscards
<1>2. FailStream(i, s, error) = Transition(i, k, s)
  BY AmpleType DEF FailStream, InnerRecord
<1> HIDE DEF st
<1>3. Tends(i, k, rest) /\ Ample(k) /\ k.streams[s].place = i.streams[s].place
  BY <1>1, FailSendingTends
<1> HIDE DEF k
<1>4. IsStored(k.streams[s])
  BY <1>3 DEF IsStored
<1> QED
  BY <1>2, <1>3, <1>4, TransitionTends

LEMMA FailAfterTends ==
  ASSUME NEW i, Ample(i), NEW order \in Orders, NEW last, NEW error \in Errors, NEW rest
  PROVE  LET j == FailAfter(i, order, last, error)
         IN  Tends(i, j, rest) /\ Ample(j)
<1> DEFINE good == {j \in InnerRecord : Tends(i, j, rest) /\ Ample(j)}
           step == [k \in Nat |-> [j \in InnerRecord |-> FailNext(j, order[k], last, error)]]
<1>1. i \in good /\ NStreams \in Nat
  BY TendsRefl, StreamsType DEF Ample
<1>2. ASSUME NEW k \in 1 .. NStreams, NEW j \in good
      PROVE  step[k][j] \in good
  <2> DEFINE s == order[k]
             l == FailNext(j, s, last, error)
  <2>1. k \in Nat /\ s \in Streams
    BY <1>1, OrdersType
  <2>2. step[k][j] = l
    BY <2>1
  <2>3. j \in InnerRecord /\ Tends(i, j, rest) /\ Ample(j)
    OBVIOUS
  <2> HIDE DEF good, step, s
  <2>4. Tends(j, l, rest) /\ Ample(l)
    <3>1. CASE s \in Linked(j) /\ s > last
      <4>1. IsStored(j.streams[s])
        BY <3>1 DEF Linked, IsStored
      <4> QED
        BY <2>1, <2>3, <3>1, <4>1, FailStreamTends DEF FailNext
    <3>2. CASE ~(s \in Linked(j) /\ s > last)
      BY <2>3, <3>2, TendsRefl DEF FailNext
    <3> QED
      BY <3>1, <3>2
  <2> HIDE DEF l
  <2> QED
    BY <2>2, <2>3, <2>4, TendsTrans DEF good, Ample
<1>3. FailAfter(i, order, last, error) = Loop(step, i, NStreams)
  BY DEF FailAfter
<1> HIDE DEF good, step
<1>4. Loop(step, i, NStreams) \in good
  BY <1>1, <1>2, LoopStays
<1> QED
  BY <1>3, <1>4 DEF good

\* A record that keeps its frames and its state and gets no capacity.
LEMMA EditEases ==
  ASSUME NEW i, Ample(i), NEW s \in Streams, NEW r \in StreamRecord,
         r.place = i.streams[s].place, r.state = i.streams[s].state,
         r.queue = i.streams[s].queue, r.buffered = i.streams[s].buffered,
         r.flow.available > 0 => i.streams[s].flow.available > 0
  PROVE  LET j == With(i, s, r)
         IN  EasesAll(i, j) /\ Ample(j) /\ Moves(i, j, s) /\ j.streams[s] = r
<1> DEFINE j == With(i, s, r)
<1>1. Backed(r)
  BY AmpleType DEF Backed, IsStored
<1>2. /\ Moves(i, j, s) /\ j.streams[s] = r /\ j.inFlight = i.inFlight /\ j.openQ = i.openQ
      /\ j.sendQ = i.sendQ
  BY <1>1, EditMoves
<1> HIDE DEF j
<1>3. Eases(i, j, s)
  BY <1>2 DEF Eases, InSend, Ready, IsStored
<1>4. EasesAll(i, j)
  BY <1>2, <1>3 DEF EasesAll, Moves, EasesRest
<1> QED
  BY <1>2, <1>4, MovesAmple DEF j

\* A chunk is charged and its frame is not yet queued.
Charging(i, j, s, buffered) ==
  /\ Moves(i, j, s) /\ j.inFlight = i.inFlight
  /\ j.streams[s].queue = i.streams[s].queue
  /\ j.streams[s].buffered = buffered
  /\ ~Discards(j.streams[s].state)

LEMMA ChargingProvides ==
  ASSUME NEW i, NEW j, NEW k, NEW s \in Streams, NEW buffered, Charging(i, j, s, buffered),
         Provides(j, k)
  PROVE  Charging(i, k, s, buffered)
<1>1. Moves(j, k, s)
  BY ProvidesMoves, MovesAmple DEF Charging
<1>2. Moves(i, k, s)
  BY <1>1, MovesTrans DEF Charging
<1> QED
  BY <1>2 DEF Charging, Provides, Firm

LEMMA ChargingEdit ==
  ASSUME NEW i, NEW j, NEW s \in Streams, NEW buffered, Charging(i, j, s, buffered),
         NEW r \in StreamRecord, r.place = j.streams[s].place,
         r.queue = j.streams[s].queue, r.buffered = j.streams[s].buffered, ~Discards(r.state)
  PROVE  Charging(i, With(j, s, r), s, buffered)
<1>1. Ample(j)
  BY MovesAmple DEF Charging
<1>2. Backed(r)
  BY <1>1, AmpleType DEF Backed, IsStored
<1>3. /\ Moves(j, With(j, s, r), s) /\ With(j, s, r).streams[s] = r
      /\ With(j, s, r).inFlight = j.inFlight
  BY <1>1, <1>2, EditMoves
<1>4. Moves(i, With(j, s, r), s)
  BY <1>3, MovesTrans DEF Charging
<1> QED
  BY <1>3, <1>4 DEF Charging

LEMMA ChargingEnds ==
  ASSUME NEW i, NEW j, NEW s \in Streams, NEW rest \in Nat, NEW low,
         NEW sz \in 0 .. MaxWindow, NEW eos \in BOOLEAN,
         Whole(i, rest, low), IsStored(i.streams[s]),
         Charging(i, j, s, i.streams[s].buffered + sz)
  PROVE  LET frame == Frame("data", sz, eos)
             k == IF j.streams[s].flow.available > 0 \/ j.streams[s].buffered = 0
                    THEN QueueFrame(j, s, frame) ELSE Buffer(j, s, frame)
         IN  Tends(i, k, rest) /\ Ample(k)
<1> DEFINE frame == Frame("data", sz, eos)
           extra == Flying(i, rest)
           r == i.streams[s]
           q == j.streams[s]
           k == IF q.flow.available > 0 \/ q.buffered = 0
                  THEN QueueFrame(j, s, frame) ELSE Buffer(j, s, frame)
<1>1. /\ StoredSound(r, extra[s], low[s], IsServer(i)) /\ extra[s] \in Nat
  BY StoredAt, FlyingType DEF Whole
<1>2. /\ r \in StreamRecord /\ r.queue \in Seq(Frames) /\ r.buffered = Octets(r.queue) + extra[s]
      /\ r.buffered \in Nat
  <2>1. r \in StreamRecord /\ r.buffered = Octets(r.queue) + extra[s]
    BY <1>1 DEF StoredSound
  <2>2. r.queue \in Seq(Frames)
    BY <2>1 DEF StreamRecord
  <2>3. Octets(r.queue) \in Nat
    BY <2>2, OctetsType
  <2> HIDE DEF extra, r
  <2> QED
    BY <1>1, <2>1, <2>2, <2>3
<1>3. frame \in Frames /\ frame.sz = sz /\ frame.kind = "data" /\ sz \in Nat
  BY MaxWindowAssumption DEF Frames, Frame, Kinds
<1>4. /\ Ample(j) /\ q \in StreamRecord /\ q.queue = r.queue /\ q.buffered = r.buffered + sz
      /\ ~Discards(q.state) /\ Moves(i, j, s) /\ j.inFlight = i.inFlight
      /\ j \in InnerRecord
  BY MovesAmple, AmpleType DEF Charging
<1>5. frame.sz = 0 \/ q.buffered > 0
  BY <1>2, <1>3, <1>4
<1> HIDE DEF frame, extra
<1>6. CASE q.flow.available > 0 \/ q.buffered = 0
  <2>1. k = QueueFrame(j, s, frame)
    BY <1>6
  <2>2. Moves(j, k, s) /\ InSend(k, s)
    BY <1>3, <1>4, <1>5, <2>1, QueueFrameMoves
  <2>3. Moves(i, k, s)
    BY <1>4, <2>2, MovesTrans
  <2> QED
    BY <2>2, <2>3, MovesTends, MovesAmple DEF frame
<1>7. CASE ~(q.flow.available > 0 \/ q.buffered = 0)
  <2> DEFINE p == Queued(q, frame)
  <2>1. k = With(j, s, p)
    <3>1. k = Buffer(j, s, frame)
      BY <1>7
    <3> HIDE DEF k
    <3> QED
      BY <1>4, <3>1 DEF With, Buffer, Queued, InnerRecord
  <2>2. p \in StreamRecord /\ Backed(p)
    <3>1. Idle \in States
      BY DEF States
    <3> QED
      BY <1>3, <1>4, <1>5, <3>1, AmpleType, BackedQueued, RecordTypes
  <2>3. /\ p.queue = Append(r.queue, frame) /\ p.flow = q.flow /\ p.state = q.state
        /\ p.place = q.place
    <3>1. q \in StreamRecord /\ q.queue = r.queue
      BY <1>4
    <3> HIDE DEF k, q, r
    <3> QED
      BY <3>1, QueuedFields, SMTT(30) DEF p
  <2> HIDE DEF p, k
  <2>4. Moves(j, k, s) /\ k.streams[s] = p /\ k.inFlight = j.inFlight
    BY <1>4, <2>1, <2>2, EditMoves
  <2>5. Moves(i, k, s)
    BY <1>4, <2>4, MovesTrans
  <2>6. Pressed(k, s)
    BY <1>4, <2>3, <2>4 DEF Pressed
  <2>7. ASSUME Minded(i, rest, s)
        PROVE  Minded(k, rest, s)
    <3>1. ASSUME Ready(p)
          PROVE  InSend(k, s) \/ (i.inFlight = s /\ rest > 0)
      <4>1. ~(Head(p.queue).kind = "data" /\ Head(p.queue).sz > 0)
        BY <1>7, <2>3, <3>1 DEF Ready
      <4>2. CASE r.queue # <<>>
        <5>1. Head(p.queue) = Head(r.queue)
          BY <1>2, <1>3, <2>3, <4>2, HeadOfAppend
        <5>2. Ready(r)
          BY <4>1, <4>2, <5>1 DEF Ready
        <5> QED
          BY <2>5, <2>7, <5>2 DEF Minded, Prompt, Moves
      <4>3. CASE r.queue = <<>>
        <5>1. Head(p.queue) = frame
          BY <1>2, <1>3, <2>3, <4>3, HeadOfAppend
        <5>2. ~(sz > 0) /\ Octets(r.queue) = 0
          BY <1>2, <1>3, <4>1, <4>3, <5>1, OctetsType
        <5>3. extra[s] # 0
          BY <1>1, <1>2, <1>3, <1>4, <1>7, <5>2
        <5> QED
          BY <5>3 DEF Flying, extra
      <4> QED
        BY <4>2, <4>3
    <3> QED
      BY <1>4, <2>4, <3>1 DEF Minded, Prompt
  <2>8. Tends(i, k, rest)
    BY <2>5, <2>6, <2>7, OneTends DEF Moves
  <2> QED
    BY <2>5, <2>8, MovesAmple DEF k, frame
<1> QED
  BY <1>6, <1>7

LEMMA SendChunkTends ==
  ASSUME NEW i, NEW s \in Streams, NEW rest \in Nat, NEW low,
         NEW sz \in 0 .. MaxWindow, NEW eos \in BOOLEAN,
         Whole(i, rest, low), IsStored(i.streams[s]),
         IsSendStreaming(i.streams[s].state)
  PROVE  LET j == SendChunk(i, s, sz, eos)
         IN  Tends(i, j, rest) /\ Ample(j)
<1> DEFINE r == i.streams[s]
           buffered == r.buffered + sz
           q == [r EXCEPT !.buffered = buffered]
           charged == [i EXCEPT !.streams[s].buffered = buffered]
           asking == [charged EXCEPT !.streams[s].requested = buffered]
           asked == IF r.requested < buffered THEN TryAssign(asking, s) ELSE charged
           st == SendClose(asked.streams[s].state)
           closed == [asked EXCEPT !.streams[s].state = SendClose(@)]
           ended == IF eos THEN ReserveCapacity(closed, s, 0) ELSE asked
           frame == Frame("data", sz, eos)
<1>1. Ample(i)
  BY SoundAmple DEF Whole
<1>2. r \in StreamRecord /\ i \in InnerRecord /\ r.state \in States /\ Backed(r)
  BY <1>1, AmpleType
<1>3. r.buffered \in Int /\ buffered \in Int /\ sz >= 0
  <2>1. r.buffered \in Int
    BY <1>2 DEF StreamRecord
  <2> HIDE DEF r
  <2> QED
    BY <2>1, MaxWindowAssumption
<1>4. SendChunk(i, s, sz, eos)
        = IF ended.streams[s].flow.available > 0 \/ ended.streams[s].buffered = 0
            THEN QueueFrame(ended, s, frame) ELSE Buffer(ended, s, frame)
  BY DEF SendChunk
<1>5. ~Discards(r.state)
  BY <1>2, StateKinds
<1>6. Charging(i, charged, s, buffered)
  <2>1. charged = With(i, s, q)
    BY <1>2 DEF With, InnerRecord
  <2>2. /\ q \in StreamRecord /\ q.queue = r.queue /\ q.buffered = buffered /\ q.state = r.state
        /\ q.place = r.place
    <3> HIDE DEF r, buffered
    <3> QED
      BY <1>2, <1>3 DEF StreamRecord
  <2>3. Backed(q)
    <3>1. r.buffered > 0 => buffered > 0
      BY <1>3
    <3> QED
      BY <1>2, <2>2, <3>1 DEF Backed, IsStored
  <2> HIDE DEF q, charged
  <2>4. Moves(i, charged, s) /\ charged.streams[s] = q /\ charged.inFlight = i.inFlight
    BY <1>1, <2>1, <2>2, <2>3, EditMoves
  <2> QED
    BY <1>5, <2>2, <2>4 DEF Charging
<1> HIDE DEF charged, buffered
<1>7. Charging(i, asked, s, buffered)
  <2> DEFINE c == charged.streams[s]
             a == Asking(c, buffered)
  <2>1. charged \in InnerRecord /\ c \in StreamRecord
    BY <1>6, MovesAmple, AmpleType DEF Charging
  <2>2. asking = With(charged, s, a)
    BY <2>1 DEF With, Asking, InnerRecord
  <2>3. a \in StreamRecord /\ a.place = c.place /\ a.queue = c.queue /\ a.buffered = c.buffered
        /\ a.state = c.state
    BY <1>3, <2>1, AskingFields
  <2> HIDE DEF a, asking
  <2>4. Charging(i, asking, s, buffered)
    BY <1>6, <2>2, <2>3, ChargingEdit DEF Charging
  <2>5. Provides(asking, TryAssign(asking, s))
    BY <2>4, MovesAmple, AmpleType, TryAssignProvides DEF Charging
  <2>6. Charging(i, TryAssign(asking, s), s, buffered)
    BY <2>4, <2>5, ChargingProvides
  <2> QED
    BY <1>6, <2>6
<1> HIDE DEF asked
<1>8. Charging(i, ended, s, buffered)
  <2> DEFINE c == asked.streams[s]
             w == WithState(c, st)
  <2>1. asked \in InnerRecord /\ c \in StreamRecord /\ c.state \in States /\ Ample(asked)
        /\ Backed(c)
    BY <1>7, MovesAmple, AmpleType DEF Charging
  <2>2. st \in States /\ (Discards(st) => Discards(c.state))
    BY <2>1, NoNewDiscards
  <2>3. closed = With(asked, s, w)
    BY <2>1 DEF With, WithState, InnerRecord
  <2> HIDE DEF st, closed
  <2>4. w \in StreamRecord /\ w.place = c.place /\ w.queue = c.queue /\ w.buffered = c.buffered
        /\ w.state = st
    BY <2>1, <2>2, BackedState, WithStateFields
  <2> HIDE DEF w
  <2>5. Charging(i, closed, s, buffered)
    BY <1>7, <2>2, <2>3, <2>4, ChargingEdit DEF Charging
  <2>6. Provides(closed, ReserveCapacity(closed, s, 0))
    BY <2>5, MovesAmple, AmpleType, ReserveProvides DEF Charging
  <2>7. Charging(i, ReserveCapacity(closed, s, 0), s, buffered)
    BY <2>5, <2>6, ChargingProvides
  <2> QED
    BY <1>7, <2>7
<1> HIDE DEF ended
<1> QED
  BY <1>4, <1>8, ChargingEnds DEF buffered

LEMMA WindowUpdateTends ==
  ASSUME NEW i, Ample(i), NEW s \in Streams, NEW inc \in Nat, NEW rest
  PROVE  LET update == StreamWindowUpdate(i, s, inc)
         IN  /\ Tends(i, update.inner, rest) /\ Ample(update.inner)
             /\ update \in UpdateResult
<1> DEFINE r == i.streams[s]
           update == StreamWindowUpdate(i, s, inc)
           q == Raised(r, inc)
           j == [i EXCEPT !.streams[s].flow = IncWindow(@, inc)]
<1>1. r \in StreamRecord /\ i \in InnerRecord
  BY AmpleType
<1>2. ASSUME NEW k, NEW ok \in BOOLEAN, NEW u, u = [inner |-> k, ok |-> ok],
             Ample(k), Tends(i, k, rest)
      PROVE  Tends(i, u.inner, rest) /\ Ample(u.inner) /\ u \in UpdateResult
  <2>1. u.inner = k /\ k \in InnerRecord
    BY <1>2 DEF Ample
  <2>2. u \in UpdateResult
    BY <1>2, <2>1 DEF UpdateResult
  <2> QED
    BY <1>2, <2>1, <2>2
<1>3. CASE CannotSend(r)
  <2>1. update = [inner |-> i, ok |-> TRUE]
    BY <1>3 DEF StreamWindowUpdate
  <2> HIDE DEF update
  <2>2. Tends(i, i, rest)
    BY TendsRefl
  <2>3. Tends(i, update.inner, rest) /\ Ample(update.inner) /\ update \in UpdateResult
    BY <1>2, <2>1, <2>2
  <2> QED
    BY <2>3 DEF update
<1>4. CASE ~CannotSend(r) /\ CanIncWindow(r.flow, inc)
  <2>1. update = [inner |-> TryAssign(j, s), ok |-> TRUE]
    BY <1>4 DEF StreamWindowUpdate
  <2>2. j = With(i, s, q)
    BY <1>1 DEF With, Raised, InnerRecord
  <2>3. /\ q \in StreamRecord /\ q.place = r.place /\ q.state = r.state
        /\ q.buffered = r.buffered /\ q.queue = r.queue
        /\ q.flow.available = r.flow.available
    BY <1>1, <1>4, RaisedFields
  <2> HIDE DEF q, j, update
  <2>4. EasesAll(i, j) /\ Ample(j)
    BY <2>2, <2>3, EditEases
  <2>5. Provides(j, TryAssign(j, s))
    BY <2>4, TryAssignProvides DEF Ample
  <2>6. EasesAll(j, TryAssign(j, s)) /\ Ample(TryAssign(j, s))
    BY <2>4, <2>5, ProvidesMoves
  <2>7. Tends(i, TryAssign(j, s), rest)
    BY <2>4, <2>6, EasesAllTrans, EasesTends
  <2>8. Tends(i, update.inner, rest) /\ Ample(update.inner) /\ update \in UpdateResult
    BY <1>2, <2>1, <2>6, <2>7
  <2> QED
    BY <2>8 DEF update
<1>5. CASE ~CannotSend(r) /\ ~CanIncWindow(r.flow, inc)
  <2>1. update = [inner |-> SendReset(i, s), ok |-> FALSE]
    BY <1>5 DEF StreamWindowUpdate
  <2>2. Tends(i, SendReset(i, s), rest) /\ Ample(SendReset(i, s))
    BY SendResetTends
  <2> HIDE DEF update
  <2>3. Tends(i, update.inner, rest) /\ Ample(update.inner) /\ update \in UpdateResult
    BY <1>2, <2>1, <2>2
  <2> QED
    BY <2>3 DEF update
<1> QED
  BY <1>3, <1>4, <1>5

LEMMA UpdateAllTends ==
  ASSUME NEW i, Ample(i), NEW order \in Orders, NEW inc \in Nat, NEW rest
  PROVE  LET updated == UpdateAll(i, order, inc)
         IN  Tends(i, updated.inner, rest) /\ Ample(updated.inner)
<1> DEFINE good == {acc \in UpdateResult : Tends(i, acc.inner, rest) /\ Ample(acc.inner)}
           step == [k \in Nat |-> [acc \in UpdateResult |-> UpdateNext(acc, order[k], inc)]]
           x == [inner |-> i, ok |-> TRUE]
<1>1. x \in good /\ NStreams \in Nat
  BY TendsRefl, StreamsType DEF Ample, UpdateResult
<1>2. ASSUME NEW k \in 1 .. NStreams, NEW acc \in good
      PROVE  step[k][acc] \in good
  <2> DEFINE s == order[k]
             l == UpdateNext(acc, s, inc)
  <2>1. k \in Nat /\ s \in Streams
    BY <1>1, OrdersType
  <2>2. step[k][acc] = l
    BY <2>1
  <2>3. acc \in UpdateResult /\ Tends(i, acc.inner, rest) /\ Ample(acc.inner)
    OBVIOUS
  <2> HIDE DEF good, step, s
  <2>4. l \in UpdateResult /\ Tends(acc.inner, l.inner, rest) /\ Ample(l.inner)
    BY <2>1, <2>3, WindowUpdateTends, TendsRefl DEF UpdateNext
  <2> HIDE DEF l
  <2> QED
    BY <2>2, <2>3, <2>4, TendsTrans DEF good
<1>3. UpdateAll(i, order, inc) = Loop(step, x, NStreams)
  BY DEF UpdateAll
<1> HIDE DEF good, step, x
<1>4. Loop(step, x, NStreams) \in good
  BY <1>1, <1>2, LoopStays
<1> QED
  BY <1>3, <1>4 DEF good

----------------------------------------------------------------------------
(* Writing.  The codec is free, so that no stream waits for it.            *)

AllWell(i) == \A t \in Streams : Well(i, t)

LEMMA EasesAllWell ==
  ASSUME NEW i, NEW j, AllWell(i), EasesAll(i, j)
  PROVE  AllWell(j)
BY EasesWell DEF AllWell, EasesAll

LEMMA RestWell ==
  ASSUME NEW i, NEW j, NEW s \in Streams, \A t \in Streams : t # s => Well(i, t),
         EasesRest(i, j, s), Well(j, s)
  PROVE  AllWell(j)
<1>1. ASSUME NEW t \in Streams, t # s
      PROVE  Well(j, t)
  BY <1>1, EasesWell DEF EasesRest
<1> QED
  BY <1>1 DEF AllWell

\* The stream that is opened is scheduled.
LEMMA PopPendingOpenWell ==
  ASSUME NEW i, Ample(i), AllWell(i)
  PROVE  LET j == PopPendingOpen(i)
         IN  AllWell(j) /\ Ample(j)
<1>1. CASE i.openQ = <<>> \/ i.numStreams >= i.maxStreams
  BY <1>1 DEF PopPendingOpen
<1>2. CASE ~(i.openQ = <<>> \/ i.numStreams >= i.maxStreams)
  <2> DEFINE s == Head(i.openQ)
             openQ == i.openQ
             sendQ == i.sendQ
             r == i.streams[s]
             q == Counted(r)
             w == With(i, s, q)
             o == Tail(openQ)
             p == PushFront(sendQ, s)
             n == i.numStreams + 1
             d == [w EXCEPT !.openQ = o, !.numStreams = n, !.sendQ = p]
             j == TryAssign(d, s)
  <2>1. i \in InnerRecord /\ openQ # <<>> /\ openQ \in Seq(Streams) /\ sendQ \in Seq(Streams)
        /\ n \in Int
    BY <1>2 DEF Ample, InnerRecord
  <2>2. s \in Streams /\ o \in Seq(Streams)
        /\ \A t \in Streams : Contains(openQ, t) => t = s \/ Contains(o, t)
    <3>1. s = Head(openQ)
      OBVIOUS
    <3> HIDE DEF openQ, s
    <3> QED
      BY <2>1, <3>1, TailQueue
  <2>3. p \in Seq(Streams) /\ \A t \in Streams : Contains(p, t) <=> Contains(sendQ, t) \/ t = s
    <3> HIDE DEF sendQ, s
    <3> QED
      BY <2>1, <2>2, PushFrontQueue
  <2>4. PopPendingOpen(i) = j
    <3>1. d = [i EXCEPT !.openQ = Tail(@), !.numStreams = @ + 1,
                        !.streams[s].counted = TRUE, !.sendQ = PushFront(@, s)]
      BY <2>1, <2>2 DEF InnerRecord, Counted, With
    <3> HIDE DEF d
    <3> QED
      BY <1>2, <3>1 DEF PopPendingOpen
  <2>5. r \in StreamRecord
    BY <2>1, <2>2 DEF InnerRecord
  <2>6. /\ q \in StreamRecord /\ q.place = r.place /\ q.state = r.state /\ q.flow = r.flow
        /\ q.buffered = r.buffered /\ q.queue = r.queue
    BY <2>5, CountedFields
  <2> HIDE DEF s, q, r, o, p, n
  <2>7. EasesAll(i, w) /\ Ample(w)
    BY <2>2, <2>6, EditEases DEF r
  <2>8. w.openQ = openQ /\ w.sendQ = sendQ
    BY <2>1, <2>2, <2>6, WithFields DEF SameBooks
  <2>9. w \in InnerRecord
    BY <2>7 DEF Ample
  <2> HIDE DEF w
  <2>10. /\ d \in InnerRecord /\ d.streams = w.streams /\ d.inFlight = w.inFlight
         /\ d.openQ = o /\ d.sendQ = p
    BY <2>1, <2>2, <2>3, <2>9 DEF InnerRecord
  <2> HIDE DEF d
  <2>11. \A t \in Streams : InSend(w, t) => InSend(d, t)
    BY <2>2, <2>3, <2>8, <2>10 DEF InSend
  <2>12. EasesAll(w, d) /\ Ample(d)
    BY <2>2, <2>7, <2>10, <2>11, EnterMoves, MovesAmple
  <2>13. Provides(d, j)
    BY <2>2, <2>10, TryAssignProvides
  <2>14. EasesAll(d, j) /\ Ample(j)
    BY <2>12, <2>13, ProvidesMoves
  <2>15. AllWell(j)
    BY <2>7, <2>12, <2>14, EasesAllWell
  <2> QED
    BY <2>4, <2>14, <2>15
<1> QED
  BY <1>1, <1>2

LEMMA RequeueWell ==
  ASSUME NEW i \in InnerRecord, NEW s \in Streams, IsStored(i.streams[s]),
         \A t \in Streams : t # s => Well(i, t)
  PROVE  AllWell(Requeue(i, s))
<1> DEFINE more == i.streams[s].queue # <<>> \/ IsScheduledReset(i.streams[s].state)
           sendQ == i.sendQ
           queue == Push(sendQ, s)
           j == IF more THEN [i EXCEPT !.sendQ = queue] ELSE i
           b == IsPendingReset(i, s)
<1>1. Requeue(i, s) = TransitionAfter(j, s, b)
  BY DEF Requeue, InnerRecord
<1>2. queue \in Seq(Streams) /\ \A t \in Streams : Contains(queue, t) <=> Contains(sendQ, t) \/ t = s
  <2>1. sendQ \in Seq(Streams)
    BY DEF InnerRecord
  <2> HIDE DEF sendQ
  <2> QED
    BY <2>1, PushQueue
<1>3. b \in BOOLEAN
  BY DEF IsPendingReset, Contains
<1> HIDE DEF queue, b
<1>4. /\ j \in InnerRecord /\ j.streams = i.streams /\ j.openQ = i.openQ /\ j.inFlight = i.inFlight
      /\ j.sendQ = IF more THEN queue ELSE i.sendQ
  BY <1>2 DEF InnerRecord
<1> HIDE DEF j
<1>5. \A t \in Streams : InSend(i, t) => InSend(j, t)
  BY <1>2, <1>4 DEF InSend
<1>6. EasesRest(i, j, s)
  BY <1>4, <1>5 DEF EasesRest, Eases
<1>7. Well(j, s)
  <2>1. CASE more
    BY <1>2, <1>4, <2>1, InSendWell DEF InSend
  <2>2. CASE ~more
    BY <1>4, <2>2 DEF Well, Pressed, Prompt, Discards, Ready
  <2> QED
    BY <2>1, <2>2
<1>8. AllWell(j)
  BY <1>6, <1>7, RestWell
<1>9. IsStored(j.streams[s])
  BY <1>4
<1>10. EasesAll(j, TransitionAfter(j, s, b))
  BY <1>3, <1>4, <1>9, TransitionEases
<1> QED
  BY <1>1, <1>8, <1>10, EasesAllWell

\* s was taken out of pending_send.
Taking(i, s, low) ==
  /\ Sound(i, Behind(Nothing, 0), low, 0) /\ IsStored(i.streams[s])
  /\ \A t \in Streams : t # s => Well(i, t)

LEMMA TakingFacts ==
  ASSUME NEW i, NEW s \in Streams, NEW low, Taking(i, s, low)
  PROVE  /\ i \in InnerRecord /\ i.streams[s] \in StreamRecord /\ Ample(i)
         /\ StoredSound(i.streams[s], 0, low[s], IsServer(i))
<1>1. Behind(Nothing, 0)[s] = 0
  BY DEF Behind
<1>2. StoredSound(i.streams[s], 0, low[s], IsServer(i))
  BY <1>1, StoredAt DEF Taking
<1> QED
  BY <1>2, SoundAmple, AmpleType DEF Taking

LEMMA PopDataWell ==
  ASSUME NEW i, NEW s \in Streams, NEW low, Taking(i, s, low),
         i.streams[s].queue # <<>>, ~IsBlocked(i.streams[s])
  PROVE  AllWell(PopData(i, s).inner)
<1> DEFINE r == i.streams[s]
           len == DataLength(r)
           q == Paid(r, len)
           strs == [i.streams EXCEPT ![s] = q]
           flow == SendData(AssignCapacity(i.flow, len), len)
           j == Charged(i, s, len)
<1>1. i \in InnerRecord /\ r \in StreamRecord /\ StoredSound(r, 0, low[s], IsServer(i))
  BY TakingFacts
<1>2. len \in Int
  <2> HIDE DEF r
  <2>1. 0 \in Nat /\ r.queue # <<>> /\ ~IsBlocked(r)
    BY DEF r
  <2>2. len \in Nat
    BY <1>1, <2>1, LengthFits
  <2> QED
    BY <2>2
<1> HIDE DEF len
<1>3. q \in StreamRecord /\ q.place = r.place
  BY <1>1, <1>2, PaidFields
<1>4. flow \in Flow
  <2>1. i.flow \in Flow
    BY <1>1 DEF InnerRecord
  <2>2. AssignCapacity(i.flow, len) \in Flow
    BY <1>2, <2>1, FlowTypes
  <2> DEFINE f == AssignCapacity(i.flow, len)
  <2> HIDE DEF f
  <2>3. f \in Flow => /\ f.window \in Int /\ f.available \in Int
                      /\ f.window - len \in Int /\ f.available - len \in Int
    BY <1>2 DEF Flow
  <2>4. f \in Flow => SendData(f, len) \in Flow
    BY <2>3 DEF Flow, SendData
  <2> QED
    BY <2>2, <2>4 DEF f
<1>5. i.streams \in [Streams -> StreamRecord]
  BY <1>1 DEF InnerRecord
<1>6. strs \in [Streams -> StreamRecord] /\ strs[s] = q
      /\ \A t \in Streams : t # s => strs[t] = i.streams[t]
  <2> HIDE DEF q
  <2> QED
    BY <1>3, <1>5
<1>7. j = [i EXCEPT !.streams = strs, !.flow = flow]
  BY <1>1, ChargeAs
<1> HIDE DEF strs, flow, j, q
<1>8. /\ j \in InnerRecord /\ j.streams = strs /\ j.sendQ = i.sendQ /\ j.openQ = i.openQ
  BY <1>1, <1>4, <1>6, <1>7 DEF InnerRecord
<1>9. \A t \in Streams : t # s => Well(j, t)
  BY <1>6, <1>8 DEF Taking, Well, Pressed, Prompt, InSend
<1>10. IsStored(j.streams[s])
  BY <1>3, <1>6, <1>8 DEF Taking, IsStored
<1>11. PopData(i, s).inner = Requeue(j, s)
  BY DEF PopData, Charged, Popped, j, len
<1> QED
  BY <1>8, <1>9, <1>10, <1>11, RequeueWell

LEMMA PopOtherWell ==
  ASSUME NEW i, NEW s \in Streams, NEW low, Taking(i, s, low), i.streams[s].queue # <<>>
  PROVE  AllWell(PopOther(i, s).inner)
<1> DEFINE r == i.streams[s]
           rest == Tail(r.queue)
           q == [r EXCEPT !.queue = rest]
           j == [i EXCEPT !.streams[s].queue = Tail(@)]
<1>1. i \in InnerRecord /\ r \in StreamRecord
  BY TakingFacts
<1>2. rest \in Seq(Frames)
  <2>1. r.queue \in Seq(Frames)
    BY <1>1 DEF StreamRecord
  <2> QED
    BY <2>1, OctetsOfTail
<1>3. j = With(i, s, q)
  BY <1>1 DEF With, InnerRecord
<1> HIDE DEF rest, j
<1>4. q \in StreamRecord /\ q.place = r.place
  BY <1>1, <1>2 DEF StreamRecord
<1> HIDE DEF q
<1>5. /\ j \in InnerRecord /\ j.streams[s] = q /\ Elsewhere(i, j, s) /\ SameBooks(i, j)
      /\ j.sendQ = i.sendQ
  BY <1>1, <1>3, <1>4, WithFields
<1>6. \A t \in Streams : t # s => Well(j, t)
  BY <1>5 DEF Taking, Well, Pressed, Prompt, InSend, Elsewhere, SameBooks
<1>7. IsStored(j.streams[s])
  BY <1>4, <1>5 DEF Taking, IsStored
<1>8. PopOther(i, s).inner = Requeue(j, s)
  BY DEF PopOther, Popped, j
<1> QED
  BY <1>5, <1>6, <1>7, <1>8, RequeueWell

LEMMA PopScheduledResetWell ==
  ASSUME NEW i, NEW s \in Streams, NEW low, Taking(i, s, low)
  PROVE  AllWell(PopScheduledReset(i, s).inner)
<1> DEFINE r == i.streams[s]
           st == SetReset("LocalReset")
           q == WithState(r, st)
           j == [i EXCEPT !.streams[s].state = st]
<1>1. i \in InnerRecord /\ r \in StreamRecord /\ Ample(i) /\ Backed(r)
  BY TakingFacts, AmpleType
<1>2. st \in States
  <2>1. "LocalReset" \in Errors /\ "NO_ERROR" \in Reasons
    BY DEF Errors, LocalErrors, Reasons
  <2> QED
    BY <2>1, ResetStates
<1>3. j = With(i, s, q)
  BY <1>1 DEF With, WithState, InnerRecord
<1>4. PopScheduledReset(i, s).inner = Requeue(j, s)
  BY DEF PopScheduledReset, Popped
<1> HIDE DEF st, j
<1>5. q \in StreamRecord /\ q.place = r.place
  BY <1>1, <1>2, BackedState, WithStateFields
<1> HIDE DEF q
<1>6. /\ j \in InnerRecord /\ j.streams[s] = q /\ Elsewhere(i, j, s) /\ SameBooks(i, j)
      /\ j.sendQ = i.sendQ
  BY <1>1, <1>3, <1>5, WithFields
<1>7. \A t \in Streams : t # s => Well(j, t)
  BY <1>6 DEF Taking, Well, Pressed, Prompt, InSend, Elsewhere, SameBooks
<1>8. IsStored(j.streams[s])
  BY <1>5, <1>6 DEF Taking, IsStored
<1> QED
  BY <1>4, <1>6, <1>7, <1>8, RequeueWell

LEMMA PopDiscardedWell ==
  ASSUME NEW i, NEW s \in Streams, NEW low, Taking(i, s, low)
  PROVE  AllWell([FailSending(i, s) EXCEPT !.sendQ = Push(@, s)])
<1> DEFINE st == i.streams[s].state
           same == [i EXCEPT !.streams[s].state = st]
           k == FailSending(i, s)
           sendQ == k.sendQ
           queue == Push(sendQ, s)
           j == [k EXCEPT !.sendQ = queue]
<1>1. i \in InnerRecord /\ Ample(i) /\ st \in States
  BY TakingFacts, AmpleType
<1>2. same = i
  BY <1>1 DEF InnerRecord, StreamRecord
<1> HIDE DEF st, same
<1>3. Moves(i, FailSending(same, s), s)
  BY <1>1, FailSendingTends DEF st, same
<1>4. Moves(i, k, s)
  BY <1>2, <1>3
<1> HIDE DEF k
<1>5. k \in InnerRecord /\ sendQ \in Seq(Streams)
  BY <1>4 DEF Moves, Ample, InnerRecord
<1>6. queue \in Seq(Streams) /\ \A t \in Streams : Contains(queue, t) <=> Contains(sendQ, t) \/ t = s
  <2> HIDE DEF sendQ
  <2> QED
    BY <1>5, PushQueue
<1>7. [k EXCEPT !.sendQ = Push(@, s)] = j
  BY <1>5 DEF InnerRecord
<1> HIDE DEF queue
<1>8. /\ j.streams = k.streams /\ j.inFlight = k.inFlight /\ j.openQ = k.openQ /\ j.sendQ = queue
  BY <1>5 DEF InnerRecord
<1> HIDE DEF j
<1>9. \A t \in Streams : InSend(k, t) => InSend(j, t)
  BY <1>6, <1>8 DEF InSend
<1>10. EasesRest(k, j, s)
  BY <1>8, <1>9 DEF EasesRest, Eases
<1>11. EasesRest(i, j, s)
  BY <1>4, <1>10, EasesRestTrans DEF Moves
<1>12. Well(j, s)
  BY <1>6, <1>8, InSendWell DEF InSend
<1>13. AllWell(j)
  BY <1>11, <1>12, RestWell DEF Taking
<1> QED
  BY <1>7, <1>13 DEF k

LEMMA PopNextWell ==
  ASSUME NEW i, NEW low, Sound(i, Behind(Nothing, 0), low, 0), i.sendQ # <<>>, AllWell(i)
  PROVE  AllWell(PopNext(i).inner)
<1> DEFINE s == Head(i.sendQ)
           r == i.streams[s]
           j == [i EXCEPT !.sendQ = Tail(@)]
           data == r.queue # <<>> /\ Head(r.queue).kind = "data"
<1>1. /\ Sound(j, Behind(Nothing, 0), low, 0) /\ s \in Streams /\ IsStored(r)
      /\ j.streams = i.streams /\ SameBooks(i, j)
  BY PopSendSound
<1>2. j.sendQ = Tail(i.sendQ) /\ \A t \in Streams : Contains(i.sendQ, t) => t = s \/ Contains(j.sendQ, t)
  <2> DEFINE sendQ == i.sendQ
  <2>1. i \in InnerRecord /\ sendQ \in Seq(Streams) /\ sendQ # <<>>
    BY SoundType
  <2>2. j.sendQ = Tail(sendQ)
    BY <2>1 DEF InnerRecord
  <2>3. s = Head(sendQ)
    OBVIOUS
  <2> HIDE DEF sendQ, j, s
  <2>4. \A t \in Streams : Contains(sendQ, t) => t = s \/ Contains(j.sendQ, t)
    BY <2>1, <2>2, <2>3, TailQueue
  <2> QED
    BY <2>2, <2>4 DEF sendQ
<1>3. PopNext(i) =
        CASE data /\ DiscardsData(r) ->
               NothingPopped([FailSending(j, s) EXCEPT !.sendQ = Push(@, s)])
          [] data /\ ~DiscardsData(r) ->
               IF IsBlocked(r) THEN NothingPopped(j) ELSE PopData(j, s)
          [] ~data /\ r.queue # <<>> -> PopOther(j, s)
          [] r.queue = <<>> /\ IsScheduledReset(r.state) -> PopScheduledReset(j, s)
          [] OTHER -> NothingPopped(TransitionAfter(j, s, IsPendingReset(j, s)))
  BY DEF PopNext
<1> HIDE DEF j, s
<1>4. \A t \in Streams : t # s => Well(j, t)
  BY <1>1, <1>2 DEF AllWell, Well, Pressed, Prompt, InSend, SameBooks
<1>5. Taking(j, s, low) /\ j.streams[s] = r /\ s \in Streams
  BY <1>1, <1>4 DEF Taking
<1>6. \A k : NothingPopped(k).inner = k
  BY DEF NothingPopped, Popped
<1>7. CASE data /\ DiscardsData(r)
  <2>1. PopNext(i) = NothingPopped([FailSending(j, s) EXCEPT !.sendQ = Push(@, s)])
    BY <1>3, <1>7
  <2> QED
    BY <1>5, <1>6, <2>1, PopDiscardedWell
<1>8. CASE data /\ ~DiscardsData(r) /\ IsBlocked(r)
  <2>1. PopNext(i) = NothingPopped(j)
    BY <1>3, <1>8
  <2>2. StoredSound(r, 0, low[s], IsServer(j))
    BY <1>5, TakingFacts
  <2>3. ~Ready(r)
    <3>1. /\ r.queue \in Seq(Frames) /\ r.flow.available \in Int /\ r.flow.available >= 0
          /\ r.flow.available <= WindowSize(r.flow)
          /\ WindowSize(r.flow) \in Int
      <4>1. r \in StreamRecord /\ InBounds(r) /\ Fits(r)
        BY <2>2 DEF StoredSound
      <4>2. r.queue \in Seq(Frames)
        BY <4>1 DEF StreamRecord
      <4>3. r.flow.available \in 0 .. MaxWindow /\ r.flow.window \in -MaxWindow .. MaxWindow
            /\ r.flow.available <= WindowSize(r.flow)
        BY <4>1 DEF InBounds, Fits
      <4> QED
        BY <4>2, <4>3, MaxWindowAssumption DEF WindowSize, AsSize
    <3>2. Head(r.queue) \in Frames
      BY <1>8, <3>1, OctetsType
    <3>3. Head(r.queue).sz \in Int
      BY <3>2, MaxWindowAssumption DEF Frames
    <3>4. DataLength(r) \in Int /\ DataLength(r) <= r.flow.available
      <4>1. MaxFrame \in Int
        BY SendAssumption
      <4> QED
        BY <3>1, <3>3, <4>1 DEF DataLength, Lesser
    <3>5. Head(r.queue).sz > 0 /\ r.flow.available = 0
      BY <1>8, <3>1, <3>3, <3>4 DEF IsBlocked
    <3>6. ~(r.flow.available > 0)
      BY <3>1, <3>5
    <3> QED
      BY <1>8, <3>5, <3>6 DEF Ready
  <2>4. Well(j, s)
    BY <1>5, <1>8, <2>3 DEF Well, Pressed, Prompt, Discards, DiscardsData
  <2>5. AllWell(j)
    BY <1>4, <2>4 DEF AllWell
  <2> QED
    BY <1>6, <2>1, <2>5
<1>9. CASE data /\ ~DiscardsData(r) /\ ~IsBlocked(r)
  <2>1. PopNext(i) = PopData(j, s)
    BY <1>3, <1>9
  <2> QED
    BY <1>5, <1>9, <2>1, PopDataWell
<1>10. CASE ~data /\ r.queue # <<>>
  <2>1. PopNext(i) = PopOther(j, s)
    BY <1>3, <1>10
  <2> QED
    BY <1>5, <1>10, <2>1, PopOtherWell
<1>11. CASE r.queue = <<>> /\ IsScheduledReset(r.state)
  <2>1. PopNext(i) = PopScheduledReset(j, s)
    BY <1>3, <1>11
  <2> QED
    BY <1>5, <2>1, PopScheduledResetWell
<1>12. CASE r.queue = <<>> /\ ~IsScheduledReset(r.state)
  <2> DEFINE b == IsPendingReset(j, s)
             k == TransitionAfter(j, s, b)
  <2>1. PopNext(i) = NothingPopped(k)
    BY <1>3, <1>12
  <2>2. b \in BOOLEAN
    BY DEF IsPendingReset, Contains
  <2>3. Well(j, s)
    BY <1>5, <1>12 DEF Well, Pressed, Prompt, Discards, Ready
  <2>4. AllWell(j)
    BY <1>4, <2>3 DEF AllWell
  <2>5. j \in InnerRecord /\ IsStored(j.streams[s])
    BY <1>5, TakingFacts DEF Taking
  <2> HIDE DEF b
  <2>6. EasesAll(j, k)
    BY <1>5, <2>2, <2>5, TransitionEases
  <2>7. AllWell(k)
    BY <2>4, <2>6, EasesAllWell
  <2> QED
    BY <1>6, <2>1, <2>7
<1> QED
  BY <1>7, <1>8, <1>9, <1>10, <1>11, <1>12

LEMMA PopFrameWell ==
  ASSUME NEW i, NEW low, Sound(i, Behind(Nothing, 0), low, 0), i.inFlight = Nothing, AllWell(i)
  PROVE  Result(i, PopFrame(i), low) /\ AllWell(PopFrame(i).inner)
<1> DEFINE S == {p \in PopResult : Result(i, p, low) /\ AllWell(p.inner)}
           step == [k \in Nat |-> [popped \in PopResult |-> PopTurn(popped)]]
           x == NothingPopped(i)
<1>1. x \in S
  BY NothingResult DEF Result, NothingPopped, Popped
<1>2. ASSUME NEW k \in 1 .. MaxTurns, NEW p \in S
      PROVE  step[k][p] \in S
  <2>1. step[k][p] = PopTurn(p)
    OBVIOUS
  <2>2. CASE p.stream # Nothing \/ p.inner.sendQ = <<>>
    BY <2>1, <2>2 DEF PopTurn
  <2>3. CASE p.stream = Nothing /\ p.inner.sendQ # <<>>
    <3>1. PopTurn(p) = PopNext(p.inner)
      BY <2>3 DEF PopTurn
    <3>2. /\ Sound(p.inner, Behind(Nothing, 0), low, 0) /\ p.inner.inFlight = Nothing
          /\ p.inner.peer = i.peer /\ p.inner.initWindow = i.initWindow
      BY <2>3 DEF Result
    <3>3. Result(p.inner, PopNext(p.inner), low)
      BY <2>3, <3>2, PopNextSound
    <3>4. Result(i, PopNext(p.inner), low)
      BY <3>2, <3>3 DEF Result
    <3>5. AllWell(PopNext(p.inner).inner)
      BY <2>3, <3>2, PopNextWell
    <3> QED
      BY <2>1, <3>1, <3>4, <3>5 DEF Result
  <2> QED
    BY <2>2, <2>3
<1>3. MaxTurns \in Nat
  BY SendAssumption DEF MaxTurns
<1>4. PopFrame(i) = Loop(step, x, MaxTurns)
  BY DEF PopFrame
<1> HIDE DEF step, S, x
<1>5. Loop(step, x, MaxTurns) \in S
  BY <1>1, <1>2, <1>3, LoopStays
<1> QED
  BY <1>4, <1>5 DEF S

\* DATA that returns is scheduled when there is capacity for it.
LEMMA PushBackFrameWell ==
  ASSUME NEW i \in InnerRecord, NEW s \in Streams, NEW rest \in 1 .. MaxWindow,
         NEW eos \in BOOLEAN, Pressed(i, s)
  PROVE  LET j == PushBackFrame(i, s, rest, eos)
         IN  EasesRest(i, j, s) /\ Well(j, s) /\ j.inFlight = i.inFlight
<1> DEFINE r == i.streams[s]
           frame == Frame("data", rest, eos)
           front == <<frame>> \o r.queue
           q == [r EXCEPT !.queue = front]
           w == With(i, s, q)
           sendQ == i.sendQ
           queue == Push(sendQ, s)
           j == PushBackFrame(i, s, rest, eos)
<1>1. r \in StreamRecord /\ sendQ \in Seq(Streams)
  BY DEF InnerRecord
<1>2. /\ r.queue \in Seq(Frames) /\ frame \in Frames /\ frame.sz = rest /\ frame.kind = "data"
      /\ rest > 0
  <2>1. rest \in 0 .. MaxWindow /\ rest > 0
    BY MaxWindowAssumption
  <2> QED
    BY <1>1, <2>1 DEF StreamRecord, Frames, Frame, Kinds
<1>3. j = IF r.flow.available > 0 THEN [w EXCEPT !.sendQ = queue] ELSE w
  BY DEF PushBackFrame, With, InnerRecord
<1> HIDE DEF frame
<1>4. front \in Seq(Frames) /\ Head(front) = frame
  <2> DEFINE u == r.queue
  <2>1. u \in Seq(Frames)
    BY <1>2
  <2> HIDE DEF u
  <2>2. <<frame>> \o u \in Seq(Frames) /\ Head(<<frame>> \o u) = frame
    BY <1>2, <2>1, OctetsOfFront
  <2> QED
    BY <2>2 DEF u
<1>5. queue \in Seq(Streams) /\ \A t \in Streams : Contains(queue, t) <=> Contains(sendQ, t) \/ t = s
  <2> HIDE DEF sendQ
  <2> QED
    BY <1>1, PushQueue
<1> HIDE DEF front, queue
<1>6. q \in StreamRecord /\ q.queue = front /\ q.flow = r.flow /\ q.state = r.state
      /\ q.place = r.place
  BY <1>1, <1>4 DEF StreamRecord
<1> HIDE DEF q
<1>7. /\ w \in InnerRecord /\ w.streams[s] = q /\ Elsewhere(i, w, s) /\ SameBooks(i, w)
      /\ w.sendQ = i.sendQ
  BY <1>6, WithFields
<1> HIDE DEF w, j
<1>8. /\ j.streams = w.streams /\ j.openQ = i.openQ /\ j.inFlight = i.inFlight
      /\ j.sendQ = IF r.flow.available > 0 THEN queue ELSE i.sendQ
  BY <1>3, <1>7 DEF InnerRecord, SameBooks
<1>9. \A t \in Streams : InSend(i, t) => InSend(j, t)
  BY <1>5, <1>8 DEF InSend
<1>10. EasesRest(i, j, s)
  BY <1>7, <1>8, <1>9 DEF EasesRest, Eases, Elsewhere
<1>11. CASE r.flow.available > 0
  <2>1. InSend(j, s)
    BY <1>5, <1>8, <1>11 DEF InSend
  <2> QED
    BY <1>8, <1>10, <2>1, InSendWell DEF j
<1>12. CASE ~(r.flow.available > 0)
  <2>1. ~Ready(q)
    BY <1>2, <1>4, <1>6, <1>12 DEF Ready
  <2>2. Pressed(j, s)
    BY <1>6, <1>7, <1>8, <1>9 DEF Pressed, IsStored
  <2>3. Well(j, s)
    BY <1>7, <1>8, <2>1, <2>2 DEF Well, Prompt
  <2> QED
    BY <1>8, <1>10, <2>3 DEF j
<1> QED
  BY <1>11, <1>12

----------------------------------------------------------------------------
(* Every action.                                                           *)

Awaited(i, rest) == \A s \in Streams : Pressed(i, s) /\ Minded(i, rest, s)

\* While the connection runs, no stream is forgotten.
FInv == Reading => Awaited(inner, codec.rest)

LEMMA WellAwaited ==
  ASSUME NEW i, NEW rest, AllWell(i)
  PROVE  Awaited(i, rest)
BY DEF AllWell, Awaited, Well, Minded

LEMMA ForgetsNothing ==
  ASSUME FInv, codec' = codec, Reading' => Reading, Tends(inner, inner', codec.rest)
  PROVE  FInv'
<1>1. Reading' => Awaited(inner', codec.rest)
  BY DEF FInv, Awaited, Tends
<1> QED
  BY <1>1 DEF FInv

LEMMA ForgetsNothingOn ==
  ASSUME FInv, Unchanged, Tends(inner, inner', codec.rest)
  PROVE  FInv'
<1>1. codec' = codec /\ (Reading' => Reading)
  BY DEF Unchanged, Reading
<1> QED
  BY <1>1, ForgetsNothing

LEMMA InvAmple ==
  ASSUME IInv
  PROVE  Ample(inner) /\ inner \in InnerRecord /\ codec.rest \in Nat
BY InvFacts, SoundAmple DEF Whole, Ample

\* A connection that failed is not held to anything.
LEMMA FailedForgets ==
  ASSUME phase' \in {"failed", "dropped"}
  PROVE  FInv'
<1>1. ~Reading'
  BY DEF Reading
<1> QED
  BY <1>1 DEF FInv

\* A handler of stream s, and the transition at its end.
LEMMA TransitionForgets ==
  ASSUME FInv, Unchanged, NEW s \in Streams, NEW i, NEW j, Tends(inner, j, codec.rest),
         Ample(j), IsStored(j.streams[s]), inner' = Transition(i, j, s)
  PROVE  FInv'
<1>1. Tends(inner, Transition(i, j, s), codec.rest)
  BY TransitionTends
<1> QED
  BY <1>1, ForgetsNothingOn

LEMMA HandleEases ==
  ASSUME NEW i, Ample(i), NEW s \in Streams, NEW handle \in Handle
  PROVE  LET j == [i EXCEPT !.streams[s].handle = handle]
         IN  EasesAll(i, j) /\ Ample(j)
<1> DEFINE r == i.streams[s]
           q == [r EXCEPT !.handle = handle]
           j == [i EXCEPT !.streams[s].handle = handle]
<1>1. i \in InnerRecord /\ r \in StreamRecord
  BY AmpleType
<1>2. j = With(i, s, q)
  BY <1>1 DEF With, InnerRecord
<1>3. /\ q \in StreamRecord /\ q.place = r.place /\ q.flow = r.flow /\ q.state = r.state
      /\ q.buffered = r.buffered /\ q.queue = r.queue
  BY <1>1 DEF StreamRecord
<1> HIDE DEF q, j
<1>4. EasesAll(i, With(i, s, q)) /\ Ample(With(i, s, q))
  BY <1>3, EditEases
<1> QED
  BY <1>2, <1>4 DEF j

LEMMA AcceptForgets ==
  ASSUME IInv, FInv, NEW s \in Streams, Accept(s)
  PROVE  FInv'
<1>1. inner' = [inner EXCEPT !.streams[s].handle = "held"] /\ Unchanged /\ "held" \in Handle
  BY DEF Accept, Handle
<1>2. EasesAll(inner, inner')
  BY <1>1, InvAmple, HandleEases
<1> QED
  BY <1>1, <1>2, EasesTends, ForgetsNothingOn

\* A record without frames that is put in place of one that is new.
LEMMA FreshMoves ==
  ASSUME NEW i, Ample(i), NEW s \in Streams, NEW r \in StreamRecord, r.queue = <<>>
  PROVE  Moves(i, With(i, s, r), s)
<1>1. Backed(r)
  BY DEF Backed
<1> QED
  BY <1>1, EditMoves

LEMMA SendRequestForgets ==
  ASSUME IInv, FInv, NEW s \in Streams, NEW eos \in BOOLEAN, SendRequest(s, eos)
  PROVE  FInv'
<1> DEFINE w == inner.initWindow
           new == NewStream("linked", "held", w)
           i == [inner EXCEPT !.streams[s] = new]
<1>1. Unchanged /\ inner' = SendHeaders(i, s, eos)
  BY DEF SendRequest
<1>2. Ample(inner) /\ w \in 0 .. MaxWindow
  BY InvAmple DEF InnerRecord
<1>3. new \in StreamRecord /\ new.queue = <<>>
  <2>1. 0 \in -MaxWindow .. 0 /\ Idle \in States /\ "held" \in Handle
    BY MaxWindowAssumption DEF States, Handle
  <2>2. new.queue = <<>>
    BY DEF NewStream
  <2> HIDE DEF w, new
  <2>3. new \in StreamRecord
    BY <1>2, <2>1, FreshSound DEF new
  <2> QED
    BY <2>2, <2>3
<1>4. i = With(inner, s, new)
  BY DEF With
<1> HIDE DEF new, i
<1>5. Moves(inner, i, s)
  BY <1>2, <1>3, <1>4, FreshMoves
<1>6. Moves(i, inner', s) /\ InSend(inner', s)
  BY <1>1, <1>5, MovesAmple, SendHeadersMoves
<1>7. Tends(inner, inner', codec.rest)
  BY <1>5, <1>6, MovesTrans, MovesTends
<1> QED
  BY <1>1, <1>7, ForgetsNothingOn

LEMMA SendResponseForgets ==
  ASSUME IInv, FInv, NEW s \in Streams, NEW eos \in BOOLEAN, SendResponse(s, eos)
  PROVE  FInv'
<1> DEFINE j == SendHeaders(inner, s, eos)
<1>1. /\ IsStored(inner.streams[s]) /\ Whole(inner, codec.rest, Low) /\ codec.rest \in Nat
      /\ Unchanged /\ inner' = Transition(inner, j, s)
  BY InvFacts DEF SendResponse, Held
<1>2. IsServer(inner) /\ CanSendOpen(inner.streams[s].state)
  BY DEF SendResponse, IsServer
<1>3. Handled(inner, j, s)
  BY <1>1, <1>2, SendHeadersSound
<1>4. Moves(inner, j, s) /\ InSend(j, s)
  BY InvAmple, SendHeadersMoves
<1> HIDE DEF j
<1>5. Tends(inner, j, codec.rest) /\ Ample(j) /\ IsStored(j.streams[s])
  BY <1>3, <1>4, MovesTends, MovesAmple DEF Handled
<1> QED
  BY <1>1, <1>5, TransitionForgets

LEMMA SendInformationalForgets ==
  ASSUME IInv, FInv, NEW s \in Streams, SendInformational(s)
  PROVE  FInv'
<1> DEFINE frame == Frame("informational", 0, FALSE)
           j == QueueFrame(inner, s, frame)
<1>1. /\ IsStored(inner.streams[s]) /\ Sound(inner, Flying(inner, codec.rest), Low, 0)
  BY InvFacts DEF SendInformational, Held, Whole
<1>2. frame \in Frames /\ frame.sz = 0
  BY MaxWindowAssumption DEF Frame, Frames, Kinds
<1>3. Unchanged /\ inner' = Transition(inner, j, s)
  BY DEF SendInformational
<1> HIDE DEF frame
<1>4. Handled(inner, j, s)
  BY <1>1, <1>2, QueueFrameSound
<1>5. Moves(inner, j, s) /\ InSend(j, s)
  BY <1>2, InvAmple, QueueFrameMoves
<1> HIDE DEF j
<1>6. Tends(inner, j, codec.rest) /\ Ample(j) /\ IsStored(j.streams[s])
  BY <1>4, <1>5, MovesTends, MovesAmple DEF Handled
<1> QED
  BY <1>3, <1>6, TransitionForgets

LEMMA SendDataFrameForgets ==
  ASSUME IInv, FInv, NEW s \in Streams, NEW sz \in Sizes, NEW eos \in BOOLEAN,
         SendDataFrame(s, sz, eos)
  PROVE  FInv'
<1> DEFINE j == SendChunk(inner, s, sz, eos)
<1>1. /\ IsStored(inner.streams[s]) /\ Whole(inner, codec.rest, Low) /\ codec.rest \in Nat
      /\ Unchanged /\ inner' = Transition(inner, j, s)
  BY InvFacts DEF SendDataFrame, Held
<1>2. /\ IsSendStreaming(inner.streams[s].state)
      /\ inner.streams[s].buffered + sz <= MaxBuffered /\ sz \in 0 .. MaxWindow
  BY SendAssumption DEF SendDataFrame, HasRoom
<1>3. Handled(inner, j, s)
  BY <1>1, <1>2, SendChunkSound
<1>4. Tends(inner, j, codec.rest) /\ Ample(j)
  BY <1>1, <1>2, SendChunkTends
<1> HIDE DEF j
<1>5. IsStored(j.streams[s])
  BY <1>3 DEF Handled
<1> QED
  BY <1>1, <1>4, <1>5, TransitionForgets

LEMMA SendTrailersFrameForgets ==
  ASSUME IInv, FInv, NEW s \in Streams, SendTrailersFrame(s)
  PROVE  FInv'
<1> DEFINE j == SendTrailers(inner, s)
<1>1. /\ IsStored(inner.streams[s]) /\ Whole(inner, codec.rest, Low) /\ codec.rest \in Nat
      /\ IsSendStreaming(inner.streams[s].state)
      /\ Unchanged /\ inner' = Transition(inner, j, s)
  BY InvFacts DEF SendTrailersFrame, Held
<1>2. Handled(inner, j, s)
  BY <1>1, SendTrailersSound
<1>3. Tends(inner, j, codec.rest) /\ Ample(j)
  BY InvAmple, SendTrailersTends
<1> HIDE DEF j
<1>4. IsStored(j.streams[s])
  BY <1>2 DEF Handled
<1> QED
  BY <1>1, <1>3, <1>4, TransitionForgets

LEMMA ReserveForgets ==
  ASSUME IInv, FInv, NEW s \in Streams, NEW capacity \in Reservations, Reserve(s, capacity)
  PROVE  FInv'
<1>1. inner' = ReserveCapacity(inner, s, capacity) /\ Unchanged /\ capacity \in Int
  BY SendAssumption DEF Reserve
<1>2. Provides(inner, inner')
  BY <1>1, InvAmple, ReserveProvides
<1> QED
  BY <1>1, <1>2, InvAmple, ProvidesMoves, EasesTends, ForgetsNothingOn

LEMMA UserResetForgets ==
  ASSUME IInv, FInv, NEW s \in Streams, UserReset(s)
  PROVE  FInv'
<1> DEFINE j == ResetStream(inner, s)
<1>1. /\ IsStored(inner.streams[s]) /\ Whole(inner, codec.rest, Low) /\ codec.rest \in Nat
      /\ Unchanged /\ inner' = Transition(inner, j, s)
  BY InvFacts DEF UserReset, Held
<1>2. Handled(inner, j, s)
  BY <1>1, ResetStreamSound
<1>3. Tends(inner, j, codec.rest) /\ Ample(j)
  BY InvAmple, ResetStreamTends
<1> HIDE DEF j
<1>4. IsStored(j.streams[s])
  BY <1>2 DEF Handled
<1> QED
  BY <1>1, <1>3, <1>4, TransitionForgets

LEMMA DropStreamRefForgets ==
  ASSUME IInv, FInv, NEW s \in Streams, DropStreamRef(s)
  PROVE  FInv'
<1> DEFINE dropped == [inner EXCEPT !.streams[s].handle = "dropped"]
           j == MaybeCancel(dropped, s)
<1>1. /\ IsStored(inner.streams[s]) /\ Whole(inner, codec.rest, Low) /\ codec.rest \in Nat
      /\ inner' = Transition(inner, j, s) /\ Unchanged
  BY InvFacts DEF DropStreamRef, Held
<1>2. "dropped" \in Handle
  BY DEF Handle
<1>3. Whole(dropped, codec.rest, Low) /\ Handled(inner, dropped, s)
  BY <1>1, <1>2, HandleSound
<1>4. EasesAll(inner, dropped) /\ Ample(dropped)
  BY <1>2, InvAmple, HandleEases
<1> HIDE DEF dropped
<1>5. Handled(dropped, j, s)
  BY <1>1, <1>3, MaybeCancelSound DEF Handled
<1>6. Tends(dropped, j, codec.rest) /\ Ample(j)
  BY <1>4, MaybeCancelTends
<1> HIDE DEF j
<1>7. Tends(inner, j, codec.rest) /\ IsStored(j.streams[s])
  BY <1>4, <1>5, <1>6, EasesTends, TendsTrans DEF Handled
<1> QED
  BY <1>1, <1>6, <1>7, TransitionForgets

\* The receiving half moves on.
LEMMA ReceivingForgets ==
  ASSUME IInv, FInv, Unchanged, NEW s \in Streams, NEW st \in States,
         IsStored(inner.streams[s]), Discards(st) => Discards(inner.streams[s].state),
         inner' = Transition(inner, [inner EXCEPT !.streams[s].state = st], s)
  PROVE  FInv'
<1> DEFINE j == [inner EXCEPT !.streams[s].state = st]
           r == inner.streams[s]
<1>1. r \in StreamRecord
  BY InvAmple, AmpleType
<1>2. /\ Moves(inner, j, s) /\ j.streams[s] = WithState(r, st)
      /\ j.openQ = inner.openQ /\ j.sendQ = inner.sendQ /\ j.inFlight = inner.inFlight
  BY InvAmple, StateMoves
<1> HIDE DEF j
<1>3. /\ j.streams[s].state = st /\ j.streams[s].queue = r.queue
      /\ j.streams[s].place = r.place /\ j.streams[s].flow = r.flow
  BY <1>1, <1>2, WithStateFields
<1>4. Eases(inner, j, s)
  BY <1>2, <1>3 DEF Eases, InSend, IsStored, Ready
<1>5. EasesAll(inner, j)
  BY <1>2, <1>4 DEF EasesAll, Moves, EasesRest
<1>6. Tends(inner, j, codec.rest) /\ Ample(j) /\ IsStored(j.streams[s])
  BY <1>2, <1>3, <1>5, EasesTends, MovesAmple DEF IsStored
<1> QED
  BY <1>6, TransitionForgets DEF j

LEMMA RecvResponseForgets ==
  ASSUME IInv, FInv, NEW s \in Streams, NEW eos \in BOOLEAN, RecvResponse(s, eos)
  PROVE  FInv'
<1> DEFINE st == RecvOpen(inner.streams[s].state, eos, FALSE)
<1>1. IsStored(inner.streams[s]) /\ inner.streams[s].state \in States
  BY InvFacts, StateType DEF RecvResponse, Receives
<1>2. st \in States /\ (Discards(st) => Discards(inner.streams[s].state))
  BY <1>1, NoNewDiscards
<1>3. inner' = Transition(inner, [inner EXCEPT !.streams[s].state = st], s) /\ Unchanged
  BY DEF RecvResponse
<1> HIDE DEF st
<1> QED
  BY <1>1, <1>2, <1>3, ReceivingForgets

LEMMA RecvEndStreamForgets ==
  ASSUME IInv, FInv, NEW s \in Streams, RecvEndStream(s)
  PROVE  FInv'
<1> DEFINE st == RecvClose(inner.streams[s].state)
<1>1. /\ IsStored(inner.streams[s]) /\ inner.streams[s].state \in States
      /\ inner.streams \in [Streams -> StreamRecord] /\ inner \in InnerRecord
  BY InvFacts, StateType DEF RecvEndStream, Receives
<1>2. st \in States /\ (Discards(st) => Discards(inner.streams[s].state))
  BY <1>1, NoNewDiscards
<1>3. inner' = Transition(inner, [inner EXCEPT !.streams[s].state = st], s) /\ Unchanged
  BY <1>1 DEF RecvEndStream, InnerRecord
<1> HIDE DEF st
<1> QED
  BY <1>1, <1>2, <1>3, ReceivingForgets

LEMMA RecvStreamErrorForgets ==
  ASSUME IInv, FInv, NEW s \in Streams, RecvStreamError(s)
  PROVE  FInv'
<1> DEFINE j == ResetStream(inner, s)
<1>1. /\ IsStored(inner.streams[s]) /\ Whole(inner, codec.rest, Low) /\ codec.rest \in Nat
      /\ Unchanged /\ inner' = Transition(inner, j, s)
  BY InvFacts DEF RecvStreamError, Receives
<1>2. Handled(inner, j, s)
  BY <1>1, ResetStreamSound
<1>3. Tends(inner, j, codec.rest) /\ Ample(j)
  BY InvAmple, ResetStreamTends
<1> HIDE DEF j
<1>4. IsStored(j.streams[s])
  BY <1>2 DEF Handled
<1> QED
  BY <1>1, <1>3, <1>4, TransitionForgets

LEMMA RecvRstStreamForgets ==
  ASSUME IInv, FInv, NEW s \in Streams, RecvRstStream(s)
  PROVE  FInv'
<1> DEFINE queued == Contains(inner.sendQ, s)
           st == RecvReset(inner.streams[s].state, queued)
           reset == [inner EXCEPT !.streams[s].state = st]
           j == FailSending(reset, s)
<1>1. /\ IsStored(inner.streams[s]) /\ inner.streams[s].state \in States
      /\ inner.streams \in [Streams -> StreamRecord] /\ inner \in InnerRecord
  BY InvFacts, StateType DEF RecvRstStream, Receives
<1>2. queued \in BOOLEAN
  BY DEF Contains
<1> HIDE DEF queued
<1>3. st \in States /\ (Discards(st) => Discards(inner.streams[s].state))
  BY <1>1, <1>2, NoNewDiscards
<1>4. reset = [inner EXCEPT !.streams[s].state = RecvReset(@, queued)]
  BY <1>1 DEF InnerRecord
<1>5. inner' = Transition(inner, j, s) /\ Unchanged
  BY <1>4 DEF RecvRstStream, queued
<1> HIDE DEF st
<1>6. /\ Tends(inner, j, codec.rest) /\ Ample(j)
      /\ j.streams[s].place = inner.streams[s].place
  BY <1>3, InvAmple, FailSendingTends
<1> HIDE DEF j
<1>7. IsStored(j.streams[s])
  BY <1>1, <1>6 DEF IsStored
<1> QED
  BY <1>5, <1>6, <1>7, TransitionForgets

\* HEADERS of the peer have opened stream s.
LEMMA RequestTends ==
  ASSUME IInv, NEW s \in Streams, NEW eos \in BOOLEAN, NEW handle \in Handle
  PROVE  LET st == RecvOpen(Idle, eos, FALSE)
             q == Requested(handle, inner.initWindow, st)
             j == [inner EXCEPT !.streams[s] = q, !.numStreams = @ + 1]
         IN  Tends(inner, j, codec.rest) /\ Ample(j)
<1> DEFINE st == RecvOpen(Idle, eos, FALSE)
           w == inner.initWindow
           q == Requested(handle, w, st)
           n == inner.numStreams + 1
           i == With(inner, s, q)
           j == [inner EXCEPT !.streams[s] = q, !.numStreams = @ + 1]
<1>1. /\ Ample(inner) /\ inner \in InnerRecord /\ n \in Int /\ w \in 0 .. MaxWindow
      /\ inner.streams \in [Streams -> StreamRecord]
  BY InvAmple DEF InnerRecord
<1>2. st \in States /\ ~Discards(st)
  <2>1. Idle \in States /\ ~Discards(Idle)
    BY DEF States, Discards, IsScheduledReset, ClosedBy, IsClosed, Idle
  <2> QED
    BY <2>1, NoNewDiscards
<1> HIDE DEF st, w
<1>3. q.queue = <<>>
  BY DEF Requested, NewStream
<1>4. q \in StreamRecord /\ q.state = st
  <2>1. 0 \in -MaxWindow .. 0
    BY MaxWindowAssumption
  <2> QED
    BY <1>1, <1>2, <2>1, RequestedSound, ZenonT(60)
<1> HIDE DEF q
<1>5. Moves(inner, i, s) /\ i.streams[s] = q
  <2>1. Backed(q)
    BY <1>3 DEF Backed
  <2> QED
    BY <1>1, <1>4, <2>1, EditMoves
<1>6. j = [i EXCEPT !.numStreams = n]
  BY <1>1 DEF With, InnerRecord
<1> HIDE DEF i, n
<1>7. i \in InnerRecord /\ Ample(i)
  BY <1>5 DEF Moves, Ample
<1> HIDE DEF j
<1>8. /\ j \in InnerRecord /\ j.streams = i.streams /\ j.inFlight = i.inFlight
      /\ j.sendQ = i.sendQ /\ j.openQ = i.openQ
  BY <1>1, <1>6, <1>7 DEF InnerRecord
<1>9. Moves(i, j, s)
  <2>1. \A t \in Streams : InSend(i, t) => InSend(j, t)
    BY <1>8 DEF InSend
  <2> QED
    BY <1>7, <1>8, <2>1, EnterMoves
<1>10. ~Discards(j.streams[s].state) /\ ~Ready(j.streams[s])
  BY <1>2, <1>3, <1>4, <1>5, <1>8 DEF Ready
<1>11. Tends(inner, j, codec.rest) /\ Ample(j)
  BY <1>5, <1>9, <1>10, MovesTrans, MovesTends, MovesAmple
<1> QED
  BY <1>11 DEF j, q, st, w

LEMMA RecvRequestForgets ==
  ASSUME IInv, FInv, NEW s \in Streams, NEW eos \in BOOLEAN,
         NEW handle \in {"waiting", "dropped"}, RecvRequest(s, eos, handle)
  PROVE  FInv'
<1> DEFINE st == RecvOpen(Idle, eos, FALSE)
           opened == [inner EXCEPT !.streams[s] = Requested(handle, inner.initWindow, st),
                                   !.numStreams = @ + 1]
           reset == ResetStream(opened, s)
           headed == SendHeaders(opened, s, TRUE)
           scheduled == ScheduleImplicitReset(headed, s, "PROTOCOL_ERROR")
           refused == EnqueueResetExpiration(scheduled, s)
<1>1. NewStream("linked", handle, inner.initWindow).state = Idle
  BY DEF NewStream
<1>2. /\ inner.peer = "server" /\ inner.streams[s].place = "new" /\ Unchanged
      /\ \/ inner' = opened
         \/ inner' = Transition(opened, reset, s)
         \/ inner' = Transition(opened, refused, s)
  BY <1>1 DEF RecvRequest, IsNext, Requested
<1>3. /\ handle \in Handle /\ IsServer(inner) /\ codec.rest \in Nat
      /\ "PROTOCOL_ERROR" \in Reasons /\ "PROTOCOL_ERROR" # "NO_ERROR" /\ TRUE \in BOOLEAN
  BY <1>2, InvFacts DEF Handle, IsServer, Reasons
<1>4. /\ Whole(opened, codec.rest, Low) /\ IsServer(opened)
      /\ IsStored(opened.streams[s]) /\ CanSendOpen(opened.streams[s].state)
  BY <1>2, <1>3, RequestOpens
<1>5. Tends(inner, opened, codec.rest) /\ Ample(opened)
  BY <1>3, RequestTends
<1> HIDE DEF opened
<1>6. CASE inner' = opened
  BY <1>2, <1>5, <1>6, ForgetsNothingOn
<1>7. CASE inner' = Transition(opened, reset, s)
  <2>1. Handled(opened, reset, s)
    BY <1>3, <1>4, ResetStreamSound
  <2>2. Tends(opened, reset, codec.rest) /\ Ample(reset)
    BY <1>5, ResetStreamTends
  <2> HIDE DEF reset
  <2>3. Tends(inner, reset, codec.rest) /\ IsStored(reset.streams[s])
    BY <1>5, <2>1, <2>2, TendsTrans DEF Handled
  <2> QED
    BY <1>2, <1>7, <2>2, <2>3, TransitionForgets
<1>8. CASE inner' = Transition(opened, refused, s)
  <2>1. Whole(headed, codec.rest, Low) /\ Handled(opened, headed, s)
    BY <1>3, <1>4, SendHeadersSound
  <2>2. Moves(opened, headed, s) /\ InSend(headed, s)
    BY <1>3, <1>5, SendHeadersMoves
  <2> HIDE DEF headed
  <2>3. Whole(scheduled, codec.rest, Low) /\ Handled(headed, scheduled, s)
    BY <1>3, <2>1, ScheduleImplicitResetSound DEF Handled
  <2>4. Tends(headed, scheduled, codec.rest) /\ Ample(scheduled)
    BY <1>3, <2>2, MovesAmple, ScheduleImplicitResetTends
  <2> HIDE DEF scheduled
  <2>5. Handled(scheduled, refused, s)
    BY <2>3, EnqueueResetWhole DEF Handled
  <2>6. Tends(opened, scheduled, codec.rest)
    BY <2>2, <2>4, MovesTends, TendsTrans
  <2>7. Tends(inner, scheduled, codec.rest)
    BY <1>5, <2>6, TendsTrans
  <2>8. Tends(inner, refused, codec.rest) /\ Ample(refused)
    BY <2>4, <2>7, EnqueueResetTends
  <2> HIDE DEF refused
  <2>9. IsStored(refused.streams[s])
    BY <2>5 DEF Handled
  <2> QED
    BY <1>2, <1>8, <2>8, <2>9, TransitionForgets
<1> QED
  BY <1>2, <1>6, <1>7, <1>8

LEMMA RecvStreamWindowUpdateForgets ==
  ASSUME IInv, FInv, NEW s \in Streams, NEW inc \in Increments, RecvStreamWindowUpdate(s, inc)
  PROVE  FInv'
<1> DEFINE update == StreamWindowUpdate(inner, s, inc)
           i == update.inner
           j == EnqueueResetExpiration(i, s)
<1>1. Unchanged /\ inner' = IF update.ok THEN i ELSE j
  BY DEF RecvStreamWindowUpdate
<1>2. inc \in Nat
  BY SendAssumption, MaxWindowAssumption
<1>3. Tends(inner, i, codec.rest) /\ Ample(i)
  BY <1>2, InvAmple, WindowUpdateTends
<1> HIDE DEF update, i
<1>4. Tends(inner, j, codec.rest)
  BY <1>3, EnqueueResetTends
<1> QED
  BY <1>1, <1>3, <1>4, ForgetsNothingOn

LEMMA RecvConnectionWindowUpdateForgets ==
  ASSUME IInv, FInv, NEW inc \in Increments, RecvConnectionWindowUpdate(inc)
  PROVE  FInv'
<1> DEFINE flow == IncWindow(inner.flow, inc)
           j == [inner EXCEPT !.flow = IncWindow(@, inc)]
           k == AssignConnection(j, inc)
<1>1. inner' = k /\ Unchanged /\ CanIncWindow(inner.flow, inc)
  BY DEF RecvConnectionWindowUpdate
<1>2. Ample(inner) /\ inner \in InnerRecord /\ inner.flow \in Flow /\ inc \in Int
  BY InvAmple, SendAssumption, MaxWindowAssumption DEF InnerRecord
<1>3. flow \in Flow
  <2> DEFINE w == inner.flow.window + inc
  <2>1. flow = [inner.flow EXCEPT !.window = w] /\ w \in Int
    BY <1>1, <1>2 DEF IncWindow, Flow
  <2> HIDE DEF w, flow
  <2> QED
    BY <1>2, <2>1 DEF Flow
<1>4. j = [inner EXCEPT !.flow = flow]
  BY <1>2 DEF InnerRecord
<1> HIDE DEF flow, j
<1>5. /\ j \in InnerRecord /\ j.streams = inner.streams /\ j.inFlight = inner.inFlight
      /\ j.sendQ = inner.sendQ /\ j.openQ = inner.openQ
  BY <1>2, <1>3, <1>4 DEF InnerRecord
<1>6. EasesAll(inner, j) /\ Ample(j)
  <2>1. \A t \in Streams : InSend(inner, t) => InSend(j, t)
    BY <1>5 DEF InSend
  <2>2. 1 \in Streams
    BY SendAssumption DEF Streams
  <2> QED
    BY <1>2, <1>5, <2>1, <2>2, EnterMoves, MovesAmple
<1>7. EasesAll(j, k)
  BY <1>2, <1>5, <1>6, AssignConnectionProvides, ProvidesMoves
<1> HIDE DEF k
<1> QED
  BY <1>1, <1>6, <1>7, EasesAllTrans, EasesTends, ForgetsNothingOn

\* A smaller window takes capacity and gives none.
LEMMA ShrinkLess ==
  ASSUME NEW r \in StreamRecord, NEW dec \in Nat
  PROVE  LET q == Shrink(r, dec)
         IN  /\ q \in StreamRecord
             /\ q.place = r.place /\ q.state = r.state
             /\ q.buffered = r.buffered /\ q.queue = r.queue
             /\ q.flow.available > 0 => r.flow.available > 0
<1> DEFINE w == r.flow.window - dec
           dflow == DecSendWindow(r.flow, dec)
           sz == dflow.available - WindowSize(dflow)
           less == ClaimCapacity(dflow, sz)
           flow == IF dflow.available > WindowSize(dflow) THEN less ELSE dflow
           q == [r EXCEPT !.flow = flow]
<1>1. r.flow \in Flow
  BY DEF StreamRecord
<1>2. dflow \in Flow /\ dflow.available = r.flow.available
  <2>1. w \in Int
    BY <1>1 DEF Flow
  <2>2. dflow \in {r.flow, [r.flow EXCEPT !.window = w]}
    BY DEF DecSendWindow
  <2> HIDE DEF dflow, w
  <2> QED
    BY <1>1, <2>1, <2>2 DEF Flow
<1>3. q = Shrink(r, dec)
  BY DEF Shrink
<1> HIDE DEF dflow
<1>4. dflow.available \in Int /\ WindowSize(dflow) \in Int
  BY <1>2 DEF Flow, WindowSize, AsSize
<1>5. sz \in Int /\ (dflow.available > WindowSize(dflow) => sz > 0)
  BY <1>4
<1> HIDE DEF sz
<1>6. flow \in Flow /\ (flow.available > 0 => r.flow.available > 0)
  BY <1>2, <1>5, FlowTypes
<1> HIDE DEF flow
<1>7. /\ q \in StreamRecord /\ q.flow = flow
      /\ q.place = r.place /\ q.state = r.state
      /\ q.buffered = r.buffered /\ q.queue = r.queue
  BY <1>6 DEF StreamRecord
<1> HIDE DEF q
<1> QED
  BY <1>3, <1>6, <1>7

LEMMA RecvSmallerInitialWindowForgets ==
  ASSUME IInv, FInv, NEW sz \in InitWindows, RecvSmallerInitialWindow(sz)
  PROVE  FInv'
<1> DEFINE dec == inner.initWindow - sz
           strs == [s \in Streams |->
                      IF s \in Linked(inner) /\ ~CannotSend(inner.streams[s])
                        THEN Shrink(inner.streams[s], inner.initWindow - sz)
                        ELSE inner.streams[s]]
           lost == Total([s \in Streams |-> inner.streams[s].flow.available
                                              - strs[s].flow.available], NStreams)
           j == [inner EXCEPT !.initWindow = sz, !.streams = strs]
           k == AssignConnection(j, lost)
<1>1. sz < inner.initWindow /\ inner' = k /\ Unchanged
  BY DEF RecvSmallerInitialWindow
<1>2. /\ Ample(inner) /\ inner \in InnerRecord /\ inner.streams \in [Streams -> StreamRecord]
      /\ sz \in 0 .. MaxWindow /\ inner.initWindow \in 0 .. MaxWindow
  BY InvAmple, SendAssumption DEF InnerRecord
<1>3. dec \in Nat
  BY <1>1, <1>2, MaxWindowAssumption
<1>4. ASSUME NEW t \in Streams
      PROVE  LET r == inner.streams[t]
                 q == strs[t]
             IN  /\ q \in StreamRecord
                 /\ q.place = r.place /\ q.state = r.state
                 /\ q.buffered = r.buffered /\ q.queue = r.queue
                 /\ q.flow.available > 0 => r.flow.available > 0
  <2> DEFINE r == inner.streams[t]
  <2>1. r \in StreamRecord
    BY <1>2
  <2>2. strs[t] \in {r, Shrink(r, dec)}
    OBVIOUS
  <2> HIDE DEF dec, strs, r
  <2>3. CASE strs[t] = r
    BY <2>1, <2>3 DEF r
  <2>4. CASE strs[t] = Shrink(r, dec)
    BY <1>3, <2>1, <2>4, ShrinkLess DEF r
  <2> QED
    BY <2>2, <2>3, <2>4
<1>5. strs \in [Streams -> StreamRecord]
  <2>1. \A t \in Streams : strs[t] \in StreamRecord
    BY <1>4
  <2> QED
    BY <2>1
<1> HIDE DEF strs, dec
<1>6. lost \in Int
  <2> DEFINE f == [s \in Streams |-> inner.streams[s].flow.available - strs[s].flow.available]
  <2>1. \A s \in Streams : f[s] \in Int
    BY <1>2, <1>5 DEF StreamRecord, Flow
  <2>2. lost = Total(f, NStreams)
    OBVIOUS
  <2> HIDE DEF f, lost
  <2>3. Summable(f, NStreams)
    BY <2>1, StreamsType DEF Summable
  <2>4. NStreams \in Nat
    BY StreamsType
  <2>5. PICK sum \in [0 .. NStreams -> Int] : Total(f, NStreams) = sum[NStreams]
    BY <2>3, <2>4, TotalIsPartialSum
  <2> QED
    BY <2>2, <2>4, <2>5
<1> HIDE DEF lost
<1>7. /\ j \in InnerRecord /\ j.streams = strs /\ j.inFlight = inner.inFlight
      /\ j.sendQ = inner.sendQ /\ j.openQ = inner.openQ
  BY <1>2, <1>5 DEF InnerRecord
<1> HIDE DEF j
<1>8. Firm(inner, j)
  BY <1>4, <1>7 DEF Firm
<1>9. Provides(inner, j)
  <2>1. \A t \in Streams :
          j.streams[t].flow.available > 0 => inner.streams[t].flow.available > 0
    BY <1>4, <1>7
  <2> QED
    BY <1>7, <1>8, <2>1, ProvidesLess
<1>10. Provides(j, k)
  BY <1>6, <1>7, AssignConnectionProvides
<1> HIDE DEF k
<1>11. EasesAll(inner, k)
  BY <1>2, <1>9, <1>10, ProvidesTrans, ProvidesMoves
<1> QED
  BY <1>1, <1>11, EasesTends, ForgetsNothingOn

LEMMA RecvLargerInitialWindowForgets ==
  ASSUME IInv, FInv, NEW sz \in InitWindows, RecvLargerInitialWindow(sz)
  PROVE  FInv'
<1> DEFINE i == [inner EXCEPT !.initWindow = sz]
           inc == sz - inner.initWindow
<1>1. PICK order \in Orders :
        LET updated == UpdateAll(i, order, inc)
        IN  IF updated.ok THEN inner' = updated.inner /\ Unchanged
                          ELSE FailConnection(updated.inner)
  BY DEF RecvLargerInitialWindow
<1> DEFINE updated == UpdateAll(i, order, inc)
<1>2. /\ Ample(inner) /\ inner \in InnerRecord /\ sz \in 0 .. MaxWindow
      /\ inner.initWindow \in 0 .. MaxWindow /\ sz > inner.initWindow
  BY InvAmple, SendAssumption DEF RecvLargerInitialWindow, InnerRecord
<1>3. inc \in Nat
  BY <1>2, MaxWindowAssumption
<1>4. /\ i \in InnerRecord /\ i.streams = inner.streams /\ i.inFlight = inner.inFlight
      /\ i.sendQ = inner.sendQ /\ i.openQ = inner.openQ
  BY <1>2 DEF InnerRecord
<1> HIDE DEF i, inc
<1>5. EasesAll(inner, i) /\ Ample(i)
  <2>1. \A t \in Streams : InSend(inner, t) => InSend(i, t)
    BY <1>4 DEF InSend
  <2>2. 1 \in Streams
    BY SendAssumption DEF Streams
  <2> QED
    BY <1>2, <1>4, <2>1, <2>2, EnterMoves, MovesAmple
<1>6. Tends(i, updated.inner, codec.rest)
  BY <1>3, <1>5, UpdateAllTends
<1>7. Tends(inner, updated.inner, codec.rest)
  BY <1>5, <1>6, EasesTends, TendsTrans
<1> HIDE DEF updated
<1>8. CASE updated.ok
  BY <1>1, <1>7, <1>8, ForgetsNothingOn DEF updated
<1>9. CASE ~updated.ok
  <2>1. FailConnection(updated.inner)
    BY <1>1, <1>9 DEF updated
  <2> QED
    BY <2>1, FailedForgets DEF FailConnection
<1> QED
  BY <1>8, <1>9

\* Only a limit changes.
LEMMA LimitEases ==
  ASSUME NEW i, NEW j, j.streams = i.streams, j.inFlight = i.inFlight,
         j.sendQ = i.sendQ, j.openQ = i.openQ
  PROVE  EasesAll(i, j)
BY DEF EasesAll, Eases, InSend

LEMMA RecvMaxConcurrentStreamsForgets ==
  ASSUME IInv, FInv, NEW limit \in Limits, RecvMaxConcurrentStreams(limit)
  PROVE  FInv'
<1>1. inner' = [inner EXCEPT !.maxStreams = limit] /\ Unchanged
  BY DEF RecvMaxConcurrentStreams
<1>2. inner \in InnerRecord
  BY InvAmple
<1>3. /\ inner'.streams = inner.streams /\ inner'.inFlight = inner.inFlight
      /\ inner'.sendQ = inner.sendQ /\ inner'.openQ = inner.openQ
  BY <1>1, <1>2 DEF InnerRecord
<1> QED
  BY <1>1, <1>3, LimitEases, EasesTends, ForgetsNothingOn

LEMMA RecvGoAwayForgets ==
  ASSUME IInv, FInv, NEW last \in LastStreams, RecvGoAway(last)
  PROVE  FInv'
<1>1. PICK order \in Orders :
        inner' = [IF inner.peer = "client"
                    THEN FailAfter(inner, order, last, "RemoteGoAway") ELSE inner
                      EXCEPT !.maxStreamId = last]
  BY DEF RecvGoAway
<1> DEFINE i == IF inner.peer = "client"
                  THEN FailAfter(inner, order, last, "RemoteGoAway") ELSE inner
<1>2. "RemoteGoAway" \in Errors
  BY DEF Errors, RemoteErrors
<1>3. Tends(inner, i, codec.rest) /\ Ample(i)
  BY <1>2, InvAmple, FailAfterTends, TendsRefl
<1>4. inner' = [i EXCEPT !.maxStreamId = last]
  BY <1>1
<1> HIDE DEF i
<1>5. /\ inner'.streams = i.streams /\ inner'.inFlight = i.inFlight
      /\ inner'.sendQ = i.sendQ /\ inner'.openQ = i.openQ
  BY <1>3, <1>4 DEF InnerRecord, Ample
<1>6. Tends(i, inner', codec.rest)
  BY <1>5, LimitEases, EasesTends
<1>7. codec' = codec /\ Reading
  BY DEF RecvGoAway
<1> QED
  BY <1>3, <1>6, <1>7, TendsTrans, ForgetsNothing

LEMMA ExpireResetForgets ==
  ASSUME IInv, FInv, ExpireReset
  PROVE  FInv'
<1> DEFINE resetQ == inner.resetQ
           s == Head(resetQ)
           q == Tail(resetQ)
           c == [inner EXCEPT !.resetQ = q]
<1>1. Unchanged /\ inner' = TransitionAfter(c, s, TRUE) /\ resetQ # <<>>
  BY DEF ExpireReset, Expire
<1>2. /\ Sound(inner, Flying(inner, codec.rest), Low, 0) /\ inner \in InnerRecord
      /\ resetQ \in Seq(Streams)
  BY InvFacts, SoundType DEF Whole
<1>3. s \in Streams /\ Contains(resetQ, s) /\ q \in Seq(Streams)
  <2> HIDE DEF resetQ
  <2> QED
    BY <1>1, <1>2, TailQueue
<1>4. IsStored(inner.streams[s])
  BY <1>2, <1>3, StoredInQueue DEF InQueue
<1> HIDE DEF q, s, resetQ
<1>5. /\ c \in InnerRecord /\ c.streams = inner.streams /\ c.inFlight = inner.inFlight
      /\ c.sendQ = inner.sendQ /\ c.openQ = inner.openQ
  BY <1>2, <1>3 DEF InnerRecord
<1> HIDE DEF c
<1>6. EasesAll(inner, c)
  BY <1>5, LimitEases
<1>7. EasesAll(c, inner')
  BY <1>1, <1>3, <1>4, <1>5, TransitionEases
<1> QED
  BY <1>1, <1>6, <1>7, EasesAllTrans, EasesTends, ForgetsNothingOn

\* The queues and the records decide, and the codec does not.
LEMMA SameWell ==
  ASSUME NEW i, NEW j, AllWell(i), j.streams = i.streams, j.sendQ = i.sendQ, j.openQ = i.openQ
  PROVE  AllWell(j)
BY DEF AllWell, Well, Pressed, Prompt, InSend

LEMMA BufferPendingForgets ==
  ASSUME IInv, FInv, BufferPending
  PROVE  FInv'
<1> DEFINE none == Behind(Nothing, 0)
           i == PopPendingOpen(inner)
           p == PopFrame(i)
           chained == p.frame.kind = "data" /\ p.frame.sz >= ChainThreshold
<1>1. codec = NoFrame /\ codec.rest = 0 /\ inner.inFlight = Nothing /\ phase' = phase
  <2>1. NoFrame \notin HeldFrames
    BY StreamsType DEF HeldFrames, NoFrame, Nothing, Nobody
  <2> QED
    BY <2>1 DEF IInv, CodecSound, BufferPending, NoFrame
<1>2. CASE ~Reading
  BY <1>1, <1>2 DEF FInv, Reading
<1>3. CASE Reading
  <2>1. Ample(inner) /\ AllWell(inner)
    <3>1. Awaited(inner, 0) /\ ~(0 > 0)
      BY <1>1, <1>3 DEF FInv
    <3> QED
      BY <3>1, InvAmple DEF Awaited, AllWell, Well, Minded
  <2>2. Sound(inner, none, Low, 0)
    BY <1>1, NoRest DEF IInv, Whole
  <2>3. Sound(i, none, Low, 0) /\ i.inFlight = Nothing
    BY <1>1, <2>2, PopPendingOpenSound
  <2>4. AllWell(i)
    BY <2>1, PopPendingOpenWell
  <2>5. IF p.stream # Nothing /\ chained
          THEN inner' = [p.inner EXCEPT !.inFlight = p.stream]
          ELSE inner' = IF p.rest > 0 THEN PushBackFrame(p.inner, p.stream, p.rest, p.eos)
                                      ELSE p.inner
    BY DEF BufferPending
  <2> HIDE DEF i
  <2>6. Result(i, p, Low) /\ AllWell(p.inner)
    BY <2>3, <2>4, PopFrameWell
  <2> HIDE DEF p, chained
  <2>7. /\ p.inner \in InnerRecord /\ p.rest \in 0 .. MaxWindow
        /\ (p.stream = Nothing => p.rest = 0)
        /\ p.stream \in Streams \cup {Nothing} /\ p.eos \in BOOLEAN
    BY <2>6 DEF Result, PopResult
  <2>8. AllWell(inner')
    <3>1. CASE p.stream # Nothing /\ chained
      <4>1. /\ inner'.streams = p.inner.streams /\ inner'.sendQ = p.inner.sendQ
            /\ inner'.openQ = p.inner.openQ
        BY <2>5, <2>7, <3>1 DEF InnerRecord
      <4> QED
        BY <2>6, <4>1, SameWell
    <3>2. CASE ~(p.stream # Nothing /\ chained) /\ p.rest > 0
      <4>1. p.stream \in Streams /\ p.rest \in 1 .. MaxWindow
        BY <2>7, <3>2, MaxWindowAssumption
      <4>2. inner' = PushBackFrame(p.inner, p.stream, p.rest, p.eos)
        BY <2>5, <3>2
      <4>3. Pressed(p.inner, p.stream) /\ \A t \in Streams : Well(p.inner, t)
        BY <2>6, <4>1 DEF AllWell, Well
      <4>4. EasesRest(p.inner, inner', p.stream) /\ Well(inner', p.stream)
        BY <2>7, <4>1, <4>2, <4>3, PushBackFrameWell
      <4> QED
        BY <4>1, <4>3, <4>4, RestWell
    <3>3. CASE ~(p.stream # Nothing /\ chained) /\ ~(p.rest > 0)
      BY <2>5, <2>6, <3>3
    <3> QED
      BY <3>1, <3>2, <3>3
  <2>9. Awaited(inner', codec'.rest)
    BY <2>8, WellAwaited
  <2> QED
    BY <2>9 DEF FInv
<1> QED
  BY <1>2, <1>3

LEMMA ReclaimFrameForgets ==
  ASSUME IInv, FInv, ReclaimFrame
  PROVE  FInv'
<1> DEFINE s == codec.stream
           rest == codec.rest
           j == [inner EXCEPT !.inFlight = Nothing]
<1>1. /\ codec \in HeldFrames /\ inner.inFlight \in {s, Drop} /\ phase' = phase
  BY DEF IInv, CodecSound, ReclaimFrame, NoFrame
<1>2. s \in Streams /\ rest \in 0 .. MaxWindow /\ codec.eos \in BOOLEAN
  BY <1>1 DEF HeldFrames
<1>3. inner' = IF inner.inFlight # Drop /\ rest > 0
                 THEN PushBackFrame(j, s, rest, codec.eos) ELSE j
  BY DEF ReclaimFrame
<1>4. inner \in InnerRecord /\ Drop \notin Streams
  BY InvAmple, StreamsType DEF Drop
<1>5. /\ j \in InnerRecord /\ j.streams = inner.streams /\ j.sendQ = inner.sendQ
      /\ j.openQ = inner.openQ /\ j.inFlight = Nothing
  BY <1>4 DEF InnerRecord
<1> HIDE DEF j
<1>6. CASE ~Reading
  BY <1>1, <1>6 DEF FInv, Reading
<1>7. CASE Reading
  <2>1. Awaited(inner, rest)
    BY <1>7 DEF FInv
  <2>2. \A t \in Streams :
          /\ Pressed(j, t)
          /\ Prompt(j, t) \/ (inner.inFlight = t /\ rest > 0)
    BY <1>5, <2>1 DEF Awaited, Pressed, Minded, Prompt, InSend
  <2> HIDE DEF s, rest
  <2>3. CASE inner.inFlight # Drop /\ rest > 0
    <3>1. rest \in 1 .. MaxWindow /\ inner.inFlight = s
      BY <1>1, <1>2, <2>3, MaxWindowAssumption
    <3>2. inner' = PushBackFrame(j, s, rest, codec.eos)
      BY <1>3, <2>3
    <3>3. Pressed(j, s) /\ \A t \in Streams : t # s => Well(j, t)
      BY <1>2, <2>2, <3>1 DEF Well
    <3>4. EasesRest(j, inner', s) /\ Well(inner', s)
      BY <1>2, <1>5, <3>1, <3>2, <3>3, PushBackFrameWell
    <3>5. AllWell(inner')
      BY <1>2, <3>3, <3>4, RestWell
    <3> QED
      BY <3>5, WellAwaited DEF FInv
  <2>4. CASE ~(inner.inFlight # Drop /\ rest > 0)
    <3>1. inner' = j
      BY <1>3, <2>4
    <3>2. \A t \in Streams : Well(j, t)
      BY <1>4, <2>2, <2>4 DEF Well
    <3>3. AllWell(inner')
      BY <3>1, <3>2 DEF AllWell
    <3> QED
      BY <3>3, WellAwaited DEF FInv
  <2> QED
    BY <2>3, <2>4
<1> QED
  BY <1>6, <1>7

----------------------------------------------------------------------------
(* No step forgets a frame.                                                *)

LEMMA InitForgets ==
  ASSUME Init
  PROVE  FInv
<1>1. \A s \in Streams : inner.streams[s].place = "new"
  BY DEF Init, NewStream
<1>2. \A s \in Streams : ~IsStored(inner.streams[s])
  BY <1>1 DEF IsStored
<1>3. Awaited(inner, codec.rest)
  BY <1>2 DEF Awaited, Pressed, Minded, Prompt
<1> QED
  BY <1>3 DEF FInv

LEMMA StepForgets ==
  ASSUME IInv, FInv, [Next]_vars
  PROVE  FInv'
<1>1. ASSUME NEW s \in Streams, User(s) PROVE FInv'
  <2>1. ASSUME NEW eos \in BOOLEAN, SendRequest(s, eos) PROVE FInv'
    BY <2>1, SendRequestForgets
  <2>2. ASSUME NEW eos \in BOOLEAN, SendResponse(s, eos) PROVE FInv'
    BY <2>2, SendResponseForgets
  <2>3. ASSUME NEW sz \in Sizes, NEW eos \in BOOLEAN, SendDataFrame(s, sz, eos) PROVE FInv'
    BY <2>3, SendDataFrameForgets
  <2>4. ASSUME NEW capacity \in Reservations, Reserve(s, capacity) PROVE FInv'
    BY <2>4, ReserveForgets
  <2>5. ASSUME Accept(s) PROVE FInv'
    BY <2>5, AcceptForgets
  <2>6. ASSUME SendInformational(s) PROVE FInv'
    BY <2>6, SendInformationalForgets
  <2>7. ASSUME SendTrailersFrame(s) PROVE FInv'
    BY <2>7, SendTrailersFrameForgets
  <2>8. ASSUME UserReset(s) PROVE FInv'
    BY <2>8, UserResetForgets
  <2>9. ASSUME DropStreamRef(s) PROVE FInv'
    BY <2>9, DropStreamRefForgets
  <2> QED
    BY <1>1, <2>1, <2>2, <2>3, <2>4, <2>5, <2>6, <2>7, <2>8, <2>9 DEF User
<1>2. ASSUME NEW s \in Streams, Receive(s) PROVE FInv'
  <2>1. ASSUME NEW eos \in BOOLEAN, NEW handle \in {"waiting", "dropped"},
               RecvRequest(s, eos, handle)
        PROVE  FInv'
    BY <2>1, RecvRequestForgets
  <2>2. ASSUME NEW eos \in BOOLEAN, RecvResponse(s, eos) PROVE FInv'
    BY <2>2, RecvResponseForgets
  <2>3. ASSUME NEW inc \in Increments, RecvStreamWindowUpdate(s, inc) PROVE FInv'
    BY <2>3, RecvStreamWindowUpdateForgets
  <2>4. ASSUME RecvEndStream(s) PROVE FInv'
    BY <2>4, RecvEndStreamForgets
  <2>5. ASSUME RecvStreamError(s) PROVE FInv'
    BY <2>5, RecvStreamErrorForgets
  <2>6. ASSUME RecvRstStream(s) PROVE FInv'
    BY <2>6, RecvRstStreamForgets
  <2> QED
    BY <1>2, <2>1, <2>2, <2>3, <2>4, <2>5, <2>6 DEF Receive
<1>3. ASSUME Write PROVE FInv'
  <2>1. CASE BufferPending
    BY <2>1, BufferPendingForgets
  <2>2. CASE ReclaimFrame
    BY <2>2, ReclaimFrameForgets
  <2> QED
    BY <1>3, <2>1, <2>2 DEF Write
<1>4. ASSUME ExpireReset PROVE FInv'
  BY <1>4, ExpireResetForgets
<1>5. ASSUME ConnectionError PROVE FInv'
  BY <1>5, FailedForgets DEF ConnectionError, FailConnection
<1>6. ASSUME NEW inc \in Increments, RecvConnectionWindowUpdate(inc) PROVE FInv'
  BY <1>6, RecvConnectionWindowUpdateForgets
<1>7. ASSUME NEW sz \in InitWindows, RecvSmallerInitialWindow(sz) PROVE FInv'
  BY <1>7, RecvSmallerInitialWindowForgets
<1>8. ASSUME NEW sz \in InitWindows, RecvLargerInitialWindow(sz) PROVE FInv'
  BY <1>8, RecvLargerInitialWindowForgets
<1>9. ASSUME NEW limit \in Limits, RecvMaxConcurrentStreams(limit) PROVE FInv'
  BY <1>9, RecvMaxConcurrentStreamsForgets
<1>10. ASSUME NEW last \in LastStreams, RecvGoAway(last) PROVE FInv'
  BY <1>10, RecvGoAwayForgets
<1>11. ASSUME NEW dropped \in BOOLEAN, RecvEof(dropped) PROVE FInv'
  BY <1>11, FailedForgets DEF RecvEof
<1>12. ASSUME UNCHANGED vars PROVE FInv'
  BY <1>12 DEF vars, FInv, Awaited, Reading
<1> QED
  BY <1>1, <1>2, <1>3, <1>4, <1>5, <1>6, <1>7, <1>8, <1>9, <1>10, <1>11, <1>12 DEF Next

\* What the invariant says of a stream whose next frame could be written.
LEMMA FramesAwaited ==
  ASSUME IInv, FInv
  PROVE  NoFrameForgotten
<1> SUFFICES ASSUME phase \in {"running", "goneAway"}, NEW s \in Stored(inner),
                    inner.streams[s].queue # <<>>, CanWrite(inner.streams[s]), ~WillReturn(s)
             PROVE  Contains(inner.sendQ, s) \/ IsPendingOpen(inner, s)
  BY DEF NoFrameForgotten
<1> DEFINE r == inner.streams[s]
           extra == Flying(inner, codec.rest)
<1>1. s \in Streams
  BY DEF Stored
<1>2. IsStored(r) /\ StoredSound(r, extra[s], Low[s], IsServer(inner))
  BY <1>1, InvStreams
<1>3. Pressed(inner, s) /\ Minded(inner, codec.rest, s)
  BY <1>1 DEF FInv, Reading, Awaited
<1>4. InSend(inner, s) => Contains(inner.sendQ, s) \/ IsPendingOpen(inner, s)
  BY DEF InSend, IsPendingOpen
<1>5. CASE DiscardsData(r)
  BY <1>2, <1>3, <1>4, <1>5 DEF Pressed, Discards, DiscardsData
<1>6. CASE ~DiscardsData(r)
  <2> HIDE DEF extra
  <2>1. r.flow.available \in Int /\ r.flow.available >= 0
    <3>1. InBounds(r)
      BY <1>2 DEF StoredSound
    <3>2. r.flow.available \in 0 .. MaxWindow
      BY <3>1 DEF InBounds
    <3> QED
      BY <3>2, MaxWindowAssumption
  <2>2. ASSUME Head(r.queue).kind = "data", Head(r.queue).sz > 0
        PROVE  r.flow.available > 0
    <3>1. ~IsBlocked(r)
      BY <1>6, <2>2 DEF CanWrite
    <3>2. r.flow.available # 0
      BY <2>2, <3>1 DEF IsBlocked
    <3> HIDE DEF r
    <3> QED
      BY <2>1, <3>2
  <2>3. Ready(r)
    BY <2>2 DEF Ready
  <2>4. ~(inner.inFlight = s /\ codec.rest > 0)
    BY DEF WillReturn
  <2> QED
    BY <1>2, <1>3, <1>4, <2>3, <2>4 DEF Minded, Prompt
<1> QED
  BY <1>5, <1>6

\* While the connection runs, a stream whose next frame pop_frame would write
\* is in pending_send or waits in pending_open, through every order of calls
\* of users, frames of the peer, and turns of the writing loop: no frame is
\* left in a queue that nobody looks at.
THEOREM NoFrameIsForgotten == Spec => []NoFrameForgotten
<1>1. Init => FInv
  BY InitForgets
<1>2. IInv /\ FInv /\ [Next]_vars => FInv'
  BY StepForgets
<1>3. IInv /\ FInv => NoFrameForgotten
  BY FramesAwaited
<1> QED
  BY <1>1, <1>2, <1>3, Invariance, PTL DEF Spec


----------------------------------------------------------------------------
(* NoWaiterForgotten.                                                      *)
(*                                                                         *)
(* Capacity is handed out until there is none left or nobody wants any.  A *)
(* state is Heeded when every stream that wants capacity is in             *)
(* pending_capacity, and Content when moreover the connection has none to  *)
(* give, unless nobody wants any.  What a handler does to its own stream   *)
(* may make the state Content but for that stream; try_assign_capacity, or *)
(* a stream that wants nothing, makes it Content again.                    *)

\* The stream wants capacity that its window would allow.
Hungry(r) ==
  CanSendData(r) /\ Lesser(Wanted(r), WindowSize(r.flow)) > r.flow.available

\* What is asked for covers what is buffered.
Apt(r) ==
  /\ r \in StreamRecord
  /\ 0 <= r.buffered /\ r.buffered <= r.requested
  /\ 0 <= r.flow.available
  /\ r.flow.window <= MaxWindow

Craves(i, t) == Hungry(i.streams[t]) /\ ~Contains(i.openQ, t)

AllApt(i) == i \in InnerRecord /\ \A t \in Streams : Apt(i.streams[t])

\* All streams, and all but s.
Heeded(i) ==
  AllApt(i) /\ \A t \in Streams : Craves(i, t) => Contains(i.capacityQ, t)

HeededBut(i, s) ==
  AllApt(i) /\ \A t \in Streams : t # s /\ Craves(i, t) => Contains(i.capacityQ, t)

Spent(i) == i.flow.available <= 0

Content(i) ==
  Heeded(i) /\ (Spent(i) \/ \A t \in Streams : ~Craves(i, t))

ContentBut(i, s) ==
  HeededBut(i, s) /\ (Spent(i) \/ \A t \in Streams : t # s => ~Craves(i, t))

\* From i to j nobody gets hungry and nothing else that matters happens.
Softens(i, j) ==
  /\ j \in InnerRecord
  /\ j.flow = i.flow
  /\ \A t \in Streams :
       /\ Contains(i.capacityQ, t) => Contains(j.capacityQ, t)
       /\ Contains(i.openQ, t) => Contains(j.openQ, t)
       /\ Apt(i.streams[t]) => Apt(j.streams[t])
       /\ Apt(i.streams[t]) /\ Hungry(j.streams[t]) => Hungry(i.streams[t])

LEMMA SoftensTrans ==
  ASSUME NEW i, NEW j, NEW k, AllApt(i), Softens(i, j), Softens(j, k)
  PROVE  Softens(i, k)
BY DEF Softens, AllApt

LEMMA SoftensRefl ==
  ASSUME NEW i \in InnerRecord
  PROVE  Softens(i, i)
BY DEF Softens

LEMMA SoftensKeeps ==
  ASSUME NEW i, NEW j, Softens(i, j), AllApt(i)
  PROVE  /\ AllApt(j)
         /\ Heeded(i) => Heeded(j)
         /\ Content(i) => Content(j)
         /\ \A s \in Streams : HeededBut(i, s) => HeededBut(j, s)
         /\ \A s \in Streams : ContentBut(i, s) => ContentBut(j, s)
<1>1. AllApt(j)
  BY DEF AllApt, Softens
<1>2. \A t \in Streams : /\ Craves(j, t) => Craves(i, t)
                         /\ Contains(i.capacityQ, t) => Contains(j.capacityQ, t)
  BY DEF AllApt, Softens, Craves
<1>3. Spent(i) => Spent(j)
  BY DEF Softens, Spent
<1> QED
  BY <1>1, <1>2, <1>3 DEF Heeded, HeededBut, Content, ContentBut

LEMMA ContentFacts ==
  ASSUME NEW i
  PROVE  /\ Content(i) => Heeded(i) /\ AllApt(i)
         /\ Heeded(i) => AllApt(i)
         /\ \A s \in Streams : Heeded(i) => HeededBut(i, s)
         /\ \A s \in Streams : Content(i) => ContentBut(i, s)
         /\ \A s \in Streams : ContentBut(i, s) => HeededBut(i, s) /\ AllApt(i)
         /\ \A s \in Streams : HeededBut(i, s) => AllApt(i)
BY DEF Content, ContentBut, Heeded, HeededBut

\* The stream that was left out wants nothing, or waits to be opened.
LEMMA ContentFrom ==
  ASSUME NEW i, NEW s \in Streams, ~Craves(i, s)
  PROVE  /\ HeededBut(i, s) => Heeded(i)
         /\ ContentBut(i, s) => Content(i)
BY DEF Content, ContentBut, Heeded, HeededBut

\* The record of s changes.
LEMMA EditContentBut ==
  ASSUME NEW i, NEW s \in Streams, NEW r, Apt(r)
  PROVE  LET j == With(i, s, r)
         IN  /\ ContentBut(i, s) => ContentBut(j, s)
             /\ HeededBut(i, s) => HeededBut(j, s)
             /\ AllApt(i) => AllApt(j)
<1> SUFFICES ASSUME AllApt(i)
             PROVE  LET j == With(i, s, r)
                    IN  /\ ContentBut(i, s) => ContentBut(j, s)
                        /\ HeededBut(i, s) => HeededBut(j, s)
                        /\ AllApt(j)
  BY ContentFacts
<1> DEFINE j == With(i, s, r)
<1>1. /\ j \in InnerRecord /\ j.streams[s] = r /\ Elsewhere(i, j, s)
      /\ j.flow = i.flow /\ j.capacityQ = i.capacityQ /\ j.openQ = i.openQ
  BY WithFields DEF AllApt, Apt, SameBooks
<1> HIDE DEF j
<1>2. AllApt(j)
  BY <1>1 DEF AllApt, Elsewhere
<1>3. \A t \in Streams : t # s => (Craves(j, t) <=> Craves(i, t))
  BY <1>1 DEF Craves, Elsewhere
<1>4. Spent(j) <=> Spent(i)
  BY <1>1 DEF Spent
<1>5. ContentBut(i, s) => ContentBut(j, s)
  BY <1>1, <1>2, <1>3, <1>4 DEF ContentBut, HeededBut
<1>6. HeededBut(i, s) => HeededBut(j, s)
  BY <1>1, <1>2, <1>3 DEF HeededBut
<1> QED
  BY <1>2, <1>5, <1>6 DEF j

\* The record of s changes and s gets no hungrier.
LEMMA EditSoftens ==
  ASSUME NEW i, NEW s \in Streams, NEW r, AllApt(i), Apt(r), Hungry(r) => Hungry(i.streams[s])
  PROVE  LET j == With(i, s, r)
         IN  Softens(i, j) /\ j.streams[s] = r /\ j.openQ = i.openQ
<1> DEFINE j == With(i, s, r)
<1>1. /\ j \in InnerRecord /\ j.streams[s] = r /\ Elsewhere(i, j, s)
      /\ j.flow = i.flow /\ j.capacityQ = i.capacityQ /\ j.openQ = i.openQ
  BY WithFields DEF AllApt, Apt, SameBooks
<1> HIDE DEF j
<1>2. Softens(i, j)
  BY <1>1 DEF Softens, Elsewhere
<1> QED
  BY <1>1, <1>2 DEF j

\* Queues other than those of capacity and of opening say nothing here.
LEMMA SameSoftens ==
  ASSUME NEW i, NEW j \in InnerRecord, j.streams = i.streams, j.flow = i.flow,
         j.capacityQ = i.capacityQ, j.openQ = i.openQ
  PROVE  Softens(i, j)
BY DEF Softens


----------------------------------------------------------------------------
(* Giving capacity away.                                                   *)

LEMMA AptFacts ==
  ASSUME NEW r, Apt(r)
  PROVE  /\ r \in StreamRecord /\ r.flow \in Flow /\ r.state \in States
         /\ r.flow.window \in Int /\ r.flow.available \in Nat
         /\ r.requested \in Nat /\ r.buffered \in Nat /\ r.buffered <= r.requested
         /\ WindowSize(r.flow) \in 0 .. MaxWindow
         /\ Wanted(r) \in Nat /\ Wanted(r) <= r.requested
<1>1. /\ r \in StreamRecord /\ r.flow \in Flow /\ r.state \in States
      /\ r.requested \in Int /\ r.buffered \in Int
  BY DEF Apt, StreamRecord
<1>2. r.flow.window \in Int /\ r.flow.available \in Int
  BY <1>1 DEF Flow
<1>3. WindowSize(r.flow) \in 0 .. MaxWindow
  BY <1>2, MaxWindowAssumption DEF Apt, WindowSize, AsSize
<1>4. Wanted(r) \in {r.requested, r.buffered}
  BY DEF Wanted
<1> QED
  BY <1>1, <1>2, <1>3, <1>4 DEF Apt

\* A share changes: what the stream wants does not.
LEMMA ShareApt ==
  ASSUME NEW r, Apt(r), NEW flow \in Flow, flow.window = r.flow.window,
         flow.available >= 0
  PROVE  LET q == [r EXCEPT !.flow = flow]
         IN  /\ Apt(q) /\ q.flow = flow
             /\ Wanted(q) = Wanted(r) /\ WindowSize(q.flow) = WindowSize(r.flow)
             /\ CanSendData(q) <=> CanSendData(r)
             /\ q.state = r.state /\ q.buffered = r.buffered /\ q.requested = r.requested
             /\ q.place = r.place
<1> DEFINE q == [r EXCEPT !.flow = flow]
<1>1. /\ q \in StreamRecord /\ q.flow = flow /\ q.state = r.state
      /\ q.buffered = r.buffered /\ q.requested = r.requested /\ q.place = r.place
  BY AptFacts DEF StreamRecord
<1> HIDE DEF q
<1>2. Apt(q)
  BY <1>1, AptFacts DEF Apt
<1>3. Wanted(q) = Wanted(r) /\ (CanSendData(q) <=> CanSendData(r))
  BY <1>1 DEF Wanted, CanSendData
<1>4. WindowSize(q.flow) = WindowSize(r.flow)
  BY <1>1 DEF WindowSize
<1> QED
  BY <1>1, <1>2, <1>3, <1>4 DEF q

\* The arithmetic of try_assign_capacity: what the stream lacks is given, or
\* all there is.
LEMMA AssignArithmetic ==
  ASSUME NEW r, Apt(r), NEW fc \in Flow, NEW additional, NEW assign,
         additional = Lesser(r.requested, WindowSize(r.flow)) - r.flow.available,
         additional > 0, assign = Lesser(AsSize(fc.available), additional)
  PROVE  LET flow == AssignCapacity(r.flow, assign)
         IN  /\ assign \in Nat
             /\ flow \in Flow /\ flow.window = r.flow.window
             /\ flow.available = r.flow.available + assign
             /\ \/ fc.available > 0 /\ flow.available = Lesser(r.requested, WindowSize(r.flow))
                \/ /\ ClaimCapacity(fc, assign).available <= 0
                   /\ flow.available < r.requested /\ HasUnavailable(flow)
<1> DEFINE least == Lesser(r.requested, WindowSize(r.flow))
           flow == AssignCapacity(r.flow, assign)
<1>1. /\ r.flow \in Flow /\ r.flow.available \in Nat /\ r.requested \in Nat
      /\ WindowSize(r.flow) \in 0 .. MaxWindow /\ r.flow.window \in Int
  BY AptFacts
<1>2. fc.available \in Int
  BY DEF Flow
<1>3. least \in 0 .. MaxWindow /\ least <= r.requested /\ least <= WindowSize(r.flow)
  BY <1>1, MaxWindowAssumption DEF Lesser
<1>4. additional \in Nat /\ additional = least - r.flow.available
  BY <1>1, <1>3
<1> HIDE DEF least
<1>5. assign \in Nat /\ assign <= additional
  BY <1>2, <1>4 DEF Lesser, AsSize
<1>6. flow = [r.flow EXCEPT !.available = r.flow.available + assign]
  BY <1>1, <1>3, <1>4, <1>5, MaxWindowAssumption DEF AssignCapacity, CanAssign
<1>7. flow \in Flow /\ flow.window = r.flow.window
      /\ flow.available = r.flow.available + assign
  BY <1>1, <1>5, <1>6 DEF Flow
<1> HIDE DEF flow
<1>8. CASE AsSize(fc.available) < additional
  <2>1. assign = AsSize(fc.available)
    BY <1>8 DEF Lesser
  <2>2. ClaimCapacity(fc, assign).available <= 0
    BY <1>2, <1>5, <2>1, MaxWindowAssumption DEF ClaimCapacity, CanClaim, AsSize, Flow, MinWindow
  <2>3. flow.available < least
    BY <1>1, <1>3, <1>4, <1>5, <1>7, <1>8, <2>1
  <2>4. flow.window > flow.available /\ flow.window >= 0
    BY <1>1, <1>3, <1>5, <1>7, <2>3 DEF WindowSize, AsSize
  <2> QED
    BY <1>1, <1>3, <1>5, <1>7, <2>2, <2>3, <2>4 DEF HasUnavailable, flow
<1>9. CASE ~(AsSize(fc.available) < additional)
  <2>1. assign = additional
    BY <1>2, <1>4, <1>9 DEF Lesser, AsSize
  <2>2. fc.available > 0
    BY <1>2, <1>4, <1>9 DEF AsSize
  <2>3. flow.available = least
    BY <1>1, <1>3, <1>4, <1>7, <2>1
  <2> QED
    BY <1>5, <1>7, <2>2, <2>3 DEF flow, least
<1> QED
  BY <1>8, <1>9

\* A stream whose share is all it may have is not hungry.
LEMMA FullNotHungry ==
  ASSUME NEW q, Apt(q), q.flow.available >= Lesser(q.requested, WindowSize(q.flow))
  PROVE  ~Hungry(q)
<1>1. /\ q.flow.available \in Nat /\ WindowSize(q.flow) \in 0 .. MaxWindow
      /\ Wanted(q) \in Nat /\ q.requested \in Nat /\ Wanted(q) <= q.requested
  BY AptFacts
<1>2. Lesser(Wanted(q), WindowSize(q.flow)) <= Lesser(q.requested, WindowSize(q.flow))
  BY <1>1 DEF Lesser
<1>3. Lesser(Wanted(q), WindowSize(q.flow)) \in Int /\ Lesser(q.requested, WindowSize(q.flow)) \in Int
  BY <1>1 DEF Lesser
<1> QED
  BY <1>1, <1>2, <1>3 DEF Hungry

\* What try_assign_capacity does: it gives s all it wants, or all there is
\* and a place in pending_capacity.
LEMMA TryAssignFeeds ==
  ASSUME NEW i, NEW s \in Streams, AllApt(i)
  PROVE  LET j == TryAssign(i, s)
         IN  /\ AllApt(j) /\ j.openQ = i.openQ /\ Elsewhere(i, j, s)
             /\ j.streams[s].state = i.streams[s].state
             /\ j.streams[s].buffered = i.streams[s].buffered
             /\ j.streams[s].requested = i.streams[s].requested
             /\ j.streams[s].place = i.streams[s].place
             /\ \A t \in Streams : Contains(i.capacityQ, t) => Contains(j.capacityQ, t)
             /\ \/ j = i /\ ~Craves(i, s)
                \/ ~Spent(i) /\ ~Hungry(j.streams[s]) /\ j.capacityQ = i.capacityQ
                \/ Spent(j) /\ Contains(j.capacityQ, s)
<1> DEFINE r == i.streams[s]
           j == TryAssign(i, s)
           additional == Lesser(r.requested, WindowSize(r.flow)) - r.flow.available
           assign == Lesser(AsSize(i.flow.available), additional)
           flow == AssignCapacity(r.flow, assign)
           flow2 == ClaimCapacity(i.flow, assign)
           queue == IF flow.available < r.requested /\ HasUnavailable(flow)
                      THEN Push(i.capacityQ, s) ELSE i.capacityQ
           queue2 == IF r.buffered > 0 THEN Push(i.sendQ, s) ELSE i.sendQ
           q == [r EXCEPT !.flow = flow]
<1>1. /\ i \in InnerRecord /\ Apt(r) /\ i.flow \in Flow
      /\ i.capacityQ \in Seq(Streams) /\ i.sendQ \in Seq(Streams)
  BY DEF AllApt, InnerRecord
<1>2. /\ r.flow.available \in Nat /\ WindowSize(r.flow) \in 0 .. MaxWindow
      /\ Wanted(r) \in Nat /\ r.requested \in Nat /\ Wanted(r) <= r.requested
  BY <1>1, AptFacts
<1>3. CASE IsPendingOpen(i, s) \/ additional <= 0 \/ ~CanSendData(r)
  <2>1. j = i
    BY <1>3 DEF TryAssign
  <2>2. ~Craves(i, s)
    <3>1. CASE IsPendingOpen(i, s)
      BY <3>1 DEF Craves, IsPendingOpen
    <3>2. CASE ~CanSendData(r)
      BY <3>2 DEF Craves, Hungry
    <3>3. CASE additional <= 0
      <4>1. r.flow.available >= Lesser(r.requested, WindowSize(r.flow))
        BY <1>2, <3>3 DEF Lesser
      <4> QED
        BY <1>1, <4>1, FullNotHungry DEF Craves
    <3> QED
      BY <1>3, <3>1, <3>2, <3>3
  <2> QED
    BY <2>1, <2>2 DEF Elsewhere
<1>4. CASE ~(IsPendingOpen(i, s) \/ additional <= 0 \/ ~CanSendData(r))
  <2>1. j = [i EXCEPT !.streams[s].flow = flow, !.flow = flow2, !.capacityQ = queue,
                      !.sendQ = queue2]
    BY <1>4 DEF TryAssign
  <2>2. additional > 0
    BY <1>2, <1>4 DEF Lesser
  <2> HIDE DEF additional
  <2>3. /\ assign \in Nat /\ flow \in Flow /\ flow.window = r.flow.window
        /\ flow.available = r.flow.available + assign
        /\ \/ i.flow.available > 0 /\ flow.available = Lesser(r.requested, WindowSize(r.flow))
           \/ /\ flow2.available <= 0
              /\ flow.available < r.requested /\ HasUnavailable(flow)
    <3> HIDE DEF r
    <3> QED
      BY <1>1, <2>2, AssignArithmetic DEF additional
  <2> HIDE DEF assign
  <2>4. flow2 \in Flow
    BY <1>1, <2>3, FlowTypes
  <2> HIDE DEF flow, flow2
  <2>5. /\ queue \in Seq(Streams) /\ queue2 \in Seq(Streams)
        /\ \A t \in Streams : Contains(i.capacityQ, t) => Contains(queue, t)
        /\ flow.available < r.requested /\ HasUnavailable(flow) => Contains(queue, s)
    <3> DEFINE sendQ == i.sendQ
               capacityQ == i.capacityQ
    <3>1. sendQ \in Seq(Streams) /\ capacityQ \in Seq(Streams)
      BY <1>1
    <3> HIDE DEF sendQ, capacityQ
    <3>2. /\ Push(sendQ, s) \in Seq(Streams) /\ Push(capacityQ, s) \in Seq(Streams)
          /\ \A t \in Streams : Contains(Push(capacityQ, s), t) <=> Contains(capacityQ, t) \/ t = s
      BY <3>1, PushQueue
    <3> QED
      BY <3>1, <3>2 DEF sendQ, capacityQ
  <2>6. flow.available = Lesser(r.requested, WindowSize(r.flow)) =>
          ~(flow.available < r.requested /\ HasUnavailable(flow))
    BY <1>1, <1>2, <2>3, AptFacts DEF Lesser, HasUnavailable, WindowSize, AsSize
  <2>7. /\ Apt(q) /\ q.flow = flow /\ WindowSize(q.flow) = WindowSize(r.flow)
        /\ q.state = r.state /\ q.buffered = r.buffered /\ q.requested = r.requested
        /\ q.place = r.place
    <3>1. flow.available >= 0
      BY <1>2, <2>3
    <3> HIDE DEF r
    <3> QED
      BY <1>1, <2>3, <3>1, ShareApt
  <2>8. j = [With(i, s, q) EXCEPT !.flow = flow2, !.capacityQ = queue, !.sendQ = queue2]
    BY <1>1, <2>1 DEF With, InnerRecord
  <2>9. queue = i.capacityQ \/ (flow.available < r.requested /\ HasUnavailable(flow))
    OBVIOUS
  <2> HIDE DEF j, q, queue, queue2
  <2> DEFINE w == With(i, s, q)
  <2>10. w \in InnerRecord /\ w.streams[s] = q /\ Elsewhere(i, w, s) /\ SameBooks(i, w)
    BY <1>1, <2>7, WithFields DEF Apt
  <2>11. /\ j \in InnerRecord /\ j.streams = w.streams /\ j.openQ = i.openQ
         /\ j.capacityQ = queue /\ j.flow = flow2
    <3>1. j = [w EXCEPT !.flow = flow2, !.capacityQ = queue, !.sendQ = queue2]
      BY <2>8
    <3> HIDE DEF w
    <3>2. j \in InnerRecord
      BY <2>4, <2>5, <2>10, <3>1 DEF InnerRecord
    <3>3. j.streams = w.streams /\ j.openQ = w.openQ /\ j.capacityQ = queue /\ j.flow = flow2
      BY <2>10, <3>1 DEF InnerRecord
    <3> QED
      BY <2>10, <3>2, <3>3 DEF SameBooks
  <2> HIDE DEF w
  <2>12. j.streams[s] = q /\ Elsewhere(i, j, s)
    BY <2>10, <2>11 DEF Elsewhere
  <2>13. AllApt(j)
    BY <2>7, <2>11, <2>12 DEF AllApt, Elsewhere
  <2>14. CASE i.flow.available > 0 /\ flow.available = Lesser(r.requested, WindowSize(r.flow))
    <3>1. ~Hungry(q)
      <4>1. q.flow.available >= Lesser(q.requested, WindowSize(q.flow))
        BY <1>2, <2>7, <2>14 DEF Lesser
      <4> QED
        BY <2>7, <4>1, FullNotHungry
    <3>2. ~Spent(i)
      BY <1>1, <2>14 DEF Spent, Flow
    <3>3. queue = i.capacityQ
      BY <2>6, <2>9, <2>14
    <3> QED
      BY <2>5, <2>7, <2>11, <2>12, <2>13, <3>1, <3>2, <3>3 DEF j
  <2>15. CASE flow2.available <= 0 /\ flow.available < r.requested /\ HasUnavailable(flow)
    BY <2>5, <2>7, <2>11, <2>12, <2>13, <2>15 DEF j, Spent
  <2> QED
    BY <2>3, <2>14, <2>15
<1> QED
  BY <1>3, <1>4

\* Only s could be left out before try_assign_capacity, and nobody is after.
LEMMA TryAssignContent ==
  ASSUME NEW i, NEW s \in Streams, ContentBut(i, s)
  PROVE  Content(TryAssign(i, s))
<1> DEFINE j == TryAssign(i, s)
<1>1. AllApt(i)
  BY ContentFacts
<1>2. /\ AllApt(j) /\ j.openQ = i.openQ /\ Elsewhere(i, j, s)
      /\ \A t \in Streams : Contains(i.capacityQ, t) => Contains(j.capacityQ, t)
      /\ \/ j = i /\ ~Craves(i, s)
         \/ ~Spent(i) /\ ~Hungry(j.streams[s])
         \/ Spent(j) /\ Contains(j.capacityQ, s)
  BY <1>1, TryAssignFeeds
<1> HIDE DEF j
<1>3. \A t \in Streams : t # s => (Craves(j, t) <=> Craves(i, t))
  BY <1>2 DEF Craves, Elsewhere
<1>4. CASE j = i /\ ~Craves(i, s)
  BY <1>4, ContentFrom DEF j
<1>5. CASE ~Spent(i) /\ ~Hungry(j.streams[s])
  <2>1. \A t \in Streams : ~Craves(j, t)
    BY <1>3, <1>5 DEF ContentBut, Craves
  <2> QED
    BY <1>2, <2>1 DEF Content, Heeded, j
<1>6. CASE Spent(j) /\ Contains(j.capacityQ, s)
  <2>1. \A t \in Streams : Craves(j, t) => Contains(j.capacityQ, t)
    BY <1>2, <1>3, <1>6 DEF ContentBut, HeededBut
  <2> QED
    BY <1>2, <1>6, <2>1 DEF Content, Heeded, j
<1> QED
  BY <1>2, <1>4, <1>5, <1>6


\* One turn of the loop of assign_connection_capacity: the stream at the head
\* gets what it wants, or all there is.
LEMMA AssignNextFeeds ==
  ASSUME NEW i, Heeded(i)
  PROVE  LET j == AssignNext(i)
         IN  /\ Heeded(j)
             /\ Spent(i) => j = i
             /\ Spent(j) \/ j.capacityQ = <<>> \/ Len(j.capacityQ) = Len(i.capacityQ) - 1
<1> DEFINE s == Head(i.capacityQ)
           j == [i EXCEPT !.capacityQ = Tail(@)]
<1>1. i \in InnerRecord /\ AllApt(i)
  BY DEF Heeded, AllApt
<1>2. CASE i.flow.available <= 0 \/ i.capacityQ = <<>>
  BY <1>2 DEF AssignNext, Spent
<1>3. CASE ~(i.flow.available <= 0 \/ i.capacityQ = <<>>)
  <2>1. /\ s \in Streams /\ Tail(i.capacityQ) \in Seq(Streams)
        /\ Len(Tail(i.capacityQ)) = Len(i.capacityQ) - 1
        /\ \A t \in Streams : Contains(i.capacityQ, t) => t = s \/ Contains(Tail(i.capacityQ), t)
    <3> DEFINE q == i.capacityQ
    <3>1. q \in Seq(Streams) /\ q # <<>>
      BY <1>1, <1>3 DEF InnerRecord
    <3> HIDE DEF q
    <3>2. /\ Head(q) \in Streams /\ Tail(q) \in Seq(Streams) /\ Len(Tail(q)) = Len(q) - 1
          /\ \A t \in Streams : Contains(q, t) => t = Head(q) \/ Contains(Tail(q), t)
      BY <3>1, TailQueue
    <3> QED
      BY <3>2 DEF q
  <2>2. /\ j \in InnerRecord /\ j.streams = i.streams /\ j.flow = i.flow
        /\ j.openQ = i.openQ /\ j.capacityQ = Tail(i.capacityQ)
    BY <1>1, <2>1 DEF InnerRecord
  <2>3. AssignNext(i) = IF CanSendData(i.streams[s])
                          THEN Transition(j, TryAssign(j, s), s) ELSE j
    BY <1>3 DEF AssignNext
  <2>4. ~Spent(i)
    BY <1>3 DEF Spent
  <2> HIDE DEF j, s
  <2>5. AllApt(j) /\ \A t \in Streams : t # s /\ Craves(j, t) => Contains(j.capacityQ, t)
    BY <1>1, <2>1, <2>2 DEF Heeded, AllApt, Craves
  <2>6. CASE ~CanSendData(i.streams[s])
    <3>1. ~Craves(j, s)
      BY <2>2, <2>6 DEF Craves, Hungry
    <3>2. Heeded(j)
      BY <2>5, <3>1 DEF Heeded
    <3> QED
      BY <2>1, <2>2, <2>3, <2>4, <2>6, <3>2
  <2>7. CASE CanSendData(i.streams[s])
    <3> DEFINE k == TryAssign(j, s)
    <3>1. /\ AllApt(k) /\ k.openQ = j.openQ /\ Elsewhere(j, k, s)
          /\ k.streams[s].state = j.streams[s].state
          /\ k.streams[s].buffered = j.streams[s].buffered
          /\ \A t \in Streams : Contains(j.capacityQ, t) => Contains(k.capacityQ, t)
          /\ \/ k = j /\ ~Craves(j, s)
             \/ ~Hungry(k.streams[s]) /\ k.capacityQ = j.capacityQ
             \/ Spent(k) /\ Contains(k.capacityQ, s)
      BY <2>1, <2>5, TryAssignFeeds
    <3> HIDE DEF k
    <3>2. ~IsFlushed(k.streams[s])
      <4>1. i.streams[s].state \in States
        BY <1>1, <2>1 DEF InnerRecord, StreamRecord
      <4>2. IsSendStreaming(i.streams[s].state) => ~IsClosed(i.streams[s].state)
        BY <4>1, StateKinds
      <4>3. i.streams[s].buffered > 0 => i.streams[s].buffered # 0
        OBVIOUS
      <4> QED
        BY <2>2, <2>7, <3>1, <4>2, <4>3 DEF CanSendData, IsFlushed
    <3>3. IsPendingReset(j, s) \in BOOLEAN
      BY DEF IsPendingReset, Contains
    <3>4. AssignNext(i) = k
      BY <2>1, <2>3, <2>7, <3>1, <3>2, <3>3, TransitionIdle DEF Transition, AllApt, k
    <3>5. \A t \in Streams : t # s /\ Craves(k, t) => Contains(k.capacityQ, t)
      BY <2>5, <3>1 DEF Craves, Elsewhere
    <3>6. Craves(k, s) => Contains(k.capacityQ, s)
      BY <3>1 DEF Craves
    <3>7. Heeded(k)
      BY <3>1, <3>5, <3>6 DEF Heeded
    <3>8. Spent(k) \/ k.capacityQ = j.capacityQ
      BY <3>1
    <3> QED
      BY <2>1, <2>2, <2>4, <3>4, <3>7, <3>8
  <2> QED
    BY <2>6, <2>7
<1> QED
  BY <1>2, <1>3

\* The loop ends with nothing to give, or with nobody who waits.
LEMMA AssignPendingContent ==
  ASSUME NEW i, Heeded(i)
  PROVE  Content(AssignPending(i))
<1> DEFINE n == Len(i.capacityQ)
           step == [k \in Nat |-> [j \in InnerRecord |-> AssignNext(j)]]
           good == [k \in 0 .. n |-> {j \in InnerRecord :
                      Heeded(j) /\ (Spent(j) \/ Len(j.capacityQ) <= n - k)}]
<1>1. i \in InnerRecord /\ n \in Nat
  BY DEF Heeded, AllApt, InnerRecord
<1>2. i \in good[0]
  BY <1>1
<1>3. ASSUME NEW k \in 1 .. n, NEW j \in good[k - 1]
      PROVE  step[k][j] \in good[k]
  <2>1. k \in Nat /\ k - 1 \in 0 .. n /\ k \in 0 .. n
    BY <1>1
  <2>2. j \in InnerRecord /\ Heeded(j) /\ (Spent(j) \/ Len(j.capacityQ) <= n - (k - 1))
    BY <2>1
  <2>7. step[k][j] = AssignNext(j)
    BY <2>1, <2>2
  <2> DEFINE l == AssignNext(j)
  <2>3. /\ Heeded(l) /\ (Spent(j) => l = j)
        /\ Spent(l) \/ l.capacityQ = <<>> \/ Len(l.capacityQ) = Len(j.capacityQ) - 1
    BY <2>2, AssignNextFeeds
  <2> HIDE DEF l
  <2>4. l \in InnerRecord
    BY <2>3 DEF Heeded, AllApt
  <2>5. Len(j.capacityQ) \in Nat /\ (l.capacityQ = <<>> => Len(l.capacityQ) = 0)
    BY <2>2 DEF InnerRecord
  <2>6. Spent(l) \/ Len(l.capacityQ) <= n - k
    BY <1>1, <2>2, <2>3, <2>5
  <2> QED
    BY <2>1, <2>3, <2>4, <2>6, <2>7 DEF l
<1>4. Leads(step, good, n)
  <2> HIDE DEF step, good
  <2> QED
    BY <1>3 DEF Leads
<1>5. Loop(step, i, n) \in good[n]
  <2> HIDE DEF step, good
  <2> QED
    BY <1>1, <1>2, <1>4, LoopLeads
<1> DEFINE j == AssignPending(i)
<1>6. j \in InnerRecord /\ Heeded(j) /\ (Spent(j) \/ Len(j.capacityQ) <= 0)
  <2>1. j = Loop(step, i, n)
    BY DEF AssignPending
  <2> HIDE DEF j
  <2> QED
    BY <1>1, <1>5, <2>1
<1> HIDE DEF j
<1>7. Len(j.capacityQ) <= 0 => \A t \in Streams : ~Craves(j, t)
  <2>1. Len(j.capacityQ) <= 0 => j.capacityQ = <<>>
    BY <1>6 DEF InnerRecord
  <2>2. j.capacityQ = <<>> => \A t \in Streams : ~Contains(j.capacityQ, t)
    BY EmptyQueue
  <2> QED
    BY <1>6, <2>1, <2>2 DEF Heeded
<1> QED
  BY <1>6, <1>7 DEF Content, j

\* assign_connection_capacity, where every stream that wants some is queued.
LEMMA AssignConnectionContent ==
  ASSUME NEW i, Heeded(i), NEW inc \in Int
  PROVE  Content(AssignConnection(i, inc))
<1> DEFINE flow == AssignCapacity(i.flow, inc)
           j == [i EXCEPT !.flow = flow]
<1>1. i \in InnerRecord /\ AllApt(i)
  BY DEF Heeded, AllApt
<1>2. flow \in Flow
  BY <1>1, FlowTypes DEF InnerRecord
<1>3. AssignConnection(i, inc) = AssignPending(j)
  BY <1>1 DEF AssignConnection, InnerRecord
<1> HIDE DEF flow
<1>4. /\ j \in InnerRecord /\ j.streams = i.streams /\ j.capacityQ = i.capacityQ
      /\ j.openQ = i.openQ
  BY <1>1, <1>2 DEF InnerRecord
<1> HIDE DEF j
<1>5. Heeded(j)
  BY <1>1, <1>4 DEF Heeded, AllApt, Craves
<1> QED
  BY <1>3, <1>5, AssignPendingContent


\* s gives up sz octets, and wants no more than is left.
LEMMA ReclaimContent ==
  ASSUME NEW i, NEW s \in Streams, ContentBut(i, s), NEW sz \in Int,
         sz <= i.streams[s].flow.available, sz > 0 \/ ~Craves(i, s),
         LET r == i.streams[s]
         IN  \/ Contains(i.openQ, s)
             \/ ~CanSendData(r)
             \/ Lesser(Wanted(r), WindowSize(r.flow)) <= r.flow.available - sz
  PROVE  Content(Reclaim(i, s, sz))
<1> DEFINE r == i.streams[s]
           flow == ClaimCapacity(r.flow, sz)
           q == [r EXCEPT !.flow = flow]
           j == With(i, s, q)
<1>1. CASE sz <= 0
  BY <1>1, ContentFrom DEF Reclaim
<1>2. CASE ~(sz <= 0)
  <2>1. i \in InnerRecord /\ AllApt(i) /\ Apt(r)
    BY ContentFacts DEF AllApt
  <2>2. r.flow \in Flow /\ r.flow.available \in Nat /\ r.flow.window \in Int
    BY <2>1, AptFacts
  <2>3. flow = [r.flow EXCEPT !.available = r.flow.available - sz]
    BY <2>2, MaxWindowAssumption DEF ClaimCapacity, CanClaim, MinWindow
  <2>4. /\ flow \in Flow /\ flow.window = r.flow.window
        /\ flow.available = r.flow.available - sz /\ flow.available >= 0
    BY <2>2, <2>3 DEF Flow
  <2>5. Reclaim(i, s, sz) = AssignConnection(j, sz)
    BY <1>2, <2>1 DEF Reclaim, With, InnerRecord
  <2> HIDE DEF flow
  <2>6. /\ Apt(q) /\ q.flow = flow /\ Wanted(q) = Wanted(r)
        /\ WindowSize(q.flow) = WindowSize(r.flow) /\ (CanSendData(q) <=> CanSendData(r))
    <3> HIDE DEF r
    <3> QED
      BY <2>1, <2>4, ShareApt
  <2>7. j.streams[s] = q /\ j.openQ = i.openQ
    BY <2>1, <2>6, WithFields DEF SameBooks, Apt
  <2>8. ContentBut(j, s)
    BY <2>6, EditContentBut
  <2> HIDE DEF q, j
  <2>9. ~Craves(j, s)
    <3>1. CASE Contains(i.openQ, s)
      BY <2>7, <3>1 DEF Craves
    <3>2. CASE ~CanSendData(r)
      BY <2>6, <2>7, <3>2 DEF Craves, Hungry
    <3>3. CASE Lesser(Wanted(r), WindowSize(r.flow)) <= r.flow.available - sz
      <4>1. Lesser(Wanted(q), WindowSize(q.flow)) <= q.flow.available
        BY <2>4, <2>6, <3>3
      <4>2. Lesser(Wanted(q), WindowSize(q.flow)) \in Int /\ q.flow.available \in Int
        BY <2>6, AptFacts DEF Lesser
      <4>3. ~Hungry(q)
        BY <4>1, <4>2 DEF Hungry
      <4> QED
        BY <2>7, <4>3 DEF Craves
    <3> QED
      BY <3>1, <3>2, <3>3
  <2>10. Heeded(j)
    BY <2>8, <2>9, ContentFacts, ContentFrom
  <2> QED
    BY <2>5, <2>10, AssignConnectionContent
<1> QED
  BY <1>1, <1>2

\* A stream that sends no DATA any more gives up all it has.
LEMMA ReclaimAllContent ==
  ASSUME NEW i, NEW s \in Streams, ContentBut(i, s),
         Contains(i.openQ, s) \/ ~CanSendData(i.streams[s])
  PROVE  Content(ReclaimAll(i, s))
<1>1. Apt(i.streams[s])
  BY ContentFacts DEF AllApt
<1>2. i.streams[s].flow.available \in Int
  BY <1>1, AptFacts
<1>3. ~Craves(i, s)
  BY DEF Craves, Hungry
<1> QED
  BY <1>2, <1>3, ReclaimContent DEF ReclaimAll

\* A stream that sends what is buffered and no more keeps as much.
LEMMA ReclaimReservedContent ==
  ASSUME NEW i, NEW s \in Streams, Content(i), ~IsSendStreaming(i.streams[s].state)
  PROVE  Content(ReclaimReserved(i, s))
<1> DEFINE r == i.streams[s]
           sz == r.flow.available - r.buffered
<1>1. Apt(r)
  BY ContentFacts DEF AllApt
<1> HIDE DEF r
<1>2. /\ r.flow.available \in Nat /\ r.buffered \in Nat /\ WindowSize(r.flow) \in 0 .. MaxWindow
  BY <1>1, AptFacts
<1>3. sz \in Int /\ sz <= r.flow.available
  BY <1>2
<1>4. Lesser(Wanted(r), WindowSize(r.flow)) <= r.flow.available - sz
  <2>1. Wanted(r) = r.buffered
    BY DEF Wanted, r
  <2> QED
    BY <1>2, <2>1, MaxWindowAssumption DEF Lesser
<1>5. CASE sz <= 0
  BY <1>5 DEF ReclaimReserved, Reclaim, r
<1>6. CASE sz > 0
  BY <1>3, <1>4, <1>6, ContentFacts, ReclaimContent DEF ReclaimReserved, r
<1> QED
  BY <1>3, <1>5, <1>6

\* Asking for another amount.
LEMMA AskingApt ==
  ASSUME NEW r, Apt(r), NEW wanted \in Int, r.buffered <= wanted
  PROVE  LET q == Asking(r, wanted)
         IN  /\ Apt(q) /\ q.requested = wanted /\ q.flow = r.flow
             /\ q.state = r.state /\ q.buffered = r.buffered
             /\ wanted <= r.requested => (Hungry(q) => Hungry(r))
<1> DEFINE q == Asking(r, wanted)
<1>1. r \in StreamRecord
  BY AptFacts
<1>2. /\ q \in StreamRecord /\ q.requested = wanted /\ q.flow = r.flow
      /\ q.state = r.state /\ q.buffered = r.buffered
  BY <1>1, AskingFields
<1> HIDE DEF q
<1>3. Apt(q)
  BY <1>2 DEF Apt
<1>4. /\ Wanted(q) \in Nat /\ Wanted(r) \in Nat /\ WindowSize(r.flow) \in Nat
      /\ r.flow.available \in Nat /\ r.requested \in Nat
  BY <1>3, AptFacts, MaxWindowAssumption
<1>5. wanted <= r.requested => Wanted(q) <= Wanted(r)
  BY <1>2, <1>4 DEF Wanted
<1>6. wanted <= r.requested =>
        Lesser(Wanted(q), WindowSize(r.flow)) <= Lesser(Wanted(r), WindowSize(r.flow))
  BY <1>4, <1>5 DEF Lesser
<1>7. Lesser(Wanted(q), WindowSize(r.flow)) \in Nat /\ Lesser(Wanted(r), WindowSize(r.flow)) \in Nat
  BY <1>4 DEF Lesser
<1>8. wanted <= r.requested => (Hungry(q) => Hungry(r))
  BY <1>2, <1>4, <1>6, <1>7 DEF Hungry, CanSendData
<1> QED
  BY <1>2, <1>3, <1>8 DEF q

LEMMA ReserveContent ==
  ASSUME NEW i, NEW s \in Streams, Content(i), NEW capacity \in Nat
  PROVE  Content(ReserveCapacity(i, s, capacity))
<1> DEFINE r == i.streams[s]
           wanted == capacity + r.buffered
           q == Asking(r, wanted)
           j == With(i, s, q)
<1>1. i \in InnerRecord /\ AllApt(i) /\ Apt(r)
  BY ContentFacts DEF AllApt
<1>2. /\ r.buffered \in Nat /\ r.requested \in Nat /\ r.flow.available \in Nat
      /\ WindowSize(r.flow) \in Nat
  <2> HIDE DEF r
  <2> QED
    BY <1>1, AptFacts, MaxWindowAssumption
<1>3. wanted \in Nat /\ wanted \in Int /\ r.buffered <= wanted
  BY <1>2
<1>4. j = [i EXCEPT !.streams[s].requested = wanted]
  BY <1>1 DEF With, Asking, InnerRecord
<1>5. /\ Apt(q) /\ q.requested = wanted /\ q.flow = r.flow
      /\ q.state = r.state /\ q.buffered = r.buffered
      /\ wanted <= r.requested => (Hungry(q) => Hungry(r))
  <2> HIDE DEF r, wanted
  <2> QED
    BY <1>1, <1>3, AskingApt
<1> HIDE DEF q
<1>6. CASE wanted = r.requested
  BY <1>2, <1>3, <1>6 DEF ReserveCapacity
<1>7. CASE wanted < r.requested
  <2> DEFINE sz == r.flow.available - wanted
  <2>1. ReserveCapacity(i, s, capacity) = Reclaim(j, s, sz)
    BY <1>2, <1>3, <1>4, <1>7 DEF ReserveCapacity
  <2>2. wanted <= r.requested
    BY <1>2, <1>3, <1>7
  <2>3. Softens(i, j) /\ j.streams[s] = q
    BY <1>1, <1>5, <2>2, EditSoftens
  <2> HIDE DEF j
  <2>4. Content(j)
    BY <1>1, <2>3, SoftensKeeps
  <2>5. sz \in Int /\ sz <= q.flow.available
    BY <1>2, <1>3, <1>5
  <2>6. Lesser(Wanted(q), WindowSize(q.flow)) <= q.flow.available - sz
    <3>1. Wanted(q) \in Nat /\ Wanted(q) <= wanted
      BY <1>5, AptFacts
    <3> HIDE DEF wanted
    <3>2. q.flow.available - sz = wanted
      BY <1>2, <1>3, <1>5
    <3> QED
      BY <1>2, <1>3, <1>5, <3>1, <3>2 DEF Lesser
  <2>7. CASE sz <= 0
    BY <2>1, <2>4, <2>7 DEF Reclaim
  <2>8. CASE sz > 0
    <3> HIDE DEF sz
    <3>1. ContentBut(j, s)
      BY <2>4, ContentFacts
    <3> QED
      BY <2>1, <2>3, <2>5, <2>6, <2>8, <3>1, ReclaimContent
  <2> QED
    BY <2>5, <2>7, <2>8
<1>8. CASE ~(wanted = r.requested) /\ ~(wanted < r.requested)
  <2>1. ReserveCapacity(i, s, capacity) = IF IsSendClosed(r.state) THEN i ELSE TryAssign(j, s)
    BY <1>4, <1>8 DEF ReserveCapacity
  <2>2. ContentBut(j, s)
    BY <1>5, ContentFacts, EditContentBut
  <2> HIDE DEF j
  <2> QED
    BY <2>1, <2>2, TryAssignContent
<1> QED
  BY <1>6, <1>7, <1>8


----------------------------------------------------------------------------
(* What the handlers of a stream leave to be given away.                   *)

LEMMA ClosedNotStreaming ==
  ASSUME NEW st \in States, IsClosed(st)
  PROVE  ~IsSendStreaming(st)
BY StateKinds

\* No transition but send_open starts the sending of DATA.
LEMMA NoNewStreaming ==
  ASSUME NEW st \in States
  PROVE  /\ \A eos \in BOOLEAN :
              IsSendStreaming(RecvOpen(st, eos, FALSE)) => IsSendStreaming(st)
         /\ IsSendStreaming(RecvClose(st)) => IsSendStreaming(st)
         /\ ~IsSendStreaming(SendClose(st))
<1>1. ASSUME NEW eos \in BOOLEAN
      PROVE  IsSendStreaming(RecvOpen(st, eos, FALSE)) => IsSendStreaming(st)
  BY SMTT(30) DEF States, Half, AwaitingHeaders, Streaming, EndStream, Idle, ReservedLocal,
         ReservedRemote, Open, HalfClosedLocal, HalfClosedRemote, Closed, HasLocal,
         IsSendStreaming, HasRemote, RecvOpen, CanRecvOpen, IsRecvHeaders
<1>2. IsSendStreaming(RecvClose(st)) => IsSendStreaming(st)
  BY SMTT(30) DEF States, Half, AwaitingHeaders, Streaming, EndStream, Idle, ReservedLocal,
         ReservedRemote, Open, HalfClosedLocal, HalfClosedRemote, Closed, HasLocal,
         IsSendStreaming, RecvClose
<1>3. ~IsSendStreaming(SendClose(st))
  BY SMTT(30) DEF States, Half, AwaitingHeaders, Streaming, EndStream, Idle, ReservedLocal,
         ReservedRemote, Open, HalfClosedLocal, HalfClosedRemote, Closed, HasLocal,
         IsSendStreaming, SendClose
<1> QED
  BY <1>1, <1>2, <1>3

\* What is asked, buffered and assigned stays, and no DATA may start.
LEMMA HungerStays ==
  ASSUME NEW r, Apt(r), NEW q \in StreamRecord, q.flow = r.flow,
         q.requested = r.requested, q.buffered = r.buffered,
         IsSendStreaming(q.state) => IsSendStreaming(r.state)
  PROVE  Apt(q) /\ (Hungry(q) => Hungry(r))
<1>1. Apt(q)
  BY DEF Apt
<1>2. /\ r.requested \in Nat /\ r.buffered \in Nat /\ r.buffered <= r.requested
      /\ WindowSize(r.flow) \in Nat /\ r.flow.available \in Nat
  BY AptFacts, MaxWindowAssumption
<1>3. CASE IsSendStreaming(q.state) <=> IsSendStreaming(r.state)
  BY <1>1, <1>3 DEF Hungry, CanSendData, Wanted
<1>4. CASE ~IsSendStreaming(q.state) /\ IsSendStreaming(r.state)
  <2>1. CanSendData(r) /\ Wanted(r) = r.requested /\ Wanted(q) = r.buffered
    BY <1>4 DEF CanSendData, Wanted
  <2>2. /\ Lesser(Wanted(q), WindowSize(r.flow)) <= Lesser(Wanted(r), WindowSize(r.flow))
        /\ Lesser(Wanted(q), WindowSize(r.flow)) \in Nat
        /\ Lesser(Wanted(r), WindowSize(r.flow)) \in Nat
    BY <1>2, <2>1 DEF Lesser
  <2> QED
    BY <1>1, <1>2, <2>1, <2>2 DEF Hungry
<1> QED
  BY <1>1, <1>3, <1>4

\* A transition of the state that starts no DATA.
LEMMA StateSoftens ==
  ASSUME NEW i, AllApt(i), NEW s \in Streams, NEW st \in States,
         IsSendStreaming(st) => IsSendStreaming(i.streams[s].state)
  PROVE  LET j == [i EXCEPT !.streams[s].state = st]
         IN  /\ Softens(i, j) /\ AllApt(j)
             /\ j.streams[s] = WithState(i.streams[s], st) /\ j.streams[s].state = st
             /\ j.openQ = i.openQ
<1> DEFINE r == i.streams[s]
           q == WithState(r, st)
           j == [i EXCEPT !.streams[s].state = st]
<1>1. i \in InnerRecord /\ Apt(r) /\ r \in StreamRecord
  BY DEF AllApt, Apt
<1>2. q \in StreamRecord
  <2>1. Frame("data", 0, TRUE) \in Frames
    BY MaxWindowAssumption DEF Frames, Frame, Kinds
  <2> QED
    BY <1>1, <2>1, RecordTypes
<1>3. /\ q.flow = r.flow /\ q.requested = r.requested /\ q.buffered = r.buffered
      /\ q.state = st
  BY <1>1, WithStateFields
<1>4. j = With(i, s, q)
  BY <1>1 DEF With, WithState, InnerRecord
<1> HIDE DEF q, j
<1>5. Apt(q) /\ (Hungry(q) => Hungry(r))
  <2>1. IsSendStreaming(q.state) => IsSendStreaming(r.state)
    BY <1>3
  <2> HIDE DEF r
  <2> QED
    BY <1>1, <1>2, <1>3, <2>1, HungerStays
<1>6. Softens(i, j) /\ j.streams[s] = q /\ j.openQ = i.openQ
  <2>1. LET w == With(i, s, q)
        IN  Softens(i, w) /\ w.streams[s] = q /\ w.openQ = i.openQ
    BY <1>5, EditSoftens
  <2> QED
    BY <1>4, <2>1
<1> QED
  BY <1>3, <1>6, SoftensKeeps DEF q, j

\* A user's handle goes, or comes.
LEMMA HandleSoftens ==
  ASSUME NEW i, AllApt(i), NEW s \in Streams, NEW handle \in Handle
  PROVE  LET j == [i EXCEPT !.streams[s].handle = handle]
         IN  Softens(i, j) /\ AllApt(j)
<1> DEFINE r == i.streams[s]
           q == [r EXCEPT !.handle = handle]
           j == [i EXCEPT !.streams[s].handle = handle]
<1>1. i \in InnerRecord /\ Apt(r) /\ r \in StreamRecord
  BY DEF AllApt, Apt
<1>2. /\ q \in StreamRecord /\ q.flow = r.flow /\ q.requested = r.requested
      /\ q.buffered = r.buffered /\ q.state = r.state
  BY <1>1 DEF StreamRecord
<1>3. j = With(i, s, q)
  BY <1>1 DEF With, InnerRecord
<1> HIDE DEF q, j
<1>4. Apt(q) /\ (Hungry(q) => Hungry(r))
  BY <1>1, <1>2, HungerStays
<1>5. Softens(i, j)
  BY <1>3, <1>4, EditSoftens
<1> QED
  BY <1>5, SoftensKeeps DEF j

LEMMA ScheduleSoftens ==
  ASSUME NEW i \in InnerRecord, NEW s \in Streams
  PROVE  LET j == ScheduleSend(i, s)
         IN  Softens(i, j) /\ j.streams = i.streams /\ j.openQ = i.openQ
<1> DEFINE j == ScheduleSend(i, s)
           sendQ == i.sendQ
           queue == Push(sendQ, s)
<1>1. sendQ \in Seq(Streams)
  BY DEF InnerRecord
<1> HIDE DEF sendQ
<1>2. queue \in Seq(Streams)
  BY <1>1, PushQueue
<1>3. j \in {i, [i EXCEPT !.sendQ = queue]}
  BY DEF ScheduleSend, sendQ, InnerRecord
<1> HIDE DEF queue, j
<1>4. /\ j \in InnerRecord /\ j.streams = i.streams /\ j.flow = i.flow
      /\ j.capacityQ = i.capacityQ /\ j.openQ = i.openQ
  BY <1>2, <1>3 DEF InnerRecord
<1> QED
  BY <1>4, SameSoftens DEF j

LEMMA BufferSoftens ==
  ASSUME NEW i, AllApt(i), NEW s \in Streams, NEW frame \in Frames
  PROVE  LET j == Buffer(i, s, frame)
         IN  /\ Softens(i, j) /\ AllApt(j) /\ j.openQ = i.openQ
             /\ j.streams[s] = Queued(i.streams[s], frame)
<1> DEFINE r == i.streams[s]
           q == Queued(r, frame)
           j == Buffer(i, s, frame)
<1>1. i \in InnerRecord /\ Apt(r) /\ r \in StreamRecord
  BY DEF AllApt, Apt
<1>2. q \in StreamRecord
  <2>1. Idle \in States
    BY DEF States
  <2> QED
    BY <1>1, <2>1, RecordTypes
<1>3. /\ q.flow = r.flow /\ q.requested = r.requested /\ q.buffered = r.buffered
      /\ q.state = r.state
  BY <1>1, QueuedFields
<1>4. j = With(i, s, q)
  BY <1>1 DEF With, Queued, Buffer, InnerRecord
<1> HIDE DEF q, j
<1>5. Apt(q) /\ (Hungry(q) => Hungry(r))
  BY <1>1, <1>2, <1>3, HungerStays
<1>6. Softens(i, j) /\ j.streams[s] = q /\ j.openQ = i.openQ
  BY <1>4, <1>5, EditSoftens
<1> QED
  BY <1>6, SoftensKeeps DEF q, j

LEMMA QueueFrameSoftens ==
  ASSUME NEW i, AllApt(i), NEW s \in Streams, NEW frame \in Frames
  PROVE  LET j == QueueFrame(i, s, frame)
         IN  /\ Softens(i, j) /\ AllApt(j) /\ j.openQ = i.openQ
             /\ j.streams[s] = Queued(i.streams[s], frame)
<1> DEFINE w == Buffer(i, s, frame)
           j == QueueFrame(i, s, frame)
<1>1. /\ Softens(i, w) /\ AllApt(w) /\ w.openQ = i.openQ
      /\ w.streams[s] = Queued(i.streams[s], frame)
  BY BufferSoftens
<1>2. j = ScheduleSend(w, s)
  BY DEF QueueFrame
<1> HIDE DEF w, j
<1>3. Softens(w, j) /\ j.streams = w.streams /\ j.openQ = w.openQ
  BY <1>1, <1>2, ScheduleSoftens DEF AllApt
<1>4. Softens(i, j)
  BY <1>1, <1>3, SoftensTrans
<1> QED
  BY <1>1, <1>3, <1>4, SoftensKeeps DEF j

LEMMA ClearQueueSoftens ==
  ASSUME NEW i, AllApt(i), NEW s \in Streams
  PROVE  LET j == ClearQueue(i, s)
         IN  /\ Softens(i, j) /\ AllApt(j) /\ j.openQ = i.openQ
             /\ j.streams[s] = Cleared(i.streams[s])
<1> DEFINE r == i.streams[s]
           q == Cleared(r)
           w == With(i, s, q)
           flight == IF i.inFlight = s THEN Drop ELSE i.inFlight
           j == ClearQueue(i, s)
<1>1. i \in InnerRecord /\ Apt(r) /\ r \in StreamRecord
  BY DEF AllApt, Apt
<1>2. q \in StreamRecord
  <2>1. Idle \in States /\ Frame("data", 0, TRUE) \in Frames
    BY MaxWindowAssumption DEF States, Frames, Frame, Kinds
  <2> QED
    BY <1>1, <2>1, RecordTypes
<1>3. q.flow = r.flow /\ q.requested = 0 /\ q.buffered = 0 /\ q.state = r.state
  BY <1>1, ClearedFields
<1>4. j = [w EXCEPT !.inFlight = flight]
  BY <1>1 DEF With, ClearQueue, Cleared, InnerRecord
<1>5. flight \in Streams \cup {Nothing, Drop}
  BY <1>1 DEF InnerRecord
<1> HIDE DEF q
<1>6. Apt(q)
  BY <1>1, <1>2, <1>3 DEF Apt
<1>7. ~Hungry(q)
  <2>1. Lesser(q.requested, WindowSize(q.flow)) <= q.flow.available
    BY <1>3, <1>6, AptFacts DEF Lesser
  <2>2. q.flow.available >= Lesser(q.requested, WindowSize(q.flow))
    BY <1>3, <1>6, <2>1, AptFacts DEF Lesser
  <2> QED
    BY <1>6, <2>2, FullNotHungry
<1>8. /\ Softens(i, w) /\ w.streams[s] = q /\ w.openQ = i.openQ
  BY <1>6, <1>7, EditSoftens, ZenonT(60)
<1> HIDE DEF w, flight
<1>9. w \in InnerRecord
  BY <1>8 DEF Softens
<1>10. /\ j \in InnerRecord /\ j.streams = w.streams /\ j.flow = w.flow
       /\ j.capacityQ = w.capacityQ /\ j.openQ = w.openQ
  BY <1>4, <1>5, <1>9 DEF InnerRecord
<1> HIDE DEF j
<1>11. Softens(w, j)
  BY <1>10, SameSoftens
<1>12. Softens(i, j)
  BY <1>8, <1>11, SoftensTrans
<1> QED
  BY <1>8, <1>10, <1>12, SoftensKeeps DEF j, q

LEMMA EnqueueResetSoftens ==
  ASSUME NEW i, AllApt(i), NEW s \in Streams
  PROVE  LET j == EnqueueResetExpiration(i, s)
         IN  Softens(i, j) /\ AllApt(j) /\ j.streams = i.streams
<1> DEFINE j == EnqueueResetExpiration(i, s)
           resetQ == i.resetQ
           queue == Append(resetQ, s)
<1>1. i \in InnerRecord /\ i.numResets + 1 \in Int
  BY DEF AllApt, InnerRecord
<1>2. queue \in Seq(Streams)
  <2>1. resetQ \in Seq(Streams)
    BY <1>1 DEF InnerRecord
  <2> HIDE DEF resetQ
  <2> QED
    BY <2>1
<1>3. j \in {i, [i EXCEPT !.resetQ = queue, !.numResets = i.numResets + 1]}
  BY <1>1 DEF EnqueueResetExpiration, InnerRecord
<1> HIDE DEF queue, j
<1>4. /\ j \in InnerRecord /\ j.streams = i.streams /\ j.flow = i.flow
      /\ j.capacityQ = i.capacityQ /\ j.openQ = i.openQ
  BY <1>1, <1>2, <1>3 DEF InnerRecord
<1>5. Softens(i, j)
  BY <1>4, SameSoftens
<1> QED
  BY <1>4, <1>5, SoftensKeeps DEF j

\* What leaves the store wants nothing.
LEMMA TransitionSoftens ==
  ASSUME NEW i, AllApt(i), NEW s \in Streams, NEW wasReset \in BOOLEAN,
         IsStored(i.streams[s])
  PROVE  LET j == TransitionAfter(i, s, wasReset)
         IN  Softens(i, j) /\ AllApt(j)
<1> DEFINE r == i.streams[s]
           j == TransitionAfter(i, s, wasReset)
           l == Left(i, s)
           v == Removed(l)
<1>1. i \in InnerRecord /\ Apt(r) /\ r \in StreamRecord
  BY DEF AllApt, Apt
<1>2. CASE ~IsFlushed(r)
  <2>1. j = i
    BY <1>1, <1>2, TransitionIdle
  <2> QED
    BY <1>1, <2>1, SoftensRefl
<1>3. CASE IsFlushed(r)
  <2>1. /\ j \in InnerRecord
        /\ j.flow = i.flow /\ j.capacityQ = i.capacityQ /\ j.openQ = i.openQ
        /\ \/ j.streams = [i.streams EXCEPT ![s] = l]
           \/ j.streams = [i.streams EXCEPT ![s] = v]
    BY <1>1, <1>3, TransitionFields
  <2>2. /\ l \in StreamRecord /\ l.state = r.state /\ l.flow = r.flow
        /\ l.requested = r.requested /\ l.buffered = r.buffered
    BY <1>1, LeftFields
  <2> HIDE DEF l, j
  <2>3. Apt(l) /\ (Hungry(l) => Hungry(r))
    BY <1>1, <2>2, HungerStays
  <2>4. /\ v \in StreamRecord /\ v.requested = 0 /\ v.buffered = 0
        /\ v.flow.window = 0 /\ v.flow.available = l.flow.available
    <3>1. v.requested = 0 /\ v.buffered = 0 /\ v.flow.window = 0
          /\ v.flow.available = l.flow.available
      BY <2>2, RemovedFields
    <3>2. l.flow.available \in Int
      BY <2>2 DEF StreamRecord, Flow
    <3>3. v \in StreamRecord
      <4> DEFINE new == NewStream("removed", "dropped", 0)
      <4>1. Idle \in States /\ "removed" \in Place /\ "dropped" \in Handle
            /\ <<>> \in Seq(Frames)
        BY DEF States, Place, Handle
      <4>2. new \in StreamRecord
        BY <4>1 DEF NewStream, StreamRecord, Flow
      <4>3. v = [new EXCEPT !.flow.available = l.flow.available]
        BY DEF v, Removed
      <4> HIDE DEF new, v
      <4> QED
        BY <3>2, <4>2, <4>3 DEF StreamRecord, Flow
    <3> QED
      BY <3>1, <3>3
  <2> HIDE DEF v
  <2>5. Apt(v)
    BY <2>3, <2>4, MaxWindowAssumption DEF Apt
  <2>6. ~Hungry(v)
    <3>1. v.flow.available >= Lesser(v.requested, WindowSize(v.flow))
      BY <2>4, <2>5, AptFacts DEF Lesser
    <3> QED
      BY <2>5, <3>1, FullNotHungry
  <2>7. i.streams \in [Streams -> StreamRecord]
    BY <1>1 DEF InnerRecord
  <2>8. /\ \A t \in Streams : t # s => j.streams[t] = i.streams[t]
        /\ j.streams[s] \in {l, v}
    BY <2>1, <2>7
  <2>9. Softens(i, j)
    BY <2>1, <2>3, <2>5, <2>6, <2>8 DEF Softens
  <2> QED
    BY <2>9, SoftensKeeps DEF j
<1> QED
  BY <1>2, <1>3


\* The transition at the end of a handler.
LEMMA TransitionContent ==
  ASSUME NEW i, NEW j, NEW s \in Streams, Content(j), IsStored(j.streams[s])
  PROVE  Content(Transition(i, j, s))
<1>1. IsPendingReset(i, s) \in BOOLEAN
  BY DEF IsPendingReset, Contains
<1>2. Softens(j, Transition(i, j, s)) /\ AllApt(j)
  BY <1>1, ContentFacts, TransitionSoftens DEF Transition
<1> QED
  BY <1>2, SoftensKeeps

LEMMA SoftensContent ==
  ASSUME NEW i, NEW j, Content(i), Softens(i, j)
  PROVE  Content(j) /\ AllApt(j)
BY ContentFacts, SoftensKeeps

\* Nothing is asked for before the final response, or the request, is sent.
LEMMA SendHeadersContent ==
  ASSUME NEW i, Content(i), NEW s \in Streams, NEW eos \in BOOLEAN,
         i.streams[s].requested = 0
  PROVE  Content(SendHeaders(i, s, eos))
<1> DEFINE r == i.streams[s]
           st == SendOpen(r.state, eos)
           q == WithState(r, st)
           opened == [i EXCEPT !.streams[s].state = st]
           openQ == opened.openQ
           queue == Push(openQ, s)
           queued == IF i.peer = "client" THEN [opened EXCEPT !.openQ = queue] ELSE opened
           frame == Frame("headers", 0, eos)
           j == SendHeaders(i, s, eos)
<1>1. i \in InnerRecord /\ Apt(r) /\ r \in StreamRecord /\ r.state \in States
  BY ContentFacts, AptFacts DEF AllApt
<1>2. st \in States
  BY <1>1, SendOpenState DEF Ensues
<1>3. frame \in Frames
  BY MaxWindowAssumption DEF Frames, Frame, Kinds
<1>4. j = QueueFrame(queued, s, frame)
  BY <1>1 DEF SendHeaders, InnerRecord
<1>5. opened = With(i, s, q)
  BY <1>1 DEF With, WithState, InnerRecord
<1> HIDE DEF st, frame, opened
<1>6. /\ q \in StreamRecord /\ q.flow = r.flow /\ q.requested = 0
      /\ q.buffered = r.buffered
  <2>1. Frame("data", 0, TRUE) \in Frames
    BY MaxWindowAssumption DEF Frames, Frame, Kinds
  <2> QED
    BY <1>1, <1>2, <2>1, RecordTypes, WithStateFields
<1> HIDE DEF q
<1>7. Apt(q)
  BY <1>1, <1>6 DEF Apt
<1>8. ~Hungry(q)
  <2>1. q.flow.available >= Lesser(q.requested, WindowSize(q.flow))
    BY <1>6, <1>7, AptFacts DEF Lesser
  <2> QED
    BY <1>7, <2>1, FullNotHungry
<1>9. Softens(i, opened)
  BY <1>1, <1>5, <1>7, <1>8, ContentFacts, EditSoftens
<1>10. opened \in InnerRecord /\ openQ \in Seq(Streams)
  BY <1>9 DEF Softens, InnerRecord
<1>11. queue \in Seq(Streams) /\ \A t \in Streams : Contains(openQ, t) => Contains(queue, t)
  <2> HIDE DEF openQ
  <2> QED
    BY <1>10, PushQueue
<1> HIDE DEF queue
<1>12. /\ queued \in InnerRecord /\ queued.streams = opened.streams
       /\ queued.flow = opened.flow /\ queued.capacityQ = opened.capacityQ
       /\ queued.openQ \in {opened.openQ, queue}
  BY <1>10, <1>11 DEF InnerRecord
<1> HIDE DEF queued
<1>13. Softens(opened, queued)
  BY <1>11, <1>12 DEF Softens
<1>14. Content(queued) /\ AllApt(queued)
  BY <1>9, <1>13, SoftensContent
<1>15. Softens(queued, j)
  BY <1>3, <1>4, <1>14, QueueFrameSoftens
<1> QED
  BY <1>14, <1>15, SoftensContent

LEMMA SendTrailersContent ==
  ASSUME NEW i, Content(i), NEW s \in Streams
  PROVE  Content(SendTrailers(i, s))
<1> DEFINE st == SendClose(i.streams[s].state)
           closed == [i EXCEPT !.streams[s].state = st]
           frame == Frame("trailers", 0, TRUE)
           queued == QueueFrame(closed, s, frame)
           j == SendTrailers(i, s)
<1>1. AllApt(i) /\ i \in InnerRecord /\ i.streams[s].state \in States
  BY ContentFacts, AptFacts DEF AllApt
<1>2. st \in States /\ ~IsSendStreaming(st)
  BY <1>1, SendCloseState, NoNewStreaming DEF Ensues
<1>3. frame \in Frames
  BY MaxWindowAssumption DEF Frames, Frame, Kinds
<1>4. j = ReserveCapacity(queued, s, 0)
  BY <1>1 DEF SendTrailers, InnerRecord
<1> HIDE DEF st, frame, j
<1>5. Softens(i, closed) /\ AllApt(closed)
  BY <1>1, <1>2, StateSoftens
<1> HIDE DEF closed
<1>6. Softens(closed, queued)
  BY <1>3, <1>5, QueueFrameSoftens
<1> HIDE DEF queued
<1>7. Content(queued)
  BY <1>5, <1>6, SoftensContent
<1> QED
  BY <1>4, <1>7, ReserveContent DEF j

LEMMA SendResetContent ==
  ASSUME NEW i, Content(i), NEW s \in Streams
  PROVE  Content(SendReset(i, s))
<1> DEFINE r == i.streams[s]
           st == SetReset("LocalReset")
           reset == [i EXCEPT !.streams[s].state = st]
           cleared == IF IsPendingOpen(i, s) THEN reset ELSE ClearQueue(reset, s)
           queued == QueueFrame(cleared, s, ResetFrame)
           j == SendReset(i, s)
<1>1. AllApt(i)
  BY ContentFacts
<1>2. st \in States /\ ~IsSendStreaming(st)
  <2>1. "LocalReset" \in Errors /\ "NO_ERROR" \in Reasons
    BY DEF Errors, LocalErrors, Reasons
  <2> QED
    BY <2>1, ResetStates, ClosedNotStreaming
<1> HIDE DEF st
<1>3. /\ Softens(i, reset) /\ AllApt(reset) /\ reset.streams[s].state = st
      /\ reset.openQ = i.openQ
  BY <1>1, <1>2, StateSoftens, ZenonT(60)
<1>4. j \in {i, reset, ReclaimAll(queued, s)}
  BY DEF SendReset, st
<1> HIDE DEF j, reset
<1>5. Content(reset)
  BY <1>3, SoftensContent
<1>6. /\ Softens(reset, cleared) /\ AllApt(cleared) /\ cleared.openQ = i.openQ
      /\ cleared.streams[s].state = st
      /\ Contains(i.openQ, s) \/ cleared.streams[s].buffered = 0
  <2>1. CASE IsPendingOpen(i, s)
    BY <1>3, <2>1, SoftensRefl DEF IsPendingOpen, AllApt
  <2>2. CASE ~IsPendingOpen(i, s)
    <3>1. /\ Softens(reset, cleared) /\ AllApt(cleared) /\ cleared.openQ = reset.openQ
          /\ cleared.streams[s] = Cleared(reset.streams[s])
      BY <1>3, <2>2, ClearQueueSoftens
    <3>2. reset.streams[s] \in StreamRecord
      BY <1>3 DEF AllApt, Apt
    <3> HIDE DEF cleared
    <3> QED
      BY <1>3, <3>1, <3>2, ClearedFields
  <2> QED
    BY <2>1, <2>2
<1> HIDE DEF cleared
<1>7. /\ Softens(cleared, queued) /\ queued.openQ = cleared.openQ
      /\ queued.streams[s] = Queued(cleared.streams[s], ResetFrame)
  BY <1>6, QueueFrameSoftens, ResetFrameType
<1> HIDE DEF queued
<1>8. /\ queued.streams[s].state = st
      /\ queued.streams[s].buffered = cleared.streams[s].buffered
  <2>1. cleared.streams[s] \in StreamRecord
    BY <1>6 DEF AllApt, Apt
  <2> QED
    BY <1>6, <1>7, <2>1, QueuedFields
<1>9. Content(queued)
  BY <1>5, <1>6, <1>7, SoftensContent
<1>10. Contains(queued.openQ, s) \/ ~CanSendData(queued.streams[s])
  <2>1. ~(0 > 0)
    OBVIOUS
  <2> QED
    BY <1>2, <1>6, <1>7, <1>8, <2>1 DEF CanSendData
<1>11. Content(ReclaimAll(queued, s))
  BY <1>9, <1>10, ContentFacts, ReclaimAllContent
<1> QED
  BY <1>4, <1>5, <1>11 DEF j

LEMMA ResetStreamContent ==
  ASSUME NEW i, Content(i), NEW s \in Streams
  PROVE  Content(ResetStream(i, s))
<1>1. Content(SendReset(i, s)) /\ AllApt(SendReset(i, s))
  BY SendResetContent, ContentFacts
<1> QED
  BY <1>1, EnqueueResetSoftens, SoftensContent DEF ResetStream

LEMMA ScheduleImplicitResetContent ==
  ASSUME NEW i, Content(i), NEW s \in Streams, NEW reason \in Reasons
  PROVE  Content(ScheduleImplicitReset(i, s, reason))
<1> DEFINE st == SetScheduledReset(reason)
           marked == [i EXCEPT !.streams[s].state = st]
           taken == ReclaimReserved(marked, s)
           j == ScheduleImplicitReset(i, s, reason)
<1>1. CASE IsClosed(i.streams[s].state)
  BY <1>1 DEF ScheduleImplicitReset
<1>2. CASE ~IsClosed(i.streams[s].state)
  <2>1. j = ScheduleSend(taken, s)
    BY <1>2 DEF ScheduleImplicitReset
  <2>2. st \in States /\ ~IsSendStreaming(st)
    <3>1. "LocalReset" \in Errors
      BY DEF Errors, LocalErrors
    <3> QED
      BY <3>1, ResetStates, ClosedNotStreaming
  <2> HIDE DEF st, j
  <2>3. Softens(i, marked) /\ marked.streams[s].state = st
    BY <2>2, ContentFacts, StateSoftens
  <2> HIDE DEF marked
  <2>4. Content(marked)
    BY <2>3, SoftensContent
  <2>5. Content(taken)
    BY <2>2, <2>3, <2>4, ReclaimReservedContent
  <2> HIDE DEF taken
  <2>6. Softens(taken, j)
    BY <2>1, <2>5, ContentFacts, ScheduleSoftens DEF AllApt
  <2> QED
    BY <2>5, <2>6, SoftensContent DEF j
<1> QED
  BY <1>1, <1>2

LEMMA MaybeCancelContent ==
  ASSUME NEW i, Content(i), NEW s \in Streams
  PROVE  Content(MaybeCancel(i, s))
<1> DEFINE j == MaybeCancel(i, s)
<1>1. CASE IsClosed(i.streams[s].state)
  BY <1>1 DEF MaybeCancel
<1>2. CASE ~IsClosed(i.streams[s].state)
  <2>1. PICK reason \in Reasons :
          j = EnqueueResetExpiration(ScheduleImplicitReset(i, s, reason), s)
    BY <1>2 DEF MaybeCancel, Reasons
  <2> HIDE DEF j
  <2>2. Content(ScheduleImplicitReset(i, s, reason))
    BY ScheduleImplicitResetContent
  <2> QED
    BY <2>1, <2>2, ContentFacts, EnqueueResetSoftens, SoftensContent DEF j
<1> QED
  BY <1>1, <1>2

LEMMA FailSendingContent ==
  ASSUME NEW i, Content(i), NEW s \in Streams, ~IsSendStreaming(i.streams[s].state)
  PROVE  LET j == FailSending(i, s)
         IN  Content(j) /\ j.streams[s].place = i.streams[s].place
<1> DEFINE r == i.streams[s]
           cleared == ClearQueue(i, s)
           j == FailSending(i, s)
<1>1. AllApt(i) /\ r \in StreamRecord
  BY ContentFacts DEF AllApt, Apt
<1>2. j = ReclaimAll(cleared, s)
  BY DEF FailSending
<1> HIDE DEF j
<1>3. Softens(i, cleared) /\ cleared.streams[s] = Cleared(r)
  BY <1>1, ClearQueueSoftens
<1> HIDE DEF cleared
<1>4. /\ cleared.streams[s].state = r.state /\ cleared.streams[s].buffered = 0
      /\ cleared.streams[s].place = r.place
  BY <1>1, <1>3, ClearedFields
<1>5. Content(cleared) /\ cleared \in InnerRecord
  BY <1>3, SoftensContent DEF Softens
<1>6. ~CanSendData(cleared.streams[s])
  <2>1. ~(0 > 0)
    OBVIOUS
  <2> QED
    BY <1>4, <2>1 DEF CanSendData
<1>7. Content(j)
  BY <1>2, <1>5, <1>6, ContentFacts, ReclaimAllContent
<1>8. Provides(cleared, j)
  BY <1>2, <1>5, ReclaimSomeProvides
<1> QED
  BY <1>4, <1>7, <1>8 DEF Provides, Firm, j

LEMMA FailStreamContent ==
  ASSUME NEW i, Content(i), NEW s \in Streams, NEW error \in Errors, IsStored(i.streams[s])
  PROVE  Content(FailStream(i, s, error))
<1> DEFINE r == i.streams[s]
           st == HandleError(r.state, error)
           marked == [i EXCEPT !.streams[s].state = st]
           k == FailSending(marked, s)
<1>1. AllApt(i) /\ i \in InnerRecord /\ r \in StreamRecord /\ r.state \in States
  BY ContentFacts, AptFacts DEF AllApt
<1>2. st \in States /\ ~IsSendStreaming(st)
  BY <1>1, HandleErrorState, ClosedNotStreaming DEF Ensues
<1>3. FailStream(i, s, error) = Transition(i, k, s)
  BY <1>1 DEF FailStream, InnerRecord
<1> HIDE DEF st
<1>4. Softens(i, marked) /\ marked.streams[s] = WithState(r, st)
  BY <1>1, <1>2, StateSoftens
<1>5. marked.streams[s].place = r.place /\ marked.streams[s].state = st
  BY <1>1, <1>4, WithStateFields
<1> HIDE DEF marked
<1>6. Content(k) /\ k.streams[s].place = r.place
  BY <1>2, <1>4, <1>5, SoftensContent, FailSendingContent
<1> HIDE DEF k
<1> QED
  BY <1>3, <1>6, TransitionContent DEF IsStored

LEMMA FailAfterContent ==
  ASSUME NEW i, Content(i), NEW order \in Orders, NEW last, NEW error \in Errors
  PROVE  Content(FailAfter(i, order, last, error))
<1> DEFINE good == {j \in InnerRecord : Content(j)}
           step == [k \in Nat |-> [j \in InnerRecord |-> FailNext(j, order[k], last, error)]]
<1>1. i \in good /\ NStreams \in Nat
  BY ContentFacts, StreamsType DEF AllApt
<1>2. ASSUME NEW k \in 1 .. NStreams, NEW j \in good
      PROVE  step[k][j] \in good
  <2> DEFINE s == order[k]
             l == FailNext(j, s, last, error)
  <2>1. k \in Nat /\ s \in Streams
    BY <1>1, OrdersType
  <2>2. step[k][j] = l
    BY <2>1
  <2>3. j \in InnerRecord /\ Content(j)
    OBVIOUS
  <2> HIDE DEF good, step, s
  <2>4. Content(l)
    <3>1. s \in Linked(j) => IsStored(j.streams[s])
      BY DEF Linked, IsStored
    <3> QED
      BY <2>1, <2>3, <3>1, FailStreamContent DEF FailNext
  <2> HIDE DEF l
  <2> QED
    BY <2>2, <2>4, ContentFacts DEF good, AllApt
<1>3. FailAfter(i, order, last, error) = Loop(step, i, NStreams)
  BY DEF FailAfter
<1> HIDE DEF good, step
<1>4. Loop(step, i, NStreams) \in good
  BY <1>1, <1>2, LoopStays
<1> QED
  BY <1>3, <1>4 DEF good


\* A chunk is charged, and capacity for it is asked for.
LEMMA SendChunkContent ==
  ASSUME NEW i, Content(i), NEW s \in Streams, NEW sz \in 0 .. MaxWindow,
         NEW eos \in BOOLEAN, IsSendStreaming(i.streams[s].state)
  PROVE  Content(SendChunk(i, s, sz, eos))
<1> DEFINE r == i.streams[s]
           buffered == r.buffered + sz
           q == [r EXCEPT !.buffered = buffered]
           p == [r EXCEPT !.buffered = buffered, !.requested = buffered]
           charged == [i EXCEPT !.streams[s].buffered = buffered]
           asking == [charged EXCEPT !.streams[s].requested = buffered]
           asked == IF r.requested < buffered THEN TryAssign(asking, s) ELSE charged
           st == SendClose(asked.streams[s].state)
           closed == [asked EXCEPT !.streams[s].state = st]
           ended == IF eos THEN ReserveCapacity(closed, s, 0) ELSE asked
           frame == Frame("data", sz, eos)
           j == SendChunk(i, s, sz, eos)
<1>1. AllApt(i) /\ i \in InnerRecord /\ Apt(r) /\ r \in StreamRecord
  BY ContentFacts DEF AllApt, Apt
<1>2. /\ r.buffered \in Nat /\ r.requested \in Nat /\ r.buffered <= r.requested
      /\ WindowSize(r.flow) \in Nat /\ r.flow.available \in Nat
  <2> HIDE DEF r
  <2> QED
    BY <1>1, AptFacts, MaxWindowAssumption
<1>3. buffered \in Nat /\ buffered \in Int /\ r.buffered <= buffered
  BY <1>2, MaxWindowAssumption
<1>4. j \in {QueueFrame(ended, s, frame), Buffer(ended, s, frame)}
  BY <1>1 DEF SendChunk, InnerRecord
<1>5. frame \in Frames
  BY MaxWindowAssumption DEF Frames, Frame, Kinds
<1>6. charged = With(i, s, q) /\ asking = With(i, s, p)
  BY <1>1 DEF With, InnerRecord, StreamRecord
<1>7a. /\ q \in StreamRecord /\ q.flow = r.flow /\ q.requested = r.requested
       /\ q.buffered = buffered /\ q.state = r.state
  <2> HIDE DEF r, buffered
  <2> QED
    BY <1>1, <1>3 DEF StreamRecord
<1>7b. p = [q EXCEPT !.requested = buffered]
  <2> HIDE DEF r, buffered
  <2> QED
    BY <1>1 DEF StreamRecord
<1>7c. /\ p \in StreamRecord /\ p.flow = r.flow /\ p.requested = buffered
       /\ p.buffered = buffered /\ p.state = r.state
  <2> HIDE DEF r, buffered, q, p
  <2> QED
    BY <1>1, <1>3, <1>7a, <1>7b DEF StreamRecord
<1> HIDE DEF q, p, charged, asking, buffered, frame, j
<1>8. Content(asked)
  <2>1. CASE r.requested < buffered
    <3>1. Apt(p)
      BY <1>1, <1>3, <1>7a, <1>7c DEF Apt
    <3>2. ContentBut(asking, s)
      BY <1>6, <3>1, ContentFacts, EditContentBut
    <3> QED
      BY <2>1, <3>2, TryAssignContent
  <2>2. CASE ~(r.requested < buffered)
    <3>1. Apt(q)
      BY <1>1, <1>2, <1>3, <1>7a, <2>2 DEF Apt
    <3>2. Hungry(q) => Hungry(r)
      BY <1>7a, <1>7c DEF Hungry, CanSendData, Wanted
    <3>3. Softens(i, charged)
      BY <1>1, <1>6, <3>1, <3>2, EditSoftens
    <3> QED
      BY <2>2, <3>3, SoftensContent
  <2> QED
    BY <2>1, <2>2
<1> HIDE DEF asked
<1>9. Content(ended)
  <2>1. AllApt(asked) /\ asked.streams[s].state \in States
    BY <1>8, ContentFacts, AptFacts DEF AllApt
  <2>2. st \in States /\ ~IsSendStreaming(st)
    BY <2>1, SendCloseState, NoNewStreaming DEF Ensues
  <2> HIDE DEF st
  <2>3. Softens(asked, closed)
    BY <2>1, <2>2, StateSoftens
  <2> HIDE DEF closed
  <2>4. Content(closed)
    BY <1>8, <2>3, SoftensContent
  <2>5. Content(ReserveCapacity(closed, s, 0))
    BY <2>4, ReserveContent
  <2> QED
    BY <1>8, <2>5
<1> HIDE DEF ended
<1>10. Softens(ended, QueueFrame(ended, s, frame)) /\ Softens(ended, Buffer(ended, s, frame))
  BY <1>5, <1>9, ContentFacts, QueueFrameSoftens, BufferSoftens
<1>11. Content(QueueFrame(ended, s, frame)) /\ Content(Buffer(ended, s, frame))
  BY <1>9, <1>10, SoftensContent
<1> QED
  BY <1>4, <1>11 DEF j

LEMMA WindowUpdateContent ==
  ASSUME NEW i, Content(i), NEW s \in Streams, NEW inc \in Nat
  PROVE  LET update == StreamWindowUpdate(i, s, inc)
         IN  Content(update.inner) /\ update \in UpdateResult
<1> DEFINE r == i.streams[s]
           update == StreamWindowUpdate(i, s, inc)
           q == Raised(r, inc)
           j == [i EXCEPT !.streams[s].flow = IncWindow(@, inc)]
<1>1. AllApt(i) /\ i \in InnerRecord /\ Apt(r) /\ r \in StreamRecord
  BY ContentFacts DEF AllApt, Apt
<1>2. ASSUME NEW k, NEW ok \in BOOLEAN, NEW u, u = [inner |-> k, ok |-> ok], Content(k)
      PROVE  Content(u.inner) /\ u \in UpdateResult
  <2>1. u.inner = k /\ k \in InnerRecord
    BY <1>2, ContentFacts DEF AllApt
  <2> QED
    BY <1>2, <2>1 DEF UpdateResult
<1>3. CASE CannotSend(r)
  <2>1. update = [inner |-> i, ok |-> TRUE]
    BY <1>3 DEF StreamWindowUpdate
  <2> HIDE DEF update
  <2>2. Content(update.inner) /\ update \in UpdateResult
    BY <1>2, <2>1
  <2> QED
    BY <2>2 DEF update
<1>4. CASE ~CannotSend(r) /\ CanIncWindow(r.flow, inc)
  <2>1. update = [inner |-> TryAssign(j, s), ok |-> TRUE]
    BY <1>4 DEF StreamWindowUpdate
  <2>2. j = With(i, s, q)
    BY <1>1 DEF With, Raised, InnerRecord
  <2>3. /\ q \in StreamRecord /\ q.buffered = r.buffered /\ q.requested = r.requested
        /\ q.flow.window = r.flow.window + inc /\ q.flow.available = r.flow.available
    BY <1>1, <1>4, RaisedFields
  <2>4. Apt(q)
    <3>1. r.flow.window + inc <= MaxWindow
      BY <1>4 DEF CanIncWindow
    <3> HIDE DEF q
    <3> QED
      BY <1>1, <2>3, <3>1 DEF Apt
  <2> HIDE DEF q, j, update
  <2>5. ContentBut(j, s)
    BY <2>2, <2>4, ContentFacts, EditContentBut
  <2>6. Content(TryAssign(j, s))
    BY <2>5, TryAssignContent
  <2>7. Content(update.inner) /\ update \in UpdateResult
    BY <1>2, <2>1, <2>6
  <2> QED
    BY <2>7 DEF update
<1>5. CASE ~CannotSend(r) /\ ~CanIncWindow(r.flow, inc)
  <2>1. update = [inner |-> SendReset(i, s), ok |-> FALSE]
    BY <1>5 DEF StreamWindowUpdate
  <2>2. Content(SendReset(i, s))
    BY SendResetContent
  <2> HIDE DEF update
  <2>3. Content(update.inner) /\ update \in UpdateResult
    BY <1>2, <2>1, <2>2
  <2> QED
    BY <2>3 DEF update
<1> QED
  BY <1>3, <1>4, <1>5

LEMMA UpdateAllContent ==
  ASSUME NEW i, Content(i), NEW order \in Orders, NEW inc \in Nat
  PROVE  Content(UpdateAll(i, order, inc).inner)
<1> DEFINE good == {acc \in UpdateResult : Content(acc.inner)}
           step == [k \in Nat |-> [acc \in UpdateResult |-> UpdateNext(acc, order[k], inc)]]
           x == [inner |-> i, ok |-> TRUE]
<1>1. x \in good /\ NStreams \in Nat
  BY ContentFacts, StreamsType DEF AllApt, UpdateResult
<1>2. ASSUME NEW k \in 1 .. NStreams, NEW acc \in good
      PROVE  step[k][acc] \in good
  <2> DEFINE s == order[k]
             l == UpdateNext(acc, s, inc)
  <2>1. k \in Nat /\ s \in Streams
    BY <1>1, OrdersType
  <2>2. step[k][acc] = l
    BY <2>1
  <2>3. acc \in UpdateResult /\ Content(acc.inner)
    OBVIOUS
  <2> HIDE DEF good, step, s
  <2>4. l \in UpdateResult /\ Content(l.inner)
    BY <2>1, <2>3, WindowUpdateContent DEF UpdateNext
  <2> HIDE DEF l
  <2> QED
    BY <2>2, <2>4 DEF good
<1>3. UpdateAll(i, order, inc) = Loop(step, x, NStreams)
  BY DEF UpdateAll
<1> HIDE DEF good, step, x
<1>4. Loop(step, x, NStreams) \in good
  BY <1>1, <1>2, LoopStays
<1> QED
  BY <1>3, <1>4 DEF good


----------------------------------------------------------------------------
(* Writing.  What is written is paid for out of what was assigned, asked   *)
(* for and buffered alike, so that nobody is the hungrier for it.          *)

\* Other queues and the connection's window may change.
LEMMA SameStreamsContent ==
  ASSUME NEW i, Content(i), NEW j \in InnerRecord, j.streams = i.streams,
         j.flow.available = i.flow.available,
         j.capacityQ = i.capacityQ, j.openQ = i.openQ
  PROVE  Content(j)
<1>1. AllApt(j)
  BY ContentFacts DEF AllApt
<1>2. \A t \in Streams : /\ Craves(j, t) <=> Craves(i, t)
                         /\ Contains(j.capacityQ, t) <=> Contains(i.capacityQ, t)
  BY DEF Craves
<1> QED
  BY <1>1, <1>2 DEF Content, Heeded, Spent

LEMMA PopPendingOpenContent ==
  ASSUME NEW i, Content(i)
  PROVE  Content(PopPendingOpen(i))
<1>1. CASE i.openQ = <<>> \/ i.numStreams >= i.maxStreams
  BY <1>1 DEF PopPendingOpen
<1>2. CASE ~(i.openQ = <<>> \/ i.numStreams >= i.maxStreams)
  <2> DEFINE s == Head(i.openQ)
             openQ == i.openQ
             sendQ == i.sendQ
             r == i.streams[s]
             q == Counted(r)
             w == With(i, s, q)
             o == Tail(openQ)
             p == PushFront(sendQ, s)
             n == i.numStreams + 1
             d == [w EXCEPT !.openQ = o, !.numStreams = n, !.sendQ = p]
             j == TryAssign(d, s)
  <2>1. i \in InnerRecord /\ openQ # <<>> /\ openQ \in Seq(Streams) /\ sendQ \in Seq(Streams)
        /\ n \in Int /\ AllApt(i)
    BY <1>2, ContentFacts DEF AllApt, InnerRecord
  <2>2. s \in Streams /\ o \in Seq(Streams)
        /\ \A t \in Streams : Contains(openQ, t) => t = s \/ Contains(o, t)
    <3>1. s = Head(openQ)
      OBVIOUS
    <3> HIDE DEF openQ, s
    <3> QED
      BY <2>1, <3>1, TailQueue
  <2>3. p \in Seq(Streams)
    <3> HIDE DEF sendQ, s
    <3> QED
      BY <2>1, <2>2, PushFrontQueue
  <2>4. PopPendingOpen(i) = j
    <3>1. d = [i EXCEPT !.openQ = Tail(@), !.numStreams = @ + 1,
                        !.streams[s].counted = TRUE, !.sendQ = PushFront(@, s)]
      BY <2>1, <2>2 DEF InnerRecord, Counted, With
    <3> HIDE DEF d
    <3> QED
      BY <1>2, <3>1 DEF PopPendingOpen
  <2>5. r \in StreamRecord /\ Apt(r)
    BY <2>1, <2>2 DEF AllApt, Apt
  <2>6. /\ q \in StreamRecord /\ q.state = r.state /\ q.flow = r.flow
        /\ q.buffered = r.buffered /\ q.requested = r.requested
    BY <2>5, CountedFields
  <2> HIDE DEF s, q, r, o, p, n
  <2>7. Apt(q) /\ (Hungry(q) => Hungry(r))
    BY <2>5, <2>6, HungerStays
  <2>8. Softens(i, w) /\ w.openQ = i.openQ
    BY <2>1, <2>2, <2>7, EditSoftens, ZenonT(60) DEF r
  <2> HIDE DEF w
  <2>9. Content(w) /\ AllApt(w) /\ w \in InnerRecord
    BY <2>8, SoftensContent DEF AllApt
  <2>10. /\ d \in InnerRecord /\ d.streams = w.streams /\ d.flow = w.flow
         /\ d.openQ = o /\ d.capacityQ = w.capacityQ
    BY <2>1, <2>2, <2>3, <2>9 DEF InnerRecord
  <2> HIDE DEF d
  <2>11. ContentBut(d, s)
    <3>1. AllApt(d)
      BY <2>9, <2>10 DEF AllApt
    <3>2. \A t \in Streams : t # s => (Craves(d, t) => Craves(w, t))
      BY <2>2, <2>8, <2>10 DEF Craves, openQ
    <3>3. Spent(d) <=> Spent(w)
      BY <2>10 DEF Spent
    <3>4. ContentBut(w, s)
      BY <2>2, <2>9, ContentFacts
    <3> QED
      BY <2>10, <3>1, <3>2, <3>3, <3>4 DEF ContentBut, HeededBut
  <2> QED
    BY <2>2, <2>4, <2>11, TryAssignContent
<1> QED
  BY <1>1, <1>2

LEMMA RequeueContent ==
  ASSUME NEW i, Content(i), NEW s \in Streams, IsStored(i.streams[s])
  PROVE  Content(Requeue(i, s))
<1> DEFINE more == i.streams[s].queue # <<>> \/ IsScheduledReset(i.streams[s].state)
           sendQ == i.sendQ
           queue == Push(sendQ, s)
           j == IF more THEN [i EXCEPT !.sendQ = queue] ELSE i
           b == IsPendingReset(i, s)
<1>1. i \in InnerRecord /\ sendQ \in Seq(Streams)
  BY ContentFacts DEF AllApt, InnerRecord
<1>2. Requeue(i, s) = TransitionAfter(j, s, b)
  BY <1>1 DEF Requeue, InnerRecord
<1>3. queue \in Seq(Streams)
  <2> HIDE DEF sendQ
  <2> QED
    BY <1>1, PushQueue
<1>4. b \in BOOLEAN
  BY DEF IsPendingReset, Contains
<1> HIDE DEF queue, b
<1>5. /\ j \in InnerRecord /\ j.streams = i.streams /\ j.flow = i.flow
      /\ j.capacityQ = i.capacityQ /\ j.openQ = i.openQ
  BY <1>1, <1>3 DEF InnerRecord
<1> HIDE DEF j
<1>6. Content(j) /\ AllApt(j) /\ IsStored(j.streams[s])
  BY <1>5, SameStreamsContent, ContentFacts
<1>7. Softens(j, TransitionAfter(j, s, b))
  BY <1>4, <1>6, TransitionSoftens
<1> QED
  BY <1>2, <1>6, <1>7, SoftensContent

\* What is paid for is wanted no more.
LEMMA PaidApt ==
  ASSUME NEW r, Apt(r), r.queue # <<>>, NEW len \in Nat, len <= r.flow.available,
         len <= r.buffered, len > 0 => len <= r.flow.window
  PROVE  LET q == Paid(r, len)
         IN  Apt(q) /\ (Hungry(q) => Hungry(r))
<1> DEFINE q == Paid(r, len)
           w == WindowSize(r.flow)
           v == WindowSize(q.flow)
<1>1. /\ r \in StreamRecord /\ r.flow.window \in Int /\ r.flow.available \in Nat
      /\ r.requested \in Nat /\ r.buffered \in Nat /\ r.buffered <= r.requested
      /\ r.flow.window <= MaxWindow
  BY AptFacts DEF Apt
<1>2. /\ q \in StreamRecord /\ q.state = r.state
      /\ q.flow.window = r.flow.window - len
      /\ q.flow.available = r.flow.available - len
      /\ q.buffered = r.buffered - len /\ q.requested = r.requested - len
  <2>1. len \in Int
    OBVIOUS
  <2> QED
    BY <1>1, <2>1, PaidFields
<1> HIDE DEF q
<1>3. Apt(q)
  <2>1. r.flow.window - len <= MaxWindow
    BY <1>1, MaxWindowAssumption
  <2> QED
    BY <1>1, <1>2, <2>1 DEF Apt
<1>4. w \in Nat /\ v \in Nat /\ (len > 0 => v = w - len) /\ (len = 0 => v = w)
  BY <1>1, <1>2 DEF WindowSize, AsSize
<1>5. Wanted(q) = Wanted(r) - len /\ Wanted(r) \in Nat /\ Wanted(q) \in Nat
  BY <1>1, <1>2 DEF Wanted
<1> HIDE DEF w, v
<1>6. Lesser(Wanted(q), v) = Lesser(Wanted(r), w) - len
  BY <1>4, <1>5 DEF Lesser
<1>7. Lesser(Wanted(r), w) \in Int
  BY <1>4, <1>5 DEF Lesser
<1>8. CanSendData(q) => CanSendData(r)
  BY <1>1, <1>2 DEF CanSendData
<1>9. Hungry(q) => Hungry(r)
  BY <1>1, <1>2, <1>6, <1>7, <1>8 DEF Hungry, w, v
<1> QED
  BY <1>3, <1>9 DEF q


LEMMA PopDataContent ==
  ASSUME NEW i, Content(i), NEW s \in Streams, NEW low,
         Sound(i, Behind(Nothing, 0), low, 0), IsStored(i.streams[s]),
         i.streams[s].queue # <<>>, ~IsBlocked(i.streams[s])
  PROVE  Content(PopData(i, s).inner)
<1> DEFINE r == i.streams[s]
           len == DataLength(r)
           q == Paid(r, len)
           strs == [i.streams EXCEPT ![s] = q]
           flow == SendData(AssignCapacity(i.flow, len), len)
           w == With(i, s, q)
           j == Charged(i, s, len)
<1>1. /\ i \in InnerRecord /\ r \in StreamRecord /\ AllApt(i) /\ Apt(r)
  BY ContentFacts DEF AllApt, Apt
<1>2. StoredSound(r, 0, low[s], IsServer(i))
  <2>1. Behind(Nothing, 0)[s] = 0
    BY DEF Behind
  <2> QED
    BY <2>1, StoredAt
<1>3. /\ len \in Nat /\ len <= r.flow.available /\ len <= r.buffered
      /\ (len > 0 => len <= r.flow.window)
  <2> HIDE DEF r
  <2>1. 0 \in Nat /\ r.queue # <<>> /\ ~IsBlocked(r) /\ r.buffered \in Int
    BY <1>1, AptFacts DEF r
  <2>2. /\ len \in Nat /\ len <= r.flow.available /\ len <= r.buffered - 0
        /\ (len > 0 => len <= r.flow.window)
    BY <1>2, <2>1, LengthFits
  <2> QED
    BY <2>1, <2>2
<1>4. len \in Int
  BY <1>3
<1> HIDE DEF len
<1>5. q \in StreamRecord /\ q.place = r.place
  BY <1>1, <1>4, PaidFields
<1>6. Apt(q) /\ (Hungry(q) => Hungry(r))
  BY <1>1, <1>3, PaidApt
<1>7. i.flow \in Flow /\ i.flow.available \in Int /\ i.flow.window \in Int
      /\ i.flow.available + len <= MaxWindow
  <2>1. Account(i, 0) /\ i.flow \in Flow /\ i.flow.window \in Int /\ i.flow.available \in Int
    <3>1. i.flow \in Flow
      BY <1>1 DEF InnerRecord
    <3> QED
      BY <3>1 DEF Sound, SoundBut, Flow
  <2>2. SoundBut(i, Nobody, Behind(Nothing, 0), low, 0)
    BY DEF Sound
  <2>3. \A t \in Streams : i.streams[t].flow.available \in 0 .. MaxWindow
    <3> DEFINE none == Behind(Nothing, 0)
    <3>1. SoundBut(i, s, none, low, 0) /\ InBounds(r)
      BY <1>2, StoredAt DEF StoredSound
    <3>2. r.flow.available \in 0 .. MaxWindow
      BY <3>1 DEF InBounds
    <3> HIDE DEF none
    <3> QED
      BY <3>1, <3>2, AccountBounds
  <2>4. Shares(i.streams) \in Int /\ r.flow.available <= Shares(i.streams)
    <3>1. i.streams \in [Streams -> StreamRecord]
      BY <1>1 DEF InnerRecord
    <3> QED
      BY <3>1, <2>3, SharesType, MaxWindowAssumption, SMTT(30)
  <2>5. r.flow.available \in Int
    BY <2>3, MaxWindowAssumption
  <2> QED
    BY <1>3, <2>1, <2>4, <2>5, MaxWindowAssumption DEF Account
<1>8. flow \in Flow /\ flow.available = i.flow.available
  <2> DEFINE a == i.flow.available + len
             f == [i.flow EXCEPT !.available = a]
  <2>1. AssignCapacity(i.flow, len) = f
    BY <1>7 DEF AssignCapacity, CanAssign
  <2>2. a \in Int /\ a - len = i.flow.available
    BY <1>4, <1>7
  <2> HIDE DEF a
  <2>3. f \in Flow /\ f.available = a /\ f.window = i.flow.window
    BY <1>7, <2>2 DEF Flow
  <2> HIDE DEF f
  <2>4. flow = [f EXCEPT !.window = f.window - len, !.available = f.available - len]
    BY <2>1 DEF SendData
  <2>5. i.flow.window - len \in Int
    BY <1>4, <1>7
  <2> QED
    BY <1>7, <2>2, <2>3, <2>4, <2>5 DEF Flow
<1>9. strs \in [Streams -> StreamRecord] /\ strs[s] = q
  <2>1. i.streams \in [Streams -> StreamRecord]
    BY <1>1 DEF InnerRecord
  <2> HIDE DEF q
  <2> QED
    BY <1>5, <2>1
<1>10. j = [i EXCEPT !.streams = strs, !.flow = flow]
  BY <1>1, ChargeAs
<1> HIDE DEF q, j
<1>11. Softens(i, w)
  BY <1>1, <1>6, EditSoftens
<1>12. w = [i EXCEPT !.streams = strs]
  BY <1>1 DEF With, InnerRecord
<1> HIDE DEF w, strs, flow
<1>13. Content(w) /\ w \in InnerRecord
  BY <1>11, SoftensContent DEF AllApt
<1>14. /\ j \in InnerRecord /\ j.streams = strs /\ j.flow = flow
       /\ j.capacityQ = i.capacityQ /\ j.openQ = i.openQ
  BY <1>1, <1>8, <1>9, <1>10 DEF InnerRecord
<1>15. /\ w.streams = strs /\ w.flow = i.flow
       /\ w.capacityQ = i.capacityQ /\ w.openQ = i.openQ
  BY <1>1, <1>9, <1>12 DEF InnerRecord
<1>16. Content(j)
  BY <1>8, <1>13, <1>14, <1>15, SameStreamsContent
<1>17. IsStored(j.streams[s])
  BY <1>5, <1>9, <1>14 DEF IsStored
<1>18. PopData(i, s).inner = Requeue(j, s)
  BY DEF PopData, Charged, Popped, j, len
<1> QED
  BY <1>16, <1>17, <1>18, RequeueContent

LEMMA PopOtherContent ==
  ASSUME NEW i, Content(i), NEW s \in Streams, IsStored(i.streams[s]),
         i.streams[s].queue # <<>>
  PROVE  Content(PopOther(i, s).inner)
<1> DEFINE r == i.streams[s]
           rest == Tail(r.queue)
           q == [r EXCEPT !.queue = rest]
           w == With(i, s, q)
           j == [i EXCEPT !.streams[s].queue = Tail(@)]
<1>1. i \in InnerRecord /\ r \in StreamRecord /\ AllApt(i) /\ Apt(r)
  BY ContentFacts DEF AllApt, Apt
<1>2. rest \in Seq(Frames)
  <2>1. r.queue \in Seq(Frames)
    BY <1>1 DEF StreamRecord
  <2> QED
    BY <2>1, OctetsOfTail
<1>3. j = w
  BY <1>1 DEF With, InnerRecord
<1>4. PopOther(i, s).inner = Requeue(j, s)
  BY DEF PopOther, Popped, j
<1> HIDE DEF rest, j
<1>5. /\ q \in StreamRecord /\ q.place = r.place /\ q.flow = r.flow /\ q.state = r.state
      /\ q.requested = r.requested /\ q.buffered = r.buffered
  BY <1>1, <1>2 DEF StreamRecord
<1> HIDE DEF q
<1>6. Apt(q) /\ (Hungry(q) => Hungry(r))
  BY <1>1, <1>5, HungerStays
<1>7. Softens(i, w) /\ w.streams[s] = q
  BY <1>1, <1>6, EditSoftens
<1> HIDE DEF w
<1>8. Content(w) /\ IsStored(w.streams[s])
  BY <1>5, <1>7, SoftensContent DEF IsStored
<1> QED
  BY <1>3, <1>4, <1>8, RequeueContent

LEMMA PopScheduledResetContent ==
  ASSUME NEW i, Content(i), NEW s \in Streams, IsStored(i.streams[s])
  PROVE  Content(PopScheduledReset(i, s).inner)
<1> DEFINE r == i.streams[s]
           st == SetReset("LocalReset")
           j == [i EXCEPT !.streams[s].state = st]
<1>1. AllApt(i) /\ r \in StreamRecord
  BY ContentFacts DEF AllApt, Apt
<1>2. st \in States /\ ~IsSendStreaming(st)
  <2>1. "LocalReset" \in Errors /\ "NO_ERROR" \in Reasons
    BY DEF Errors, LocalErrors, Reasons
  <2> QED
    BY <2>1, ResetStates, ClosedNotStreaming
<1>3. PopScheduledReset(i, s).inner = Requeue(j, s)
  BY DEF PopScheduledReset, Popped
<1> HIDE DEF st
<1>4. Softens(i, j) /\ j.streams[s] = WithState(r, st)
  BY <1>1, <1>2, StateSoftens
<1>5. j.streams[s].place = r.place
  BY <1>1, <1>4, WithStateFields
<1> HIDE DEF j
<1>6. Content(j) /\ IsStored(j.streams[s])
  BY <1>4, <1>5, SoftensContent DEF IsStored
<1> QED
  BY <1>3, <1>6, RequeueContent

LEMMA PopDiscardedContent ==
  ASSUME NEW i, Content(i), NEW s \in Streams, DiscardsData(i.streams[s])
  PROVE  Content([FailSending(i, s) EXCEPT !.sendQ = Push(@, s)])
<1> DEFINE st == i.streams[s].state
           k == FailSending(i, s)
           sendQ == k.sendQ
           queue == Push(sendQ, s)
           j == [k EXCEPT !.sendQ = queue]
<1>1. st \in States
  BY ContentFacts, AptFacts DEF AllApt
<1>2. ~IsSendStreaming(st)
  <2>1. IsScheduledReset(st)
    BY DEF DiscardsData
  <2> QED
    BY <1>1, <2>1, StateKinds
<1>3. Content(k)
  BY <1>2, FailSendingContent
<1> HIDE DEF k
<1>4. k \in InnerRecord /\ sendQ \in Seq(Streams)
  BY <1>3, ContentFacts DEF AllApt, InnerRecord
<1>5. queue \in Seq(Streams)
  <2> HIDE DEF sendQ
  <2> QED
    BY <1>4, PushQueue
<1>6. [k EXCEPT !.sendQ = Push(@, s)] = j
  BY <1>4 DEF InnerRecord
<1> HIDE DEF queue
<1>7. /\ j \in InnerRecord /\ j.streams = k.streams /\ j.flow = k.flow
      /\ j.capacityQ = k.capacityQ /\ j.openQ = k.openQ
  BY <1>4, <1>5 DEF InnerRecord
<1> HIDE DEF j
<1>8. Content(j)
  BY <1>3, <1>7, SameStreamsContent
<1> QED
  BY <1>6, <1>8 DEF k


LEMMA PopNextContent ==
  ASSUME NEW i, Content(i), NEW low, Sound(i, Behind(Nothing, 0), low, 0), i.sendQ # <<>>
  PROVE  Content(PopNext(i).inner)
<1> DEFINE s == Head(i.sendQ)
           r == i.streams[s]
           sendQ == i.sendQ
           j == [i EXCEPT !.sendQ = Tail(@)]
           data == r.queue # <<>> /\ Head(r.queue).kind = "data"
<1>1. /\ Sound(j, Behind(Nothing, 0), low, 0) /\ s \in Streams /\ IsStored(r)
      /\ j.streams = i.streams /\ SameBooks(i, j)
  BY PopSendSound
<1>2. /\ j \in InnerRecord /\ j.flow = i.flow
      /\ j.capacityQ = i.capacityQ /\ j.openQ = i.openQ
  <2>1. i \in InnerRecord /\ sendQ \in Seq(Streams) /\ sendQ # <<>>
    BY SoundType
  <2>2. Tail(sendQ) \in Seq(Streams)
    <3> HIDE DEF sendQ
    <3> QED
      BY <2>1, TailQueue
  <2> QED
    BY <2>1, <2>2 DEF InnerRecord
<1>3. PopNext(i) =
        CASE data /\ DiscardsData(r) ->
               NothingPopped([FailSending(j, s) EXCEPT !.sendQ = Push(@, s)])
          [] data /\ ~DiscardsData(r) ->
               IF IsBlocked(r) THEN NothingPopped(j) ELSE PopData(j, s)
          [] ~data /\ r.queue # <<>> -> PopOther(j, s)
          [] r.queue = <<>> /\ IsScheduledReset(r.state) -> PopScheduledReset(j, s)
          [] OTHER -> NothingPopped(TransitionAfter(j, s, IsPendingReset(j, s)))
  BY DEF PopNext
<1> HIDE DEF j, s
<1>4. Content(j) /\ AllApt(j)
  BY <1>1, <1>2, SameStreamsContent, ContentFacts
<1>5. j.streams[s] = r /\ s \in Streams /\ IsStored(j.streams[s])
  BY <1>1
<1>6. \A k : NothingPopped(k).inner = k
  BY DEF NothingPopped, Popped
<1>7. CASE data /\ DiscardsData(r)
  <2>1. PopNext(i) = NothingPopped([FailSending(j, s) EXCEPT !.sendQ = Push(@, s)])
    BY <1>3, <1>7
  <2>2. Content([FailSending(j, s) EXCEPT !.sendQ = Push(@, s)])
    BY <1>4, <1>5, <1>7, PopDiscardedContent
  <2> QED
    BY <1>6, <2>1, <2>2
<1>8. CASE data /\ ~DiscardsData(r) /\ IsBlocked(r)
  <2>1. PopNext(i) = NothingPopped(j)
    BY <1>3, <1>8
  <2> QED
    BY <1>4, <1>6, <2>1
<1>9. CASE data /\ ~DiscardsData(r) /\ ~IsBlocked(r)
  <2>1. PopNext(i) = PopData(j, s)
    BY <1>3, <1>9
  <2>2. Content(PopData(j, s).inner)
    BY <1>1, <1>4, <1>5, <1>9, PopDataContent
  <2> QED
    BY <2>1, <2>2
<1>10. CASE ~data /\ r.queue # <<>>
  <2>1. PopNext(i) = PopOther(j, s)
    BY <1>3, <1>10
  <2>2. Content(PopOther(j, s).inner)
    BY <1>4, <1>5, <1>10, PopOtherContent
  <2> QED
    BY <2>1, <2>2
<1>11. CASE r.queue = <<>> /\ IsScheduledReset(r.state)
  <2>1. PopNext(i) = PopScheduledReset(j, s)
    BY <1>3, <1>11
  <2>2. Content(PopScheduledReset(j, s).inner)
    BY <1>4, <1>5, PopScheduledResetContent
  <2> QED
    BY <2>1, <2>2
<1>12. CASE r.queue = <<>> /\ ~IsScheduledReset(r.state)
  <2> DEFINE b == IsPendingReset(j, s)
             k == TransitionAfter(j, s, b)
  <2>1. PopNext(i) = NothingPopped(k)
    BY <1>3, <1>12
  <2>2. b \in BOOLEAN
    BY DEF IsPendingReset, Contains
  <2> HIDE DEF b
  <2>3. Softens(j, k)
    BY <1>4, <1>5, <2>2, TransitionSoftens
  <2>4. Content(k)
    BY <1>4, <2>3, SoftensContent
  <2> QED
    BY <1>6, <2>1, <2>4
<1> QED
  BY <1>7, <1>8, <1>9, <1>10, <1>11, <1>12

LEMMA PopFrameContent ==
  ASSUME NEW i, Content(i), NEW low, Sound(i, Behind(Nothing, 0), low, 0), i.inFlight = Nothing
  PROVE  Result(i, PopFrame(i), low) /\ Content(PopFrame(i).inner)
<1> DEFINE good == {p \in PopResult : Result(i, p, low) /\ Content(p.inner)}
           step == [k \in Nat |-> [popped \in PopResult |-> PopTurn(popped)]]
           x == NothingPopped(i)
<1>1. x \in good
  BY NothingResult DEF Result, NothingPopped, Popped
<1>2. ASSUME NEW k \in 1 .. MaxTurns, NEW p \in good
      PROVE  step[k][p] \in good
  <2>1. step[k][p] = PopTurn(p)
    OBVIOUS
  <2>2. CASE p.stream # Nothing \/ p.inner.sendQ = <<>>
    BY <2>1, <2>2 DEF PopTurn
  <2>3. CASE p.stream = Nothing /\ p.inner.sendQ # <<>>
    <3>1. PopTurn(p) = PopNext(p.inner)
      BY <2>3 DEF PopTurn
    <3>2. /\ Sound(p.inner, Behind(Nothing, 0), low, 0) /\ p.inner.inFlight = Nothing
          /\ p.inner.peer = i.peer /\ p.inner.initWindow = i.initWindow
      BY <2>3 DEF Result
    <3>3. Result(p.inner, PopNext(p.inner), low)
      BY <2>3, <3>2, PopNextSound
    <3>4. Result(i, PopNext(p.inner), low)
      BY <3>2, <3>3 DEF Result
    <3>5. Content(PopNext(p.inner).inner)
      BY <2>3, <3>2, PopNextContent
    <3> QED
      BY <2>1, <3>1, <3>4, <3>5 DEF Result
  <2> QED
    BY <2>2, <2>3
<1>3. MaxTurns \in Nat
  BY SendAssumption DEF MaxTurns
<1>4. PopFrame(i) = Loop(step, x, MaxTurns)
  BY DEF PopFrame
<1> HIDE DEF step, good, x
<1>5. Loop(step, x, MaxTurns) \in good
  BY <1>1, <1>2, <1>3, LoopStays
<1> QED
  BY <1>4, <1>5 DEF good

LEMMA PushBackFrameContent ==
  ASSUME NEW i, Content(i), NEW s \in Streams, NEW rest \in 1 .. MaxWindow, NEW eos \in BOOLEAN
  PROVE  Content(PushBackFrame(i, s, rest, eos))
<1> DEFINE r == i.streams[s]
           frame == Frame("data", rest, eos)
           front == <<frame>> \o r.queue
           q == [r EXCEPT !.queue = front]
           w == With(i, s, q)
           sendQ == i.sendQ
           queue == Push(sendQ, s)
           j == PushBackFrame(i, s, rest, eos)
<1>1. /\ AllApt(i) /\ i \in InnerRecord /\ Apt(r) /\ r \in StreamRecord
      /\ sendQ \in Seq(Streams)
  BY ContentFacts DEF AllApt, Apt, InnerRecord
<1>2. frame \in Frames
  <2>1. rest \in 0 .. MaxWindow
    BY MaxWindowAssumption
  <2> QED
    BY <2>1 DEF Frames, Frame, Kinds
<1>3. j = IF r.flow.available > 0 THEN [w EXCEPT !.sendQ = queue] ELSE w
  BY <1>1 DEF PushBackFrame, With, InnerRecord
<1> HIDE DEF frame
<1>4. front \in Seq(Frames)
  <2> DEFINE u == r.queue
  <2>1. u \in Seq(Frames)
    BY <1>1 DEF StreamRecord
  <2> HIDE DEF u
  <2>2. <<frame>> \o u \in Seq(Frames)
    BY <1>2, <2>1, OctetsOfFront
  <2> QED
    BY <2>2 DEF u
<1>5. queue \in Seq(Streams)
  <2> HIDE DEF sendQ
  <2> QED
    BY <1>1, PushQueue
<1> HIDE DEF front, queue
<1>6. /\ q \in StreamRecord /\ q.flow = r.flow /\ q.state = r.state
      /\ q.requested = r.requested /\ q.buffered = r.buffered
  BY <1>1, <1>4 DEF StreamRecord
<1> HIDE DEF q
<1>7. Apt(q) /\ (Hungry(q) => Hungry(r))
  BY <1>1, <1>6, HungerStays
<1>8. Softens(i, w)
  BY <1>1, <1>7, EditSoftens
<1> HIDE DEF w, j
<1>9. Content(w) /\ w \in InnerRecord
  BY <1>8, SoftensContent DEF AllApt
<1>10. /\ j \in InnerRecord /\ j.streams = w.streams /\ j.flow = w.flow
       /\ j.capacityQ = w.capacityQ /\ j.openQ = w.openQ
  BY <1>3, <1>5, <1>9 DEF InnerRecord
<1>11. Content(j)
  BY <1>9, <1>10, SameStreamsContent
<1> QED
  BY <1>11 DEF j


----------------------------------------------------------------------------
(* Every action.                                                           *)

\* A record that asks for nothing is not hungry.
LEMMA FreshSoftens ==
  ASSUME NEW i, AllApt(i), NEW s \in Streams, NEW r, Apt(r), r.requested = 0
  PROVE  Softens(i, With(i, s, r)) /\ With(i, s, r).streams[s] = r
<1>1. r.flow.available >= Lesser(r.requested, WindowSize(r.flow))
  BY AptFacts, MaxWindowAssumption DEF Lesser
<1>2. ~Hungry(r)
  BY <1>1, FullNotHungry
<1>3. Hungry(r) => Hungry(i.streams[s])
  BY <1>2
<1> DEFINE j == With(i, s, r)
<1>4. Softens(i, j) /\ j.streams[s] = r /\ j.openQ = i.openQ
  BY <1>3, EditSoftens, ZenonT(60)
<1> QED
  BY <1>4

\* A smaller window takes capacity, and allows at least as much less.
LEMMA ShrinkApt ==
  ASSUME NEW r, Apt(r), NEW dec \in Nat
  PROVE  LET q == Shrink(r, dec)
         IN  Apt(q) /\ (Hungry(q) => Hungry(r))
<1> DEFINE d == DecSendWindow(r.flow, dec)
           size == WindowSize(d)
           less == ClaimCapacity(d, d.available - size)
           flow == IF d.available > size THEN less ELSE d
           q == [r EXCEPT !.flow = flow]
<1>1. /\ r \in StreamRecord /\ r.flow \in Flow
      /\ r.flow.window \in Int /\ r.flow.available \in Nat /\ r.flow.window <= MaxWindow
      /\ r.requested \in Nat /\ r.buffered \in Nat /\ r.buffered <= r.requested
      /\ Wanted(r) \in Nat
  BY AptFacts DEF Apt
<1>2. Shrink(r, dec) = q
  BY DEF Shrink
<1>3. /\ d \in Flow /\ d.available = r.flow.available
      /\ d.window \in Int /\ d.window <= r.flow.window
  <2> DEFINE w == r.flow.window - dec
  <2>1. w \in Int /\ w <= r.flow.window
    BY <1>1
  <2>2. d \in {r.flow, [r.flow EXCEPT !.window = w]}
    BY DEF DecSendWindow
  <2> HIDE DEF d, w
  <2> QED
    BY <1>1, <2>1, <2>2 DEF Flow
<1> HIDE DEF d
<1>4. size \in Nat /\ size <= WindowSize(r.flow) /\ WindowSize(r.flow) \in Nat
  BY <1>1, <1>3 DEF WindowSize, AsSize
<1>5. d.available > size =>
        less \in Flow /\ less.window = d.window /\ less.available = size
  <2> DEFINE sz == d.available - size
  <2>1. CanClaim(d, sz) /\ d.available - sz = size
    BY <1>1, <1>3, <1>4, MaxWindowAssumption DEF CanClaim, MinWindow
  <2>2. less = [d EXCEPT !.available = size]
    <3> HIDE DEF sz, size
    <3>1. less = [d EXCEPT !.available = d.available - sz]
      BY <2>1 DEF ClaimCapacity, sz
    <3> QED
      BY <2>1, <3>1
  <2> HIDE DEF size, less
  <2> QED
    BY <1>3, <1>4, <2>2 DEF Flow
<1> HIDE DEF less
<1>6. /\ flow \in Flow /\ flow.window = d.window /\ flow.available \in Nat
      /\ \/ flow.available = size
         \/ flow.available = r.flow.available
  <2> HIDE DEF size
  <2> QED
    BY <1>1, <1>3, <1>4, <1>5
<1> HIDE DEF flow
<1>7. /\ q \in StreamRecord /\ q.flow = flow /\ q.state = r.state
      /\ q.requested = r.requested /\ q.buffered = r.buffered
  BY <1>1, <1>6 DEF StreamRecord
<1> HIDE DEF q
<1>8. Apt(q)
  BY <1>1, <1>3, <1>6, <1>7, MaxWindowAssumption DEF Apt
<1>9. WindowSize(q.flow) = size
  BY <1>6, <1>7 DEF WindowSize
<1>10. Wanted(q) = Wanted(r) /\ (CanSendData(q) <=> CanSendData(r))
  BY <1>7 DEF Wanted, CanSendData
<1> HIDE DEF size
<1>11. Hungry(q) => Hungry(r)
  <2> SUFFICES ASSUME Hungry(q)
               PROVE  Hungry(r)
    OBVIOUS
  <2>1. Lesser(Wanted(r), size) > flow.available
    BY <1>7, <1>9, <1>10 DEF Hungry
  <2>2. Lesser(Wanted(r), size) <= size
        /\ Lesser(Wanted(r), size) <= Lesser(Wanted(r), WindowSize(r.flow))
        /\ Lesser(Wanted(r), size) \in Int /\ Lesser(Wanted(r), WindowSize(r.flow)) \in Int
    BY <1>1, <1>4 DEF Lesser
  <2>3. flow.available = r.flow.available
    BY <1>4, <1>6, <2>1, <2>2
  <2>4. Lesser(Wanted(r), WindowSize(r.flow)) > r.flow.available
    BY <1>1, <2>1, <2>2, <2>3
  <2> QED
    BY <1>10, <2>4 DEF Hungry
<1> QED
  BY <1>2, <1>8, <1>11

\* While the connection runs, nobody waits for capacity that is there.
NInv == Reading => Content(inner)

LEMMA ContentStays ==
  ASSUME NInv, Unchanged, Content(inner) => Content(inner')
  PROVE  NInv'
<1>1. Reading' => Reading
  BY DEF Unchanged, Reading
<1> QED
  BY <1>1 DEF NInv

LEMMA FailedIsContent ==
  ASSUME phase' \in {"failed", "dropped"}
  PROVE  NInv'
<1>1. ~Reading'
  BY DEF Reading
<1> QED
  BY <1>1 DEF NInv

\* A handler of stream s, and the transition at its end.
LEMMA TransitionStays ==
  ASSUME NInv, Unchanged, NEW s \in Streams, NEW i, NEW j, Content(inner) => Content(j),
         IsStored(j.streams[s]), inner' = Transition(i, j, s)
  PROVE  NInv'
<1>1. Content(inner) => Content(inner')
  BY TransitionContent
<1> QED
  BY <1>1, ContentStays

LEMMA AcceptContent ==
  ASSUME NInv, NEW s \in Streams, Accept(s)
  PROVE  NInv'
<1>1. inner' = [inner EXCEPT !.streams[s].handle = "held"] /\ Unchanged /\ "held" \in Handle
  BY DEF Accept, Handle
<1>2. ASSUME Content(inner) PROVE Content(inner')
  <2>1. AllApt(inner)
    BY <1>2, ContentFacts
  <2>2. Softens(inner, inner')
    BY <1>1, <2>1, HandleSoftens
  <2> QED
    BY <1>2, <2>2, SoftensContent
<1> QED
  BY <1>1, <1>2, ContentStays

\* The record of a stream that has just been opened.
LEMMA FreshApt ==
  ASSUME NEW w \in 0 .. MaxWindow, NEW handle \in Handle, NEW st \in States
  PROVE  LET new == NewStream("linked", handle, w)
             q == Requested(handle, w, st)
         IN  /\ Apt(new) /\ new.requested = 0
             /\ Apt(q) /\ q.requested = 0
<1> DEFINE new == NewStream("linked", handle, w)
           q == Requested(handle, w, st)
<1>1. 0 \in -MaxWindow .. 0
  BY MaxWindowAssumption
<1>2. new \in StreamRecord
  BY <1>1, FreshSound
<1>3. q \in StreamRecord
  BY <1>1, RequestedSound
<1>4. /\ new.requested = 0 /\ new.buffered = 0
      /\ new.flow.available = 0 /\ new.flow.window = w
  BY DEF NewStream
<1>5. q = [new EXCEPT !.state = st, !.counted = TRUE]
  BY DEF Requested
<1> HIDE DEF new, q
<1>6. q.requested = new.requested /\ q.buffered = new.buffered /\ q.flow = new.flow
  BY <1>2, <1>5 DEF StreamRecord
<1>7. Apt(new) /\ Apt(q)
  BY <1>2, <1>3, <1>4, <1>6, MaxWindowAssumption DEF Apt
<1> QED
  BY <1>4, <1>6, <1>7 DEF new, q

LEMMA SendRequestContent ==
  ASSUME NInv, NEW s \in Streams, NEW eos \in BOOLEAN, SendRequest(s, eos)
  PROVE  NInv'
<1> DEFINE w == inner.initWindow
           new == NewStream("linked", "held", w)
           i == [inner EXCEPT !.streams[s] = new]
<1>1. Unchanged /\ inner' = SendHeaders(i, s, eos)
  BY DEF SendRequest
<1>2. ASSUME Content(inner) PROVE Content(inner')
  <2>1. AllApt(inner) /\ w \in 0 .. MaxWindow
    BY <1>2, ContentFacts DEF AllApt, InnerRecord
  <2>2. Apt(new) /\ new.requested = 0
    <3>1. "held" \in Handle /\ Idle \in States
      BY DEF Handle, States
    <3> HIDE DEF w
    <3> QED
      BY <2>1, <3>1, FreshApt
  <2>3. i = With(inner, s, new)
    BY DEF With
  <2> HIDE DEF new, i
  <2>4. Softens(inner, i) /\ i.streams[s] = new
    BY <2>1, <2>2, <2>3, FreshSoftens
  <2>5. Content(i)
    BY <1>2, <2>4, SoftensContent
  <2> QED
    BY <1>1, <2>2, <2>4, <2>5, SendHeadersContent
<1> QED
  BY <1>1, <1>2, ContentStays

LEMMA SendResponseContent ==
  ASSUME IInv, NInv, NEW s \in Streams, NEW eos \in BOOLEAN, SendResponse(s, eos)
  PROVE  NInv'
<1> DEFINE r == inner.streams[s]
           extra == Flying(inner, codec.rest)
           j == SendHeaders(inner, s, eos)
<1>1. /\ IsStored(r) /\ Whole(inner, codec.rest, Low) /\ codec.rest \in Nat
      /\ Unchanged /\ inner' = Transition(inner, j, s)
  BY InvFacts DEF SendResponse, Held
<1>2. IsServer(inner) /\ CanSendOpen(r.state)
  BY DEF SendResponse, IsServer
<1>3. Handled(inner, j, s)
  BY <1>1, <1>2, SendHeadersSound
<1>4. r.requested = 0
  <2>1. StoredSound(r, extra[s], Low[s], IsServer(inner))
    <3> HIDE DEF extra
    <3>1. Sound(inner, extra, Low, 0)
      BY <1>1 DEF Whole, extra
    <3> QED
      BY <1>1, <3>1, StoredAt
  <2> HIDE DEF r
  <2> QED
    BY <1>2, <2>1 DEF StoredSound, Unasked
<1>5. Content(inner) => Content(j)
  BY <1>4, SendHeadersContent
<1> HIDE DEF j
<1> QED
  BY <1>1, <1>3, <1>5, TransitionStays DEF Handled

LEMMA SendInformationalContent ==
  ASSUME IInv, NInv, NEW s \in Streams, SendInformational(s)
  PROVE  NInv'
<1> DEFINE frame == Frame("informational", 0, FALSE)
           j == QueueFrame(inner, s, frame)
<1>1. IsStored(inner.streams[s]) /\ Sound(inner, Flying(inner, codec.rest), Low, 0)
  BY InvFacts DEF SendInformational, Held, Whole
<1>2. frame \in Frames /\ frame.sz = 0
  BY MaxWindowAssumption DEF Frame, Frames, Kinds
<1>3. Unchanged /\ inner' = Transition(inner, j, s)
  BY DEF SendInformational
<1> HIDE DEF frame
<1>4. Handled(inner, j, s)
  BY <1>1, <1>2, QueueFrameSound
<1>5. Content(inner) => Content(j)
  BY <1>2, ContentFacts, QueueFrameSoftens, SoftensContent
<1> HIDE DEF j
<1> QED
  BY <1>3, <1>4, <1>5, TransitionStays DEF Handled

LEMMA SendDataFrameContent ==
  ASSUME IInv, NInv, NEW s \in Streams, NEW sz \in Sizes, NEW eos \in BOOLEAN,
         SendDataFrame(s, sz, eos)
  PROVE  NInv'
<1> DEFINE j == SendChunk(inner, s, sz, eos)
<1>1. /\ IsStored(inner.streams[s]) /\ Whole(inner, codec.rest, Low) /\ codec.rest \in Nat
      /\ Unchanged /\ inner' = Transition(inner, j, s)
  BY InvFacts DEF SendDataFrame, Held
<1>2. /\ IsSendStreaming(inner.streams[s].state)
      /\ inner.streams[s].buffered + sz <= MaxBuffered /\ sz \in 0 .. MaxWindow
  BY SendAssumption DEF SendDataFrame, HasRoom
<1>3. Handled(inner, j, s)
  BY <1>1, <1>2, SendChunkSound
<1>4. Content(inner) => Content(j)
  BY <1>2, SendChunkContent
<1> HIDE DEF j
<1> QED
  BY <1>1, <1>3, <1>4, TransitionStays DEF Handled

LEMMA SendTrailersFrameContent ==
  ASSUME IInv, NInv, NEW s \in Streams, SendTrailersFrame(s)
  PROVE  NInv'
<1> DEFINE j == SendTrailers(inner, s)
<1>1. /\ IsStored(inner.streams[s]) /\ Whole(inner, codec.rest, Low) /\ codec.rest \in Nat
      /\ IsSendStreaming(inner.streams[s].state)
      /\ Unchanged /\ inner' = Transition(inner, j, s)
  BY InvFacts DEF SendTrailersFrame, Held
<1>2. Handled(inner, j, s)
  BY <1>1, SendTrailersSound
<1>3. Content(inner) => Content(j)
  BY SendTrailersContent
<1> HIDE DEF j
<1> QED
  BY <1>1, <1>2, <1>3, TransitionStays DEF Handled

LEMMA ReserveStays ==
  ASSUME NInv, NEW s \in Streams, NEW capacity \in Reservations, Reserve(s, capacity)
  PROVE  NInv'
<1>1. inner' = ReserveCapacity(inner, s, capacity) /\ Unchanged /\ capacity \in Nat
  BY SendAssumption, MaxWindowAssumption DEF Reserve
<1>2. Content(inner) => Content(inner')
  BY <1>1, ReserveContent
<1> QED
  BY <1>1, <1>2, ContentStays

\* A user, or a malformed message, resets the stream.
LEMMA ResettingContent ==
  ASSUME IInv, NInv, NEW s \in Streams, IsStored(inner.streams[s]), Unchanged,
         inner' = Transition(inner, ResetStream(inner, s), s)
  PROVE  NInv'
<1> DEFINE j == ResetStream(inner, s)
<1>1. Whole(inner, codec.rest, Low) /\ codec.rest \in Nat
  BY InvFacts
<1>2. Handled(inner, j, s)
  BY <1>1, ResetStreamSound
<1>3. Content(inner) => Content(j)
  BY ResetStreamContent
<1>4. inner' = Transition(inner, j, s)
  OBVIOUS
<1> HIDE DEF j
<1> QED
  BY <1>2, <1>3, <1>4, TransitionStays DEF Handled

LEMMA DropStreamRefContent ==
  ASSUME IInv, NInv, NEW s \in Streams, DropStreamRef(s)
  PROVE  NInv'
<1> DEFINE dropped == [inner EXCEPT !.streams[s].handle = "dropped"]
           j == MaybeCancel(dropped, s)
<1>1. /\ IsStored(inner.streams[s]) /\ Whole(inner, codec.rest, Low) /\ codec.rest \in Nat
      /\ inner' = Transition(inner, j, s) /\ Unchanged
  BY InvFacts DEF DropStreamRef, Held
<1>2. "dropped" \in Handle
  BY DEF Handle
<1>3. Whole(dropped, codec.rest, Low) /\ Handled(inner, dropped, s)
  BY <1>1, <1>2, HandleSound
<1>4. Content(inner) => Content(dropped)
  BY <1>2, ContentFacts, HandleSoftens, SoftensContent
<1> HIDE DEF dropped
<1>5. Handled(dropped, j, s)
  BY <1>1, <1>3, MaybeCancelSound DEF Handled
<1>6. Content(inner) => Content(j)
  BY <1>4, MaybeCancelContent
<1> HIDE DEF j
<1> QED
  BY <1>1, <1>5, <1>6, TransitionStays DEF Handled

\* The receiving half moves on, and no DATA may start.
LEMMA ReceivingContent ==
  ASSUME NInv, Unchanged, NEW s \in Streams, NEW st \in States, IsStored(inner.streams[s]),
         IsSendStreaming(st) => IsSendStreaming(inner.streams[s].state),
         inner' = Transition(inner, [inner EXCEPT !.streams[s].state = st], s)
  PROVE  NInv'
<1> DEFINE j == [inner EXCEPT !.streams[s].state = st]
           r == inner.streams[s]
<1>1. ASSUME Content(inner)
      PROVE  Content(Transition(inner, j, s))
  <2>1. AllApt(inner) /\ r \in StreamRecord
    BY <1>1, ContentFacts DEF AllApt, Apt
  <2>2. Softens(inner, j) /\ j.streams[s] = WithState(r, st)
    BY <2>1, StateSoftens
  <2>3. j.streams[s].place = r.place
    BY <2>1, <2>2, WithStateFields
  <2> HIDE DEF j
  <2>4. Content(j) /\ IsStored(j.streams[s])
    BY <1>1, <2>2, <2>3, SoftensContent DEF IsStored
  <2> QED
    BY <2>4, TransitionContent
<1> QED
  BY <1>1, ContentStays

LEMMA RecvResponseContent ==
  ASSUME IInv, NInv, NEW s \in Streams, NEW eos \in BOOLEAN, RecvResponse(s, eos)
  PROVE  NInv'
<1> DEFINE st == RecvOpen(inner.streams[s].state, eos, FALSE)
<1>1. IsStored(inner.streams[s]) /\ inner.streams[s].state \in States
  BY InvFacts, StateType DEF RecvResponse, Receives
<1>2. st \in States /\ (IsSendStreaming(st) => IsSendStreaming(inner.streams[s].state))
  BY <1>1, NoNewDiscards, NoNewStreaming
<1>3. inner' = Transition(inner, [inner EXCEPT !.streams[s].state = st], s) /\ Unchanged
  BY DEF RecvResponse
<1> HIDE DEF st
<1> QED
  BY <1>1, <1>2, <1>3, ReceivingContent

LEMMA RecvEndStreamContent ==
  ASSUME IInv, NInv, NEW s \in Streams, RecvEndStream(s)
  PROVE  NInv'
<1> DEFINE st == RecvClose(inner.streams[s].state)
<1>1. /\ IsStored(inner.streams[s]) /\ inner.streams[s].state \in States
      /\ inner.streams \in [Streams -> StreamRecord] /\ inner \in InnerRecord
  BY InvFacts, StateType DEF RecvEndStream, Receives
<1>2. st \in States /\ (IsSendStreaming(st) => IsSendStreaming(inner.streams[s].state))
  BY <1>1, NoNewDiscards, NoNewStreaming
<1>3. inner' = Transition(inner, [inner EXCEPT !.streams[s].state = st], s) /\ Unchanged
  BY <1>1 DEF RecvEndStream, InnerRecord
<1> HIDE DEF st
<1> QED
  BY <1>1, <1>2, <1>3, ReceivingContent

LEMMA RecvRstStreamContent ==
  ASSUME IInv, NInv, NEW s \in Streams, RecvRstStream(s)
  PROVE  NInv'
<1> DEFINE queued == Contains(inner.sendQ, s)
           r == inner.streams[s]
           st == RecvReset(r.state, queued)
           reset == [inner EXCEPT !.streams[s].state = st]
           j == FailSending(reset, s)
<1>1. /\ IsStored(r) /\ r.state \in States /\ r \in StreamRecord
      /\ inner.streams \in [Streams -> StreamRecord] /\ inner \in InnerRecord
  BY InvFacts, StateType DEF RecvRstStream, Receives
<1>2. queued \in BOOLEAN
  BY DEF Contains
<1> HIDE DEF queued
<1>3. st \in States /\ ~IsSendStreaming(st)
  <2>1. st \in States
    BY <1>1, <1>2, NoNewDiscards
  <2>2. IsClosed(st)
    BY DEF RecvReset, CloseWith, IsClosed, Closed
  <2> QED
    BY <2>1, <2>2, ClosedNotStreaming
<1>4. reset = [inner EXCEPT !.streams[s].state = RecvReset(@, queued)]
  BY <1>1 DEF InnerRecord
<1>5. inner' = Transition(inner, j, s) /\ Unchanged
  BY <1>4 DEF RecvRstStream, queued
<1> HIDE DEF st
<1>6. ASSUME Content(inner)
      PROVE  Content(inner')
  <2>1. AllApt(inner)
    BY <1>6, ContentFacts
  <2>2. /\ Softens(inner, reset) /\ reset.streams[s] = WithState(r, st)
        /\ reset.streams[s].state = st
    BY <1>3, <2>1, StateSoftens
  <2>3. reset.streams[s].place = r.place
    BY <1>1, <2>2, WithStateFields
  <2> HIDE DEF reset
  <2>4. Content(j) /\ j.streams[s].place = r.place
    BY <1>3, <1>6, <2>2, <2>3, SoftensContent, FailSendingContent
  <2> HIDE DEF j
  <2> QED
    BY <1>1, <1>5, <2>4, TransitionContent DEF IsStored
<1> QED
  BY <1>5, <1>6, ContentStays


LEMMA RecvRequestContent ==
  ASSUME IInv, NInv, NEW s \in Streams, NEW eos \in BOOLEAN,
         NEW handle \in {"waiting", "dropped"}, RecvRequest(s, eos, handle)
  PROVE  NInv'
<1> DEFINE st == RecvOpen(Idle, eos, FALSE)
           w == inner.initWindow
           q == Requested(handle, w, st)
           opened == [inner EXCEPT !.streams[s] = q, !.numStreams = @ + 1]
           reset == ResetStream(opened, s)
           headed == SendHeaders(opened, s, TRUE)
           scheduled == ScheduleImplicitReset(headed, s, "PROTOCOL_ERROR")
           refused == EnqueueResetExpiration(scheduled, s)
<1>1. NewStream("linked", handle, inner.initWindow).state = Idle
  BY DEF NewStream
<1>2. /\ inner.peer = "server" /\ inner.streams[s].place = "new" /\ Unchanged
      /\ \/ inner' = opened
         \/ inner' = Transition(opened, reset, s)
         \/ inner' = Transition(opened, refused, s)
  BY <1>1 DEF RecvRequest, IsNext, Requested
<1>3. /\ handle \in Handle /\ IsServer(inner) /\ codec.rest \in Nat
      /\ "PROTOCOL_ERROR" \in Reasons /\ "PROTOCOL_ERROR" # "NO_ERROR" /\ TRUE \in BOOLEAN
      /\ inner \in InnerRecord
  BY <1>2, InvFacts, InvAmple DEF Handle, IsServer, Reasons
<1>4. /\ Whole(opened, codec.rest, Low) /\ IsServer(opened)
      /\ IsStored(opened.streams[s]) /\ CanSendOpen(opened.streams[s].state)
  BY <1>2, <1>3, RequestOpens
<1>5. opened.streams[s] = q
  BY <1>3 DEF InnerRecord
<1>6. ASSUME Content(inner)
      PROVE  Content(opened) /\ opened.streams[s].requested = 0
  <2> DEFINE i == With(inner, s, q)
             n == inner.numStreams + 1
  <2>1. AllApt(inner) /\ w \in 0 .. MaxWindow /\ n \in Int
    BY <1>3, <1>6, ContentFacts DEF InnerRecord
  <2>2. Idle \in States
    BY DEF States
  <2>3. st \in States
    BY <2>2, NoNewDiscards
  <2> HIDE DEF st, w
  <2>4. Apt(q) /\ q.requested = 0
    BY <1>3, <2>1, <2>3, FreshApt
  <2>5. opened = [i EXCEPT !.numStreams = n]
    BY <1>3 DEF With, InnerRecord
  <2> HIDE DEF q, n, opened
  <2>6. Softens(inner, i)
    BY <2>1, <2>4, FreshSoftens
  <2> HIDE DEF i
  <2>7. Content(i) /\ i \in InnerRecord
    BY <1>6, <2>6, SoftensContent DEF AllApt
  <2>8. /\ opened \in InnerRecord /\ opened.streams = i.streams /\ opened.flow = i.flow
        /\ opened.capacityQ = i.capacityQ /\ opened.openQ = i.openQ
    BY <2>1, <2>5, <2>7 DEF InnerRecord
  <2> QED
    BY <1>5, <2>4, <2>7, <2>8, SameStreamsContent
<1> HIDE DEF opened
<1>7. CASE inner' = opened
  BY <1>2, <1>6, <1>7, ContentStays
<1>8. CASE inner' = Transition(opened, reset, s)
  <2>1. Handled(opened, reset, s)
    BY <1>3, <1>4, ResetStreamSound
  <2>2. Content(inner) => Content(reset)
    BY <1>6, ResetStreamContent
  <2> HIDE DEF reset
  <2> QED
    BY <1>2, <1>8, <2>1, <2>2, TransitionStays DEF Handled
<1>9. CASE inner' = Transition(opened, refused, s)
  <2>1. Whole(headed, codec.rest, Low) /\ Handled(opened, headed, s)
    BY <1>3, <1>4, SendHeadersSound
  <2>2. Content(inner) => Content(headed)
    BY <1>6, SendHeadersContent
  <2> HIDE DEF headed
  <2>3. Whole(scheduled, codec.rest, Low) /\ Handled(headed, scheduled, s)
    BY <1>3, <2>1, ScheduleImplicitResetSound DEF Handled
  <2>4. Content(inner) => Content(scheduled)
    BY <1>3, <2>2, ScheduleImplicitResetContent
  <2> HIDE DEF scheduled
  <2>5. Handled(scheduled, refused, s)
    BY <2>3, EnqueueResetWhole DEF Handled
  <2>6. Content(inner) => Content(refused)
    BY <2>4, ContentFacts, EnqueueResetSoftens, SoftensContent
  <2> HIDE DEF refused
  <2> QED
    BY <1>2, <1>9, <2>5, <2>6, TransitionStays DEF Handled
<1> QED
  BY <1>2, <1>7, <1>8, <1>9

LEMMA RecvStreamWindowUpdateContent ==
  ASSUME NInv, NEW s \in Streams, NEW inc \in Increments, RecvStreamWindowUpdate(s, inc)
  PROVE  NInv'
<1> DEFINE update == StreamWindowUpdate(inner, s, inc)
           i == update.inner
           j == EnqueueResetExpiration(i, s)
<1>1. Unchanged /\ inner' = IF update.ok THEN i ELSE j
  BY DEF RecvStreamWindowUpdate
<1>2. inc \in Nat
  BY SendAssumption, MaxWindowAssumption
<1>3. Content(inner) => Content(i)
  BY <1>2, WindowUpdateContent
<1> HIDE DEF update, i
<1>4. Content(inner) => Content(j)
  BY <1>3, ContentFacts, EnqueueResetSoftens, SoftensContent
<1> QED
  BY <1>1, <1>3, <1>4, ContentStays

LEMMA RecvConnectionWindowUpdateContent ==
  ASSUME NInv, NEW inc \in Increments, RecvConnectionWindowUpdate(inc)
  PROVE  NInv'
<1> DEFINE flow == IncWindow(inner.flow, inc)
           j == [inner EXCEPT !.flow = IncWindow(@, inc)]
           k == AssignConnection(j, inc)
<1>1. inner' = k /\ Unchanged /\ CanIncWindow(inner.flow, inc)
  BY DEF RecvConnectionWindowUpdate
<1>2. ASSUME Content(inner) PROVE Content(k)
  <2>1. /\ inner \in InnerRecord /\ inner.flow \in Flow /\ inc \in Int
        /\ Heeded(inner) /\ AllApt(inner)
    BY <1>2, ContentFacts, SendAssumption, MaxWindowAssumption DEF AllApt, InnerRecord
  <2>2. flow \in Flow
    <3> DEFINE w == inner.flow.window + inc
    <3>1. flow = [inner.flow EXCEPT !.window = w] /\ w \in Int
      BY <1>1, <2>1 DEF IncWindow, Flow
    <3> HIDE DEF w, flow
    <3> QED
      BY <2>1, <3>1 DEF Flow
  <2>3. j = [inner EXCEPT !.flow = flow]
    BY <2>1 DEF InnerRecord
  <2> HIDE DEF flow, j
  <2>4. /\ j \in InnerRecord /\ j.streams = inner.streams
        /\ j.capacityQ = inner.capacityQ /\ j.openQ = inner.openQ
    BY <2>1, <2>2, <2>3 DEF InnerRecord
  <2>5. Heeded(j)
    BY <2>1, <2>4 DEF Heeded, AllApt, Craves
  <2> QED
    BY <2>1, <2>5, AssignConnectionContent
<1> HIDE DEF k
<1> QED
  BY <1>1, <1>2, ContentStays

LEMMA RecvSmallerInitialWindowContent ==
  ASSUME NInv, NEW sz \in InitWindows, RecvSmallerInitialWindow(sz)
  PROVE  NInv'
<1> DEFINE dec == inner.initWindow - sz
           strs == [s \in Streams |->
                      IF s \in Linked(inner) /\ ~CannotSend(inner.streams[s])
                        THEN Shrink(inner.streams[s], inner.initWindow - sz)
                        ELSE inner.streams[s]]
           lost == Total([s \in Streams |-> inner.streams[s].flow.available
                                              - strs[s].flow.available], NStreams)
           j == [inner EXCEPT !.initWindow = sz, !.streams = strs]
           k == AssignConnection(j, lost)
<1>1. sz < inner.initWindow /\ inner' = k /\ Unchanged
  BY DEF RecvSmallerInitialWindow
<1>2. ASSUME Content(inner) PROVE Content(k)
  <2>1. /\ inner \in InnerRecord /\ inner.streams \in [Streams -> StreamRecord]
        /\ sz \in 0 .. MaxWindow /\ inner.initWindow \in 0 .. MaxWindow
        /\ Heeded(inner) /\ AllApt(inner)
    BY <1>2, ContentFacts, SendAssumption DEF AllApt, InnerRecord
  <2>2. dec \in Nat
    BY <1>1, <2>1, MaxWindowAssumption
  <2>3. ASSUME NEW t \in Streams
        PROVE  Apt(strs[t]) /\ (Hungry(strs[t]) => Hungry(inner.streams[t]))
    <3> DEFINE r == inner.streams[t]
    <3>1. Apt(r)
      BY <2>1 DEF AllApt
    <3>2. strs[t] \in {r, Shrink(r, dec)}
      OBVIOUS
    <3> HIDE DEF dec, strs, r
    <3>3. CASE strs[t] = r
      BY <3>1, <3>3 DEF r
    <3>4. CASE strs[t] = Shrink(r, dec)
      BY <2>2, <3>1, <3>4, ShrinkApt DEF r
    <3> QED
      BY <3>2, <3>3, <3>4
  <2>4. strs \in [Streams -> StreamRecord]
    <3>1. \A t \in Streams : strs[t] \in StreamRecord
      BY <2>3 DEF Apt
    <3> QED
      BY <3>1
  <2> HIDE DEF strs, dec
  <2>5. lost \in Int
    <3> DEFINE f == [s \in Streams |-> inner.streams[s].flow.available - strs[s].flow.available]
    <3>1. \A s \in Streams : f[s] \in Int
      BY <2>1, <2>4 DEF StreamRecord, Flow
    <3>2. lost = Total(f, NStreams)
      OBVIOUS
    <3> HIDE DEF f, lost
    <3>3. Summable(f, NStreams)
      BY <3>1, StreamsType DEF Summable
    <3>4. NStreams \in Nat
      BY StreamsType
    <3>5. PICK sum \in [0 .. NStreams -> Int] : Total(f, NStreams) = sum[NStreams]
      BY <3>3, <3>4, TotalIsPartialSum
    <3> QED
      BY <3>2, <3>4, <3>5
  <2> HIDE DEF lost
  <2>6. /\ j \in InnerRecord /\ j.streams = strs
        /\ j.capacityQ = inner.capacityQ /\ j.openQ = inner.openQ
    BY <2>1, <2>4 DEF InnerRecord
  <2> HIDE DEF j
  <2>7. Heeded(j)
    <3>1. AllApt(j)
      BY <2>3, <2>6 DEF AllApt
    <3>2. \A t \in Streams : Craves(j, t) => Craves(inner, t)
      BY <2>3, <2>6 DEF Craves
    <3> QED
      BY <2>1, <2>6, <3>1, <3>2 DEF Heeded
  <2> QED
    BY <2>5, <2>7, AssignConnectionContent
<1> HIDE DEF k
<1> QED
  BY <1>1, <1>2, ContentStays

LEMMA RecvLargerInitialWindowContent ==
  ASSUME NInv, NEW sz \in InitWindows, RecvLargerInitialWindow(sz)
  PROVE  NInv'
<1> DEFINE i == [inner EXCEPT !.initWindow = sz]
           inc == sz - inner.initWindow
<1>1. PICK order \in Orders :
        LET updated == UpdateAll(i, order, inc)
        IN  IF updated.ok THEN inner' = updated.inner /\ Unchanged
                          ELSE FailConnection(updated.inner)
  BY DEF RecvLargerInitialWindow
<1> DEFINE updated == UpdateAll(i, order, inc)
<1>2. ASSUME Content(inner) PROVE Content(updated.inner)
  <2>1. /\ inner \in InnerRecord /\ sz \in 0 .. MaxWindow
        /\ inner.initWindow \in 0 .. MaxWindow /\ sz > inner.initWindow
    BY <1>2, ContentFacts, SendAssumption DEF RecvLargerInitialWindow, AllApt, InnerRecord
  <2>2. inc \in Nat
    BY <2>1, MaxWindowAssumption
  <2>3. /\ i \in InnerRecord /\ i.streams = inner.streams /\ i.flow = inner.flow
        /\ i.capacityQ = inner.capacityQ /\ i.openQ = inner.openQ
    BY <2>1 DEF InnerRecord
  <2> HIDE DEF i, inc
  <2>4. Content(i)
    BY <1>2, <2>3, SameStreamsContent
  <2> QED
    BY <2>2, <2>4, UpdateAllContent
<1> HIDE DEF updated
<1>3. CASE updated.ok
  <2>1. inner' = updated.inner /\ Unchanged
    BY <1>1, <1>3 DEF updated
  <2> QED
    BY <1>2, <2>1, ContentStays
<1>4. CASE ~updated.ok
  <2>1. FailConnection(updated.inner)
    BY <1>1, <1>4 DEF updated
  <2> QED
    BY <2>1, FailedIsContent DEF FailConnection
<1> QED
  BY <1>3, <1>4

LEMMA RecvMaxConcurrentStreamsContent ==
  ASSUME NInv, NEW limit \in Limits, RecvMaxConcurrentStreams(limit)
  PROVE  NInv'
<1>1. inner' = [inner EXCEPT !.maxStreams = limit] /\ Unchanged
  BY DEF RecvMaxConcurrentStreams
<1>2. ASSUME Content(inner) PROVE Content(inner')
  <2>1. inner \in InnerRecord /\ limit \in Nat
    BY <1>2, ContentFacts, SendAssumption DEF AllApt
  <2>2. /\ inner' \in InnerRecord /\ inner'.streams = inner.streams /\ inner'.flow = inner.flow
        /\ inner'.capacityQ = inner.capacityQ /\ inner'.openQ = inner.openQ
    BY <1>1, <2>1 DEF InnerRecord
  <2> QED
    BY <1>2, <2>2, SameStreamsContent
<1> QED
  BY <1>1, <1>2, ContentStays

LEMMA RecvGoAwayContent ==
  ASSUME NInv, NEW last \in LastStreams, RecvGoAway(last)
  PROVE  NInv'
<1>1. PICK order \in Orders :
        inner' = [IF inner.peer = "client"
                    THEN FailAfter(inner, order, last, "RemoteGoAway") ELSE inner
                      EXCEPT !.maxStreamId = last]
  BY DEF RecvGoAway
<1> DEFINE i == IF inner.peer = "client"
                  THEN FailAfter(inner, order, last, "RemoteGoAway") ELSE inner
<1>2. "RemoteGoAway" \in Errors /\ last \in Nat
  BY SendAssumption DEF Errors, RemoteErrors
<1>3. Content(inner)
  BY DEF NInv, RecvGoAway
<1>4. Content(i) /\ i \in InnerRecord
  BY <1>2, <1>3, FailAfterContent, ContentFacts DEF AllApt
<1>5. inner' = [i EXCEPT !.maxStreamId = last]
  BY <1>1
<1> HIDE DEF i
<1>6. /\ inner' \in InnerRecord /\ inner'.streams = i.streams /\ inner'.flow = i.flow
      /\ inner'.capacityQ = i.capacityQ /\ inner'.openQ = i.openQ
  BY <1>2, <1>4, <1>5 DEF InnerRecord
<1> QED
  BY <1>4, <1>6, SameStreamsContent DEF NInv

LEMMA ExpireResetContent ==
  ASSUME IInv, NInv, ExpireReset
  PROVE  NInv'
<1> DEFINE resetQ == inner.resetQ
           s == Head(resetQ)
           q == Tail(resetQ)
           c == [inner EXCEPT !.resetQ = q]
<1>1. Unchanged /\ inner' = TransitionAfter(c, s, TRUE) /\ resetQ # <<>>
  BY DEF ExpireReset, Expire
<1>2. /\ Sound(inner, Flying(inner, codec.rest), Low, 0) /\ inner \in InnerRecord
      /\ resetQ \in Seq(Streams)
  BY InvFacts, SoundType DEF Whole
<1>3. s \in Streams /\ Contains(resetQ, s) /\ q \in Seq(Streams)
  <2> HIDE DEF resetQ
  <2> QED
    BY <1>1, <1>2, TailQueue
<1>4. IsStored(inner.streams[s])
  BY <1>2, <1>3, StoredInQueue DEF InQueue
<1> HIDE DEF q, s, resetQ
<1>5. /\ c \in InnerRecord /\ c.streams = inner.streams /\ c.flow = inner.flow
      /\ c.capacityQ = inner.capacityQ /\ c.openQ = inner.openQ
  BY <1>2, <1>3 DEF InnerRecord
<1> HIDE DEF c
<1>6. ASSUME Content(inner) PROVE Content(inner')
  <2>1. Content(c) /\ AllApt(c) /\ IsStored(c.streams[s])
    BY <1>4, <1>5, <1>6, SameStreamsContent, ContentFacts
  <2>2. Softens(c, inner')
    BY <1>1, <1>3, <2>1, TransitionSoftens
  <2> QED
    BY <2>1, <2>2, SoftensContent
<1> QED
  BY <1>1, <1>6, ContentStays

LEMMA BufferPendingContent ==
  ASSUME IInv, NInv, BufferPending
  PROVE  NInv'
<1> DEFINE none == Behind(Nothing, 0)
           i == PopPendingOpen(inner)
           p == PopFrame(i)
           chained == p.frame.kind = "data" /\ p.frame.sz >= ChainThreshold
<1>1. codec.rest = 0 /\ inner.inFlight = Nothing /\ phase' = phase
  <2>1. NoFrame \notin HeldFrames
    BY StreamsType DEF HeldFrames, NoFrame, Nothing, Nobody
  <2> QED
    BY <2>1 DEF IInv, CodecSound, BufferPending, NoFrame
<1>2. CASE ~Reading
  BY <1>1, <1>2 DEF NInv, Reading
<1>3. CASE Reading
  <2>1. Content(i)
    BY <1>3, PopPendingOpenContent DEF NInv
  <2>2. Sound(inner, none, Low, 0)
    BY <1>1, NoRest DEF IInv, Whole
  <2>3. Sound(i, none, Low, 0) /\ i.inFlight = Nothing
    BY <1>1, <2>2, PopPendingOpenSound
  <2>4. IF p.stream # Nothing /\ chained
          THEN inner' = [p.inner EXCEPT !.inFlight = p.stream]
          ELSE inner' = IF p.rest > 0 THEN PushBackFrame(p.inner, p.stream, p.rest, p.eos)
                                      ELSE p.inner
    BY DEF BufferPending
  <2> HIDE DEF i
  <2>5. Result(i, p, Low) /\ Content(p.inner)
    BY <2>1, <2>3, PopFrameContent
  <2> HIDE DEF p, chained
  <2>6. /\ p.inner \in InnerRecord /\ p.rest \in 0 .. MaxWindow
        /\ (p.stream = Nothing => p.rest = 0)
        /\ p.stream \in Streams \cup {Nothing} /\ p.eos \in BOOLEAN
    BY <2>5 DEF Result, PopResult
  <2>7. Content(inner')
    <3>1. CASE p.stream # Nothing /\ chained
      <4>1. /\ inner' \in InnerRecord /\ inner'.streams = p.inner.streams
            /\ inner'.flow = p.inner.flow /\ inner'.capacityQ = p.inner.capacityQ
            /\ inner'.openQ = p.inner.openQ
        BY <2>4, <2>6, <3>1 DEF InnerRecord
      <4> QED
        BY <2>5, <4>1, SameStreamsContent
    <3>2. CASE ~(p.stream # Nothing /\ chained) /\ p.rest > 0
      <4>1. p.stream \in Streams /\ p.rest \in 1 .. MaxWindow
        BY <2>6, <3>2, MaxWindowAssumption
      <4>2. inner' = PushBackFrame(p.inner, p.stream, p.rest, p.eos)
        BY <2>4, <3>2
      <4> QED
        BY <2>5, <2>6, <4>1, <4>2, PushBackFrameContent
    <3>3. CASE ~(p.stream # Nothing /\ chained) /\ ~(p.rest > 0)
      BY <2>4, <2>5, <3>3
    <3> QED
      BY <3>1, <3>2, <3>3
  <2> QED
    BY <2>7 DEF NInv
<1> QED
  BY <1>2, <1>3

LEMMA ReclaimFrameContent ==
  ASSUME IInv, NInv, ReclaimFrame
  PROVE  NInv'
<1> DEFINE s == codec.stream
           rest == codec.rest
           j == [inner EXCEPT !.inFlight = Nothing]
<1>1. codec \in HeldFrames /\ phase' = phase
  BY DEF IInv, CodecSound, ReclaimFrame, NoFrame
<1>2. s \in Streams /\ rest \in 0 .. MaxWindow /\ codec.eos \in BOOLEAN
  BY <1>1 DEF HeldFrames
<1>3. inner' = IF inner.inFlight # Drop /\ rest > 0
                 THEN PushBackFrame(j, s, rest, codec.eos) ELSE j
  BY DEF ReclaimFrame
<1>4. inner \in InnerRecord
  BY InvAmple
<1>5. /\ j \in InnerRecord /\ j.streams = inner.streams /\ j.flow = inner.flow
      /\ j.capacityQ = inner.capacityQ /\ j.openQ = inner.openQ
  BY <1>4 DEF InnerRecord
<1> HIDE DEF j, s, rest
<1>6. ASSUME Content(inner) PROVE Content(inner')
  <2>1. Content(j)
    BY <1>5, <1>6, SameStreamsContent
  <2>2. CASE inner.inFlight # Drop /\ rest > 0
    <3>1. rest \in 1 .. MaxWindow
      BY <1>2, <2>2, MaxWindowAssumption
    <3> QED
      BY <1>2, <1>3, <2>1, <2>2, <3>1, PushBackFrameContent
  <2>3. CASE ~(inner.inFlight # Drop /\ rest > 0)
    BY <1>3, <2>1, <2>3
  <2> QED
    BY <2>2, <2>3
<1> QED
  BY <1>1, <1>6 DEF NInv, Reading


----------------------------------------------------------------------------
(* No step forgets a waiter.                                               *)

LEMMA InitContent ==
  ASSUME IInv, Init
  PROVE  NInv
<1> DEFINE new == NewStream("new", "waiting", 0)
<1>1. inner \in InnerRecord
  BY InvAmple
<1>2. \A s \in Streams : inner.streams[s] = new
  BY DEF Init
<1>3. /\ new.requested = 0 /\ new.buffered = 0
      /\ new.flow.available = 0 /\ new.flow.window = 0
  BY DEF NewStream
<1> HIDE DEF new
<1>4. ASSUME NEW s \in Streams
      PROVE  Apt(inner.streams[s]) /\ ~Hungry(inner.streams[s])
  <2> DEFINE r == inner.streams[s]
  <2>1. r = new /\ r \in StreamRecord
    BY <1>1, <1>2 DEF InnerRecord
  <2> HIDE DEF r
  <2>2. Apt(r)
    BY <1>3, <2>1, MaxWindowAssumption DEF Apt
  <2>3. r.flow.available >= Lesser(r.requested, WindowSize(r.flow))
    BY <1>3, <2>1, <2>2, AptFacts, MaxWindowAssumption DEF Lesser
  <2> QED
    BY <2>2, <2>3, FullNotHungry DEF r
<1>5. Content(inner)
  BY <1>1, <1>4 DEF Content, Heeded, AllApt, Craves
<1> QED
  BY <1>5 DEF NInv

LEMMA StepContent ==
  ASSUME IInv, NInv, [Next]_vars
  PROVE  NInv'
<1>1. ASSUME NEW s \in Streams, User(s) PROVE NInv'
  <2>1. ASSUME NEW eos \in BOOLEAN, SendRequest(s, eos) PROVE NInv'
    BY <2>1, SendRequestContent
  <2>2. ASSUME NEW eos \in BOOLEAN, SendResponse(s, eos) PROVE NInv'
    BY <2>2, SendResponseContent
  <2>3. ASSUME NEW sz \in Sizes, NEW eos \in BOOLEAN, SendDataFrame(s, sz, eos) PROVE NInv'
    BY <2>3, SendDataFrameContent
  <2>4. ASSUME NEW capacity \in Reservations, Reserve(s, capacity) PROVE NInv'
    BY <2>4, ReserveStays
  <2>5. ASSUME Accept(s) PROVE NInv'
    BY <2>5, AcceptContent
  <2>6. ASSUME SendInformational(s) PROVE NInv'
    BY <2>6, SendInformationalContent
  <2>7. ASSUME SendTrailersFrame(s) PROVE NInv'
    BY <2>7, SendTrailersFrameContent
  <2>8. ASSUME UserReset(s) PROVE NInv'
    <3>1. /\ IsStored(inner.streams[s]) /\ Unchanged
          /\ inner' = Transition(inner, ResetStream(inner, s), s)
      BY <2>8, InvFacts DEF UserReset, Held
    <3> QED
      BY <3>1, ResettingContent
  <2>9. ASSUME DropStreamRef(s) PROVE NInv'
    BY <2>9, DropStreamRefContent
  <2> QED
    BY <1>1, <2>1, <2>2, <2>3, <2>4, <2>5, <2>6, <2>7, <2>8, <2>9 DEF User
<1>2. ASSUME NEW s \in Streams, Receive(s) PROVE NInv'
  <2>1. ASSUME NEW eos \in BOOLEAN, NEW handle \in {"waiting", "dropped"},
               RecvRequest(s, eos, handle)
        PROVE  NInv'
    BY <2>1, RecvRequestContent
  <2>2. ASSUME NEW eos \in BOOLEAN, RecvResponse(s, eos) PROVE NInv'
    BY <2>2, RecvResponseContent
  <2>3. ASSUME NEW inc \in Increments, RecvStreamWindowUpdate(s, inc) PROVE NInv'
    BY <2>3, RecvStreamWindowUpdateContent
  <2>4. ASSUME RecvEndStream(s) PROVE NInv'
    BY <2>4, RecvEndStreamContent
  <2>5. ASSUME RecvStreamError(s) PROVE NInv'
    <3>1. /\ IsStored(inner.streams[s]) /\ Unchanged
          /\ inner' = Transition(inner, ResetStream(inner, s), s)
      BY <2>5, InvFacts DEF RecvStreamError, Receives
    <3> QED
      BY <3>1, ResettingContent
  <2>6. ASSUME RecvRstStream(s) PROVE NInv'
    BY <2>6, RecvRstStreamContent
  <2> QED
    BY <1>2, <2>1, <2>2, <2>3, <2>4, <2>5, <2>6 DEF Receive
<1>3. ASSUME Write PROVE NInv'
  <2>1. CASE BufferPending
    BY <2>1, BufferPendingContent
  <2>2. CASE ReclaimFrame
    BY <2>2, ReclaimFrameContent
  <2> QED
    BY <1>3, <2>1, <2>2 DEF Write
<1>4. ASSUME ExpireReset PROVE NInv'
  BY <1>4, ExpireResetContent
<1>5. ASSUME ConnectionError PROVE NInv'
  BY <1>5, FailedIsContent DEF ConnectionError, FailConnection
<1>6. ASSUME NEW inc \in Increments, RecvConnectionWindowUpdate(inc) PROVE NInv'
  BY <1>6, RecvConnectionWindowUpdateContent
<1>7. ASSUME NEW sz \in InitWindows, RecvSmallerInitialWindow(sz) PROVE NInv'
  BY <1>7, RecvSmallerInitialWindowContent
<1>8. ASSUME NEW sz \in InitWindows, RecvLargerInitialWindow(sz) PROVE NInv'
  BY <1>8, RecvLargerInitialWindowContent
<1>9. ASSUME NEW limit \in Limits, RecvMaxConcurrentStreams(limit) PROVE NInv'
  BY <1>9, RecvMaxConcurrentStreamsContent
<1>10. ASSUME NEW last \in LastStreams, RecvGoAway(last) PROVE NInv'
  BY <1>10, RecvGoAwayContent
<1>11. ASSUME NEW dropped \in BOOLEAN, RecvEof(dropped) PROVE NInv'
  BY <1>11, FailedIsContent DEF RecvEof
<1>12. ASSUME UNCHANGED vars PROVE NInv'
  BY <1>12 DEF vars, NInv, Reading
<1> QED
  BY <1>1, <1>2, <1>3, <1>4, <1>5, <1>6, <1>7, <1>8, <1>9, <1>10, <1>11, <1>12 DEF Next

\* What the invariant says of a stream that wants capacity.
LEMMA WaitersAwaited ==
  ASSUME IInv, NInv
  PROVE  NoWaiterForgotten
<1> SUFFICES ASSUME phase \in {"running", "goneAway"}, NEW s \in Linked(inner),
                    Lesser(Wanted(inner.streams[s]), WindowSize(inner.streams[s].flow))
                      > inner.streams[s].flow.available,
                    CanSendData(inner.streams[s]), ~IsPendingOpen(inner, s)
             PROVE  Contains(inner.capacityQ, s) /\ inner.flow.available = 0
  BY DEF NoWaiterForgotten
<1>1. s \in Streams
  BY DEF Linked
<1>2. Content(inner)
  BY DEF NInv, Reading
<1>3. Craves(inner, s)
  BY DEF Craves, Hungry, IsPendingOpen
<1>4. Contains(inner.capacityQ, s) /\ inner.flow.available <= 0
  BY <1>1, <1>2, <1>3 DEF Content, Heeded, Spent
<1>5. inner.flow.available \in Int /\ inner.flow.available >= 0
  BY InvFacts DEF Whole, Sound, SoundBut, Account, InnerRecord, Flow
<1> QED
  BY <1>4, <1>5

\* While the connection runs, a stream that wants capacity its own window
\* would allow is in pending_capacity, and only because the connection has
\* none to give: whatever order WINDOW_UPDATE frames, settings, resets and
\* calls of reserve_capacity and send_data come in, capacity that one stream
\* gives back or the peer grants reaches the streams that wait for it.
THEOREM NoWaiterIsForgotten == Spec => []NoWaiterForgotten
<1>1. IInv /\ Init => NInv
  BY InitContent
<1>2. IInv /\ NInv /\ [Next]_vars => NInv'
  BY StepContent
<1>3. IInv /\ NInv => NoWaiterForgotten
  BY WaitersAwaited
<1> QED
  BY <1>1, <1>2, <1>3, Invariance, PTL DEF Spec

=============================================================================
