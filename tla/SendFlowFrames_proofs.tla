----------------------- MODULE SendFlowFrames_proofs -----------------------
(***************************************************************************)
(* What the frames of SendFlow depend on, step by step.                    *)
(*                                                                         *)
(* The state, the queue and the history of a stream belong together: what  *)
(* is queued continues what was written, and the state says what may still *)
(* be queued (Voice).  Capacity moves touch none of that (Quiet), and what *)
(* a handler does to its own stream is one of a few edits of its record.   *)
(* This module says so of every function of the code, up to one turn of    *)
(* the loop that writes; SendFlowWire_proofs draws the conclusions.        *)
(***************************************************************************)
EXTENDS SendFlow_proofs

----------------------------------------------------------------------------
(* What each function of the code leaves alone.                            *)

\* What of a stream its frames and its slot depend on.
Same(r, r2) ==
  /\ r2.place = r.place /\ r2.state = r.state /\ r2.queue = r.queue
  /\ r2.counted = r.counted /\ r2.buffered = r.buffered

\* pending_send only grows, and not by streams that wait to be opened.
Schedules(i, j) ==
  \A t \in Streams :
    /\ Contains(i.sendQ, t) => Contains(j.sendQ, t)
    /\ Contains(j.sendQ, t) => Contains(i.sendQ, t) \/ ~Contains(i.openQ, t)

\* Capacity moves and nothing is said.
Quiet(i, j) ==
  /\ j \in InnerRecord
  /\ j.peer = i.peer /\ j.openQ = i.openQ /\ j.numStreams = i.numStreams
  /\ j.maxStreamId = i.maxStreamId
  /\ j.inFlight = i.inFlight
  /\ \A t \in Streams : Same(i.streams[t], j.streams[t])
  /\ Schedules(i, j)

\* What is done to stream s and, but for capacity, to no other.
Around(i, j, s) ==
  /\ j \in InnerRecord
  /\ j.peer = i.peer /\ j.openQ = i.openQ /\ j.numStreams = i.numStreams
  /\ j.maxStreamId = i.maxStreamId
  /\ j.inFlight = i.inFlight \/ (i.inFlight = s /\ j.inFlight = Drop)
  /\ \A t \in Streams : t # s => Same(i.streams[t], j.streams[t])
  /\ Schedules(i, j)

LEMMA SchedulesTrans ==
  ASSUME NEW i, NEW j, NEW k, j.openQ = i.openQ, Schedules(i, j), Schedules(j, k)
  PROVE  Schedules(i, k)
BY DEF Schedules

LEMMA QuietTrans ==
  ASSUME NEW i, NEW j, NEW k, Quiet(i, j), Quiet(j, k)
  PROVE  Quiet(i, k)
<1>1. Schedules(i, k)
  BY SchedulesTrans DEF Quiet
<1> QED
  BY <1>1 DEF Quiet, Same

LEMMA QuietRefl ==
  ASSUME NEW i \in InnerRecord
  PROVE  Quiet(i, i)
BY DEF Quiet, Same, Schedules

LEMMA AroundTrans ==
  ASSUME NEW i, NEW j, NEW k, NEW s \in Streams, Around(i, j, s), Around(j, k, s)
  PROVE  Around(i, k, s)
<1>1. Schedules(i, k)
  BY SchedulesTrans DEF Around
<1>2. k.inFlight = i.inFlight \/ (i.inFlight = s /\ k.inFlight = Drop)
  BY DEF Around, Streams, Drop
<1> QED
  BY <1>1, <1>2 DEF Around, Same

LEMMA QuietAround ==
  ASSUME NEW i, NEW j, Quiet(i, j), NEW s \in Streams
  PROVE  Around(i, j, s) /\ Same(i.streams[s], j.streams[s])
BY DEF Quiet, Around

LEMMA SameTrans ==
  ASSUME NEW r, NEW r2, NEW r3, Same(r, r2), Same(r2, r3)
  PROVE  Same(r, r3)
BY DEF Same

LEMMA SameRefl ==
  ASSUME NEW r
  PROVE  Same(r, r)
BY DEF Same

\* Adding a stream that does not wait to be opened to a queue.
LEMMA PushSchedules ==
  ASSUME NEW i \in InnerRecord, NEW j, NEW s \in Streams,
         j.sendQ = i.sendQ \/ (j.sendQ = Push(i.sendQ, s) /\ ~Contains(i.openQ, s))
  PROVE  Schedules(i, j)
<1> DEFINE q == i.sendQ
<1>1. q \in Seq(Streams)
  BY DEF InnerRecord
<1> HIDE DEF q
<1>2. \A t \in Streams : Contains(Push(q, s), t) <=> Contains(q, t) \/ t = s
  BY <1>1, PushQueue
<1> QED
  BY <1>2 DEF Schedules, q

LEMMA CapacityTypes ==
  ASSUME NEW fc \in Flow, NEW sz \in Int
  PROVE  AssignCapacity(fc, sz) \in Flow /\ ClaimCapacity(fc, sz) \in Flow
<1>1. fc.available \in Int /\ fc.available + sz \in Int /\ fc.available - sz \in Int
  BY DEF Flow
<1>2. AssignCapacity(fc, sz) \in Flow
  BY <1>1 DEF Flow, AssignCapacity
<1>3. ClaimCapacity(fc, sz) \in Flow
  BY <1>1 DEF Flow, ClaimCapacity
<1> QED
  BY <1>2, <1>3

LEMMA WithAround ==
  ASSUME NEW i \in InnerRecord, NEW s \in Streams, NEW r \in StreamRecord
  PROVE  LET j == With(i, s, r)
         IN  /\ Around(i, j, s) /\ j.streams[s] = r
             /\ j.sendQ = i.sendQ /\ j.inFlight = i.inFlight
             /\ (Same(i.streams[s], r) => Quiet(i, j))
<1> DEFINE j == With(i, s, r)
<1>1. /\ j \in InnerRecord /\ j.streams[s] = r /\ Elsewhere(i, j, s) /\ SameBooks(i, j)
      /\ j.sendQ = i.sendQ
  BY WithFields
<1> HIDE DEF j
<1>2. Schedules(i, j)
  BY <1>1 DEF Schedules
<1>3. \A t \in Streams : t # s => Same(i.streams[t], j.streams[t])
  BY <1>1 DEF Elsewhere, Same
<1>4. Same(i.streams[s], r) => \A t \in Streams : Same(i.streams[t], j.streams[t])
  BY <1>1, <1>3
<1> QED
  BY <1>1, <1>2, <1>3, <1>4 DEF Around, Quiet, SameBooks, j

LEMMA TryAssignQuiet ==
  ASSUME NEW i \in InnerRecord, NEW s \in Streams
  PROVE  /\ Quiet(i, TryAssign(i, s))
         /\ TryAssign(i, s).sendQ \in {i.sendQ, Push(i.sendQ, s)}
<1> DEFINE j == TryAssign(i, s)
           r == i.streams[s]
           additional == Lesser(r.requested, WindowSize(r.flow)) - r.flow.available
           assign == Lesser(AsSize(i.flow.available), additional)
           flow == AssignCapacity(r.flow, assign)
           flow2 == ClaimCapacity(i.flow, assign)
           queue == IF flow.available < r.requested /\ HasUnavailable(flow)
                      THEN Push(i.capacityQ, s) ELSE i.capacityQ
           queue2 == IF r.buffered > 0 THEN Push(i.sendQ, s) ELSE i.sendQ
           q == [r EXCEPT !.flow = flow]
<1>1. CASE j = i
  BY <1>1, QuietRefl
<1>2. CASE j # i
  <2>1. /\ i.streams \in [Streams -> StreamRecord] /\ i.sendQ \in Seq(Streams)
        /\ i.capacityQ \in Seq(Streams) /\ r \in StreamRecord /\ i.flow \in Flow
        /\ r.flow \in Flow
    BY DEF InnerRecord, StreamRecord
  <2>2. assign \in Int
    <3>1. r.requested \in Int /\ r.flow.available \in Int /\ r.flow.window \in Int
          /\ i.flow.available \in Int
      BY <2>1 DEF StreamRecord, Flow
    <3> HIDE DEF r
    <3> QED
      BY <3>1 DEF Lesser, AsSize, WindowSize
  <2>3. /\ j = [i EXCEPT !.streams[s].flow = flow, !.flow = flow2, !.capacityQ = queue,
                         !.sendQ = queue2]
        /\ ~Contains(i.openQ, s)
    BY <1>2 DEF TryAssign, IsPendingOpen
  <2> HIDE DEF assign, additional
  <2>4. flow \in Flow /\ flow2 \in Flow
    BY <2>1, <2>2, CapacityTypes
  <2>5. queue \in Seq(Streams) /\ queue2 \in Seq(Streams)
    <3> DEFINE sendQ == i.sendQ
               capacityQ == i.capacityQ
    <3>1. sendQ \in Seq(Streams) /\ capacityQ \in Seq(Streams)
      BY <2>1
    <3> HIDE DEF sendQ, capacityQ
    <3>2. Push(sendQ, s) \in Seq(Streams) /\ Push(capacityQ, s) \in Seq(Streams)
      BY <3>1, PushQueue
    <3> QED
      BY <2>1, <3>1, <3>2 DEF sendQ, capacityQ
  <2>6. queue2 \in {i.sendQ, Push(i.sendQ, s)}
    OBVIOUS
  <2> HIDE DEF flow, flow2, queue, queue2
  <2>7. q \in StreamRecord /\ Same(r, q)
    BY <2>1, <2>4 DEF StreamRecord, Same
  <2>8. j = [With(i, s, q) EXCEPT !.flow = flow2, !.capacityQ = queue, !.sendQ = queue2]
    BY <2>1, <2>3 DEF With, InnerRecord
  <2> HIDE DEF j
  <2> DEFINE w == With(i, s, q)
  <2>9. Quiet(i, w) /\ w.sendQ = i.sendQ
    BY <2>7, WithAround
  <2>10. /\ j \in InnerRecord /\ j.streams = w.streams /\ j.peer = w.peer
         /\ j.openQ = w.openQ /\ j.numStreams = w.numStreams /\ j.inFlight = w.inFlight
         /\ j.sendQ = queue2 /\ j.maxStreamId = w.maxStreamId
    <3>1. w \in InnerRecord /\ j = [w EXCEPT !.flow = flow2, !.capacityQ = queue, !.sendQ = queue2]
      BY <2>8, <2>9 DEF Quiet
    <3> HIDE DEF w, q
    <3> QED
      BY <2>4, <2>5, <3>1 DEF InnerRecord
  <2> HIDE DEF w, q, r
  <2>11. Schedules(i, j)
    BY <2>3, <2>6, <2>10, PushSchedules
  <2> QED
    BY <2>6, <2>9, <2>10, <2>11 DEF Quiet, j
<1> QED
  BY <1>1, <1>2

\* Changes that no stream's frames depend on.
LEMMA SameStreamsQuiet ==
  ASSUME NEW i, NEW j \in InnerRecord, j.streams = i.streams, j.sendQ = i.sendQ,
         j.peer = i.peer, j.openQ = i.openQ, j.numStreams = i.numStreams,
         j.inFlight = i.inFlight, j.maxStreamId = i.maxStreamId
  PROVE  Quiet(i, j)
BY DEF Quiet, Same, Schedules

LEMMA AssignNextQuiet ==
  ASSUME NEW i \in InnerRecord
  PROVE  Quiet(i, AssignNext(i))
<1> DEFINE s == Head(i.capacityQ)
           j == [i EXCEPT !.capacityQ = Tail(@)]
<1>1. CASE i.flow.available <= 0 \/ i.capacityQ = <<>>
  BY <1>1, QuietRefl DEF AssignNext
<1>2. CASE ~(i.flow.available <= 0 \/ i.capacityQ = <<>>)
  <2>1. i.capacityQ \in Seq(Streams) /\ i.capacityQ # <<>>
    BY <1>2 DEF InnerRecord
  <2>2. s \in Streams /\ Tail(i.capacityQ) \in Seq(Streams)
    <3> DEFINE q == i.capacityQ
    <3>1. q \in Seq(Streams) /\ q # <<>>
      BY <2>1
    <3> HIDE DEF q
    <3>2. Head(q) \in Streams /\ Tail(q) \in Seq(Streams)
      BY <3>1, TailQueue
    <3> QED
      BY <3>2 DEF q
  <2>3. /\ j \in InnerRecord /\ j.streams = i.streams /\ j.sendQ = i.sendQ
        /\ j.openQ = i.openQ /\ j.inFlight = i.inFlight /\ j.peer = i.peer
        /\ j.numStreams = i.numStreams /\ j.maxStreamId = i.maxStreamId
    BY <2>2 DEF InnerRecord
  <2>4. AssignNext(i) = IF CanSendData(i.streams[s])
                          THEN Transition(j, TryAssign(j, s), s) ELSE j
    BY <1>2 DEF AssignNext
  <2> HIDE DEF j, s
  <2>5. Quiet(i, j)
    BY <2>3, SameStreamsQuiet
  <2>6. CASE ~CanSendData(i.streams[s])
    BY <2>4, <2>5, <2>6
  <2>7. CASE CanSendData(i.streams[s])
    <3> DEFINE k == TryAssign(j, s)
    <3>1. Quiet(j, k)
      BY <2>2, <2>3, TryAssignQuiet
    <3>2. k \in InnerRecord
      BY <3>1 DEF Quiet
    <3>3. ~IsFlushed(k.streams[s])
      <4>1. /\ k.streams[s].state = i.streams[s].state
            /\ k.streams[s].buffered = i.streams[s].buffered
        BY <2>2, <2>3, <3>1 DEF Quiet, Same
      <4>2. i.streams[s].state \in States
        BY <2>2 DEF InnerRecord, StreamRecord
      <4>3. IsSendStreaming(i.streams[s].state) => ~IsClosed(i.streams[s].state)
        BY <4>2, StateKinds
      <4>4. i.streams[s].buffered > 0 => i.streams[s].buffered # 0
        OBVIOUS
      <4> QED
        BY <2>7, <4>1, <4>3, <4>4 DEF CanSendData, IsFlushed
    <3>4. IsPendingReset(j, s) \in BOOLEAN
      BY DEF IsPendingReset, Contains
    <3>5. Transition(j, k, s) = k
      BY <2>2, <3>2, <3>3, <3>4, TransitionIdle DEF Transition
    <3> QED
      BY <2>4, <2>5, <2>7, <3>1, <3>5, QuietTrans
  <2> QED
    BY <2>6, <2>7
<1> QED
  BY <1>1, <1>2

LEMMA AssignPendingQuiet ==
  ASSUME NEW i \in InnerRecord
  PROVE  Quiet(i, AssignPending(i))
<1> DEFINE S == {j \in InnerRecord : Quiet(i, j)}
           step == [k \in Nat |-> [j \in InnerRecord |-> AssignNext(j)]]
<1>1. i \in S /\ Len(i.capacityQ) \in Nat
  BY QuietRefl DEF InnerRecord
<1>2. ASSUME NEW k \in 1 .. Len(i.capacityQ), NEW j \in S
      PROVE  step[k][j] \in S
  <2>1. k \in Nat /\ step[k][j] = AssignNext(j)
    BY <1>1
  <2>2. Quiet(i, AssignNext(j))
    BY AssignNextQuiet, QuietTrans
  <2> QED
    BY <2>1, <2>2 DEF Quiet
<1>3. AssignPending(i) = Loop(step, i, Len(i.capacityQ))
  BY DEF AssignPending
<1>4. Loop(step, i, Len(i.capacityQ)) \in S
  <2> HIDE DEF S, step
  <2> QED
    BY <1>1, <1>2, LoopStays
<1> QED
  BY <1>3, <1>4

LEMMA AssignConnectionQuiet ==
  ASSUME NEW i \in InnerRecord, NEW inc \in Int
  PROVE  Quiet(i, AssignConnection(i, inc))
<1> DEFINE flow == AssignCapacity(i.flow, inc)
           j == [i EXCEPT !.flow = flow]
<1>1. flow \in Flow
  BY CapacityTypes DEF InnerRecord
<1>2. AssignConnection(i, inc) = AssignPending(j)
  BY DEF AssignConnection, InnerRecord
<1> HIDE DEF flow
<1>3. /\ j \in InnerRecord /\ j.streams = i.streams /\ j.sendQ = i.sendQ
      /\ j.openQ = i.openQ /\ j.inFlight = i.inFlight /\ j.peer = i.peer
      /\ j.numStreams = i.numStreams /\ j.maxStreamId = i.maxStreamId
  BY <1>1 DEF InnerRecord
<1> HIDE DEF j
<1>4. Quiet(i, j)
  BY <1>3, SameStreamsQuiet
<1> QED
  BY <1>2, <1>3, <1>4, AssignPendingQuiet, QuietTrans

LEMMA ReclaimQuiet ==
  ASSUME NEW i \in InnerRecord, NEW s \in Streams, NEW sz \in Int
  PROVE  Quiet(i, Reclaim(i, s, sz))
<1> DEFINE r == i.streams[s]
           flow == ClaimCapacity(r.flow, sz)
           q == [r EXCEPT !.flow = flow]
           j == [i EXCEPT !.streams[s].flow = flow]
<1>1. CASE sz <= 0
  BY <1>1, QuietRefl DEF Reclaim
<1>2. CASE ~(sz <= 0)
  <2>1. r \in StreamRecord /\ r.flow \in Flow /\ sz > 0
    BY <1>2 DEF InnerRecord, StreamRecord
  <2>2. flow \in Flow
    BY <2>1, CapacityTypes
  <2>3. Reclaim(i, s, sz) = AssignConnection(j, sz)
    BY <1>2 DEF Reclaim, InnerRecord
  <2>4. j = With(i, s, q)
    BY DEF With, InnerRecord
  <2> HIDE DEF flow, j
  <2>5. q \in StreamRecord /\ Same(r, q)
    BY <2>1, <2>2 DEF StreamRecord, Same
  <2> HIDE DEF q
  <2>6. Quiet(i, j)
    BY <2>4, <2>5, WithAround
  <2>7. j \in InnerRecord
    BY <2>6 DEF Quiet
  <2> QED
    BY <2>3, <2>6, <2>7, AssignConnectionQuiet, QuietTrans
<1> QED
  BY <1>1, <1>2

LEMMA ReclaimSomeQuiet ==
  ASSUME NEW i \in InnerRecord, NEW s \in Streams
  PROVE  Quiet(i, ReclaimAll(i, s)) /\ Quiet(i, ReclaimReserved(i, s))
<1> DEFINE r == i.streams[s]
<1>1. r \in StreamRecord
  BY DEF InnerRecord
<1>2. r.flow \in Flow /\ r.buffered \in Int
  BY <1>1 DEF StreamRecord
<1>3. r.flow.available \in Int
  BY <1>2 DEF Flow
<1>4. r.flow.available - r.buffered \in Int
  BY <1>2, <1>3
<1> QED
  BY <1>3, <1>4, ReclaimQuiet DEF ReclaimAll, ReclaimReserved

LEMMA AskingQuiet ==
  ASSUME NEW i \in InnerRecord, NEW s \in Streams, NEW wanted \in Int
  PROVE  Quiet(i, [i EXCEPT !.streams[s].requested = wanted])
<1> DEFINE r == i.streams[s]
           q == Asking(r, wanted)
           j == [i EXCEPT !.streams[s].requested = wanted]
<1>1. r \in StreamRecord
  BY DEF InnerRecord
<1>2. j = With(i, s, q)
  BY DEF With, Asking, InnerRecord
<1> HIDE DEF j, r
<1>3. q \in StreamRecord /\ Same(r, q)
  BY <1>1, AskingFields DEF Same
<1> HIDE DEF q
<1> QED
  BY <1>2, <1>3, WithAround DEF j, r

LEMMA ReserveQuiet ==
  ASSUME NEW i \in InnerRecord, NEW s \in Streams, NEW capacity \in Int
  PROVE  Quiet(i, ReserveCapacity(i, s, capacity))
<1> DEFINE r == i.streams[s]
           wanted == capacity + r.buffered
           j == [i EXCEPT !.streams[s].requested = wanted]
<1>1. /\ r \in StreamRecord /\ r.requested \in Int /\ r.buffered \in Int
      /\ r.flow.available \in Int
  BY DEF InnerRecord, StreamRecord, Flow
<1>2. wanted \in Int /\ r.flow.available - wanted \in Int
  BY <1>1
<1>3. ReserveCapacity(i, s, capacity)
        \in {i, Reclaim(j, s, r.flow.available - wanted), TryAssign(j, s)}
  <2>1. CASE wanted = r.requested
    BY <1>1, <1>2, <2>1 DEF ReserveCapacity
  <2>2. CASE wanted < r.requested
    BY <1>1, <1>2, <2>2 DEF ReserveCapacity
  <2>3. CASE ~(wanted = r.requested) /\ ~(wanted < r.requested)
    BY <1>1, <1>2, <2>3 DEF ReserveCapacity
  <2> QED
    BY <2>1, <2>2, <2>3
<1>4. Quiet(i, j) /\ j \in InnerRecord
  BY <1>2, AskingQuiet DEF Quiet
<1> HIDE DEF j, wanted, r
<1>5. Quiet(j, Reclaim(j, s, r.flow.available - wanted)) /\ Quiet(j, TryAssign(j, s))
  BY <1>2, <1>4, ReclaimQuiet, TryAssignQuiet
<1> QED
  BY <1>3, <1>4, <1>5, QuietRefl, QuietTrans


----------------------------------------------------------------------------
(* What each function of the code does to its stream.                      *)

LEMMA ScheduleQuiet ==
  ASSUME NEW i \in InnerRecord, NEW s \in Streams
  PROVE  LET j == ScheduleSend(i, s)
         IN  /\ Quiet(i, j) /\ j.streams = i.streams
             /\ Contains(j.sendQ, s) \/ Contains(j.openQ, s)
<1> DEFINE q == i.sendQ
           j == ScheduleSend(i, s)
<1>1. CASE IsPendingOpen(i, s)
  BY <1>1, QuietRefl DEF ScheduleSend, IsPendingOpen
<1>2. CASE ~IsPendingOpen(i, s)
  <2>1. q \in Seq(Streams) /\ j = [i EXCEPT !.sendQ = Push(q, s)]
    BY <1>2 DEF InnerRecord, ScheduleSend
  <2> HIDE DEF q, j
  <2>2. Push(q, s) \in Seq(Streams) /\ Contains(Push(q, s), s)
    BY <2>1, PushQueue
  <2>3. /\ j \in InnerRecord /\ j.streams = i.streams /\ j.sendQ = Push(q, s)
        /\ j.peer = i.peer /\ j.openQ = i.openQ /\ j.numStreams = i.numStreams
        /\ j.inFlight = i.inFlight /\ j.maxStreamId = i.maxStreamId
    BY <2>1, <2>2 DEF InnerRecord
  <2>4. Schedules(i, j)
    BY <1>2, <2>3, PushSchedules DEF IsPendingOpen, q
  <2> QED
    BY <2>2, <2>3, <2>4, SameRefl DEF Quiet, j
<1> QED
  BY <1>1, <1>2

LEMMA BufferAround ==
  ASSUME NEW i \in InnerRecord, NEW s \in Streams, NEW frame \in Frames
  PROVE  LET j == Buffer(i, s, frame)
         IN  /\ Around(i, j, s) /\ j.streams[s] = Queued(i.streams[s], frame)
             /\ j.inFlight = i.inFlight
<1> DEFINE r == i.streams[s]
           q == Queued(r, frame)
           j == Buffer(i, s, frame)
<1>1. r \in StreamRecord /\ r.queue \in Seq(Frames)
  BY DEF InnerRecord, StreamRecord
<1>2. j = With(i, s, q)
  BY DEF With, Buffer, Queued, InnerRecord
<1> HIDE DEF r
<1>3. q \in StreamRecord
  BY <1>1, OctetsOfAppend DEF Queued, StreamRecord
<1> HIDE DEF q, j
<1> QED
  BY <1>2, <1>3, WithAround DEF q, j, r

LEMMA QueueFrameAround ==
  ASSUME NEW i \in InnerRecord, NEW s \in Streams, NEW frame \in Frames
  PROVE  LET j == QueueFrame(i, s, frame)
         IN  /\ Around(i, j, s) /\ j.streams[s] = Queued(i.streams[s], frame)
             /\ j.inFlight = i.inFlight
<1> DEFINE k == Buffer(i, s, frame)
           j == QueueFrame(i, s, frame)
<1>1. Around(i, k, s) /\ k.streams[s] = Queued(i.streams[s], frame) /\ k.inFlight = i.inFlight
  BY BufferAround
<1>2. k \in InnerRecord /\ j = ScheduleSend(k, s)
  BY <1>1 DEF Around, QueueFrame
<1> HIDE DEF j, k
<1>3. Quiet(k, j) /\ j.streams = k.streams
  BY <1>2, ScheduleQuiet
<1>4. j.inFlight = i.inFlight
  BY <1>1, <1>3 DEF Quiet
<1> QED
  BY <1>1, <1>3, <1>4, QuietAround, AroundTrans DEF j

LEMMA StateAround ==
  ASSUME NEW i \in InnerRecord, NEW s \in Streams, NEW st \in States
  PROVE  LET j == [i EXCEPT !.streams[s].state = st]
         IN  /\ Around(i, j, s) /\ j.streams[s] = WithState(i.streams[s], st)
             /\ j.inFlight = i.inFlight /\ j.sendQ = i.sendQ
             /\ WithState(i.streams[s], st) \in StreamRecord
<1> DEFINE r == i.streams[s]
           q == WithState(r, st)
           j == [i EXCEPT !.streams[s].state = st]
<1>1. r \in StreamRecord
  BY DEF InnerRecord
<1>2. j = With(i, s, q)
  BY DEF With, WithState, InnerRecord
<1> HIDE DEF r
<1>3. q \in StreamRecord
  BY <1>1 DEF WithState, StreamRecord
<1> HIDE DEF q
<1>4. LET w == With(i, s, q)
      IN  Around(i, w, s) /\ w.streams[s] = q /\ w.inFlight = i.inFlight /\ w.sendQ = i.sendQ
  BY <1>3, WithAround
<1> HIDE DEF j
<1>5. Around(i, j, s) /\ j.streams[s] = q /\ j.inFlight = i.inFlight /\ j.sendQ = i.sendQ
  BY <1>2, <1>4
<1> QED
  BY <1>3, <1>5 DEF q, j, r

LEMMA ResetFrameIn == ResetFrame \in Frames
BY MaxWindowAssumption DEF ResetFrame, Frame, Frames, Kinds

LEMMA ClearedType ==
  ASSUME NEW r \in StreamRecord
  PROVE  Cleared(r) \in StreamRecord
<1>1. r.state \in States
  BY DEF StreamRecord
<1> QED
  BY <1>1, ResetFrameIn, RecordTypes

LEMMA ClearQueueAround ==
  ASSUME NEW i \in InnerRecord, NEW s \in Streams
  PROVE  LET j == ClearQueue(i, s)
         IN  /\ Around(i, j, s) /\ j.streams[s] = Cleared(i.streams[s])
             /\ j.inFlight # s
<1> DEFINE r == i.streams[s]
           q == Cleared(r)
           w == With(i, s, q)
           flight == IF i.inFlight = s THEN Drop ELSE i.inFlight
           j == ClearQueue(i, s)
<1>1. r \in StreamRecord /\ q \in StreamRecord
  BY ClearedType DEF InnerRecord
<1>2. j = [w EXCEPT !.inFlight = flight]
  BY DEF With, ClearQueue, Cleared, InnerRecord
<1>3. /\ flight \in Streams \cup {Nothing, Drop} /\ flight # s
      /\ (flight = i.inFlight \/ (i.inFlight = s /\ flight = Drop))
  BY DEF InnerRecord, Streams, Drop
<1> HIDE DEF q, j
<1>4. Around(i, w, s) /\ w.streams[s] = q /\ w.inFlight = i.inFlight /\ w \in InnerRecord
  BY <1>1, WithAround DEF Around
<1> HIDE DEF w, flight
<1>5. /\ j \in InnerRecord /\ j.streams = w.streams /\ j.inFlight = flight
      /\ j.sendQ = w.sendQ /\ j.openQ = w.openQ /\ j.peer = w.peer
      /\ j.numStreams = w.numStreams /\ j.maxStreamId = w.maxStreamId
  BY <1>2, <1>3, <1>4 DEF InnerRecord
<1>6. Schedules(i, j)
  BY <1>4, <1>5 DEF Around, Schedules
<1> QED
  BY <1>3, <1>4, <1>5, <1>6 DEF Around, q, j

LEMMA FailSendingAround ==
  ASSUME NEW i \in InnerRecord, NEW s \in Streams
  PROVE  LET j == FailSending(i, s)
         IN  /\ Around(i, j, s) /\ Same(Cleared(i.streams[s]), j.streams[s])
             /\ j.inFlight # s
<1> DEFINE k == ClearQueue(i, s)
           j == FailSending(i, s)
<1>1. Around(i, k, s) /\ k.streams[s] = Cleared(i.streams[s]) /\ k.inFlight # s
  BY ClearQueueAround
<1>2. k \in InnerRecord /\ j = ReclaimAll(k, s)
  BY <1>1 DEF Around, FailSending
<1> HIDE DEF j, k
<1>3. Quiet(k, j)
  BY <1>2, ReclaimSomeQuiet
<1>4. Around(k, j, s) /\ Same(k.streams[s], j.streams[s]) /\ j.inFlight # s
  BY <1>1, <1>3, QuietAround DEF Quiet
<1> QED
  BY <1>1, <1>4, AroundTrans DEF j

LEMMA EnqueueResetQuiet ==
  ASSUME NEW i \in InnerRecord, NEW s \in Streams
  PROVE  LET j == EnqueueResetExpiration(i, s)
         IN  Quiet(i, j) /\ j.streams = i.streams /\ j.sendQ = i.sendQ
<1> DEFINE j == EnqueueResetExpiration(i, s)
<1>1. CASE j = i
  BY <1>1, QuietRefl
<1>2. CASE j # i
  <2> DEFINE q == i.resetQ
             n == i.numResets
  <2>1. q \in Seq(Streams) /\ n \in Int
    BY DEF InnerRecord
  <2>2. j = [i EXCEPT !.resetQ = Append(q, s), !.numResets = n + 1]
    BY <1>2 DEF EnqueueResetExpiration, InnerRecord
  <2> HIDE DEF q, j, n
  <2>3. Append(q, s) \in Seq(Streams) /\ n + 1 \in Int
    BY <2>1
  <2>4. /\ j \in InnerRecord /\ j.streams = i.streams /\ j.sendQ = i.sendQ
        /\ j.peer = i.peer /\ j.openQ = i.openQ /\ j.numStreams = i.numStreams
        /\ j.inFlight = i.inFlight /\ j.maxStreamId = i.maxStreamId
    BY <2>2, <2>3 DEF InnerRecord
  <2> QED
    BY <2>4, SameStreamsQuiet DEF j
<1> QED
  BY <1>1, <1>2

\* The three outcomes of a reset: there was one, there is nothing to tell the
\* peer, or RST_STREAM is queued, behind HEADERS that wait to be written.
Resets3(i, j, s) ==
  LET r == WithState(i.streams[s], SetReset("LocalReset"))
  IN  \/ IsReset(i.streams[s].state) /\ Quiet(i, j)
      \/ /\ ~IsReset(i.streams[s].state) /\ IsClosed(i.streams[s].state)
         /\ i.streams[s].queue = <<>>
         /\ Around(i, j, s) /\ Same(r, j.streams[s])
      \/ /\ ~IsReset(i.streams[s].state)
         /\ ~(IsClosed(i.streams[s].state) /\ i.streams[s].queue = <<>>)
         /\ Contains(i.openQ, s)
         /\ Around(i, j, s) /\ Same(Queued(r, ResetFrame), j.streams[s])
      \/ /\ ~IsReset(i.streams[s].state)
         /\ ~(IsClosed(i.streams[s].state) /\ i.streams[s].queue = <<>>)
         /\ ~Contains(i.openQ, s)
         /\ Around(i, j, s) /\ Same(Queued(Cleared(r), ResetFrame), j.streams[s])
         /\ j.inFlight # s

LEMMA SendResetAround ==
  ASSUME NEW i \in InnerRecord, NEW s \in Streams
  PROVE  Resets3(i, SendReset(i, s), s)
<1> DEFINE r == i.streams[s]
           st == SetReset("LocalReset")
           reset == [i EXCEPT !.streams[s].state = st]
           r2 == WithState(r, st)
           early == IsPendingOpen(i, s)
           cleared == IF early THEN reset ELSE ClearQueue(reset, s)
           queued == QueueFrame(cleared, s, ResetFrame)
           j == SendReset(i, s)
<1>1. r \in StreamRecord
  BY DEF InnerRecord
<1>2. st \in States
  BY ResetStates DEF Errors, LocalErrors, Reasons
<1> HIDE DEF st
<1>3. Around(i, reset, s) /\ reset.streams[s] = r2 /\ reset.inFlight = i.inFlight
  BY <1>2, StateAround
<1>4. CASE IsReset(r.state)
  BY <1>4, QuietRefl DEF SendReset, Resets3
<1>5. CASE ~IsReset(r.state) /\ IsClosed(r.state) /\ r.queue = <<>>
  <2>1. j = reset
    BY <1>5 DEF SendReset, st
  <2> HIDE DEF j, reset
  <2> QED
    BY <1>3, <1>5, <2>1, SameRefl DEF Resets3, j, st
<1>6. CASE ~IsReset(r.state) /\ ~(IsClosed(r.state) /\ r.queue = <<>>)
  <2>1. j = ReclaimAll(queued, s)
    BY <1>6 DEF SendReset, st
  <2> HIDE DEF j, reset
  <2>2. CASE early
    <3>1. reset \in InnerRecord /\ cleared = reset
      BY <1>3, <2>2 DEF Around
    <3> HIDE DEF cleared
    <3>2. Around(reset, queued, s) /\ queued.streams[s] = Queued(r2, ResetFrame)
      BY <1>3, <3>1, ResetFrameIn, QueueFrameAround
    <3>3. queued \in InnerRecord
      BY <3>2 DEF Around
    <3> HIDE DEF queued
    <3>4. Around(queued, j, s) /\ Same(queued.streams[s], j.streams[s])
      BY <2>1, <3>3, ReclaimSomeQuiet, QuietAround
    <3>5. Around(i, j, s) /\ Same(Queued(r2, ResetFrame), j.streams[s])
      BY <1>3, <3>2, <3>4, AroundTrans
    <3> QED
      BY <1>6, <2>2, <3>5 DEF Resets3, j, IsPendingOpen, st
  <2>3. CASE ~early
    <3>1. reset \in InnerRecord /\ cleared = ClearQueue(reset, s)
      BY <1>3, <2>3 DEF Around
    <3>2. Around(reset, cleared, s) /\ cleared.streams[s] = Cleared(r2) /\ cleared.inFlight # s
      BY <1>3, <3>1, ClearQueueAround
    <3>3. cleared \in InnerRecord
      BY <3>2 DEF Around
    <3> HIDE DEF cleared
    <3>4. /\ Around(cleared, queued, s) /\ queued.streams[s] = Queued(Cleared(r2), ResetFrame)
          /\ queued.inFlight # s
      BY <3>2, <3>3, ResetFrameIn, QueueFrameAround
    <3>5. queued \in InnerRecord
      BY <3>4 DEF Around
    <3> HIDE DEF queued
    <3>6. Quiet(queued, j)
      BY <2>1, <3>5, ReclaimSomeQuiet
    <3>7. Around(queued, j, s) /\ Same(queued.streams[s], j.streams[s]) /\ j.inFlight # s
      BY <3>4, <3>6, QuietAround DEF Quiet
    <3>8. Around(i, j, s) /\ Same(Queued(Cleared(r2), ResetFrame), j.streams[s])
      BY <1>3, <3>2, <3>4, <3>7, AroundTrans
    <3> QED
      BY <1>6, <2>3, <3>7, <3>8 DEF Resets3, j, IsPendingOpen, st
  <2> QED
    BY <2>2, <2>3
<1> QED
  BY <1>4, <1>5, <1>6

LEMMA Resets3Quiet ==
  ASSUME NEW i, NEW j, NEW k, NEW s \in Streams, Resets3(i, j, s), Quiet(j, k)
  PROVE  Resets3(i, k, s)
<1>1. Around(j, k, s) /\ Same(j.streams[s], k.streams[s]) /\ k.inFlight = j.inFlight
  BY QuietAround DEF Quiet
<1>2. Around(i, j, s) => Around(i, k, s)
  BY <1>1, AroundTrans
<1>3. Quiet(i, j) => Quiet(i, k)
  BY QuietTrans
<1>4. \A r : Same(r, j.streams[s]) => Same(r, k.streams[s])
  BY <1>1 DEF Same
<1> QED
  BY <1>1, <1>2, <1>3, <1>4 DEF Resets3

LEMMA ResetStreamAround ==
  ASSUME NEW i \in InnerRecord, NEW s \in Streams
  PROVE  Resets3(i, ResetStream(i, s), s)
<1> DEFINE k == SendReset(i, s)
<1>1. Resets3(i, k, s)
  BY SendResetAround
<1>2. k \in InnerRecord
  BY <1>1 DEF Resets3, Quiet, Around
<1> HIDE DEF k
<1>3. Quiet(k, EnqueueResetExpiration(k, s))
  BY <1>2, EnqueueResetQuiet
<1> QED
  BY <1>1, <1>3, Resets3Quiet DEF ResetStream, k

\* A reset is scheduled unless the stream is over.
Schedules3(i, j, s, reason) ==
  \/ IsClosed(i.streams[s].state) /\ Quiet(i, j)
  \/ /\ ~IsClosed(i.streams[s].state)
     /\ Around(i, j, s)
     /\ Same(WithState(i.streams[s], SetScheduledReset(reason)), j.streams[s])
     /\ Contains(j.sendQ, s) \/ Contains(j.openQ, s)

LEMMA ScheduleImplicitResetAround ==
  ASSUME NEW i \in InnerRecord, NEW s \in Streams, NEW reason \in Reasons
  PROVE  Schedules3(i, ScheduleImplicitReset(i, s, reason), s, reason)
<1> DEFINE r == i.streams[s]
           st == SetScheduledReset(reason)
           marked == [i EXCEPT !.streams[s].state = st]
           spared == ReclaimReserved(marked, s)
           j == ScheduleImplicitReset(i, s, reason)
<1>1. CASE IsClosed(r.state)
  BY <1>1, QuietRefl DEF Schedules3, ScheduleImplicitReset
<1>2. CASE ~IsClosed(r.state)
  <2>1. j = ScheduleSend(spared, s)
    BY <1>2 DEF ScheduleImplicitReset
  <2> HIDE DEF j
  <2>2. st \in States
    BY ResetStates DEF Errors, LocalErrors
  <2> HIDE DEF st
  <2>3. Around(i, marked, s) /\ marked.streams[s] = WithState(r, st)
    BY <2>2, StateAround
  <2>4. marked \in InnerRecord
    BY <2>3 DEF Around
  <2> HIDE DEF marked
  <2>5. Quiet(marked, spared)
    BY <2>4, ReclaimSomeQuiet
  <2>6. spared \in InnerRecord
    BY <2>5 DEF Quiet
  <2> HIDE DEF spared
  <2>7. Quiet(spared, j) /\ (Contains(j.sendQ, s) \/ Contains(j.openQ, s))
    BY <2>1, <2>6, ScheduleQuiet
  <2>8. Around(marked, j, s) /\ Same(marked.streams[s], j.streams[s])
    BY <2>5, <2>7, QuietTrans, QuietAround
  <2>9. Around(i, j, s) /\ Same(WithState(r, st), j.streams[s])
    BY <2>3, <2>8, AroundTrans
  <2> QED
    BY <1>2, <2>7, <2>9 DEF Schedules3, j, st
<1> QED
  BY <1>1, <1>2

LEMMA Schedules3Quiet ==
  ASSUME NEW i, NEW j, NEW k, NEW s \in Streams, NEW reason, Schedules3(i, j, s, reason),
         Quiet(j, k)
  PROVE  Schedules3(i, k, s, reason)
<1>1. Around(j, k, s) /\ Same(j.streams[s], k.streams[s])
  BY QuietAround
<1>2. Around(i, j, s) => Around(i, k, s)
  BY <1>1, AroundTrans
<1>3. Quiet(i, j) => Quiet(i, k)
  BY QuietTrans
<1>4. \A r : Same(r, j.streams[s]) => Same(r, k.streams[s])
  BY <1>1 DEF Same
<1>5. Contains(j.sendQ, s) \/ Contains(j.openQ, s) => Contains(k.sendQ, s) \/ Contains(k.openQ, s)
  BY DEF Quiet, Schedules
<1> QED
  BY <1>2, <1>3, <1>4, <1>5 DEF Schedules3

\* A client that drops a stream always cancels it.
LEMMA MaybeCancelAround ==
  ASSUME NEW i \in InnerRecord, NEW s \in Streams
  PROVE  \E reason \in Reasons :
           /\ i.peer # "server" => reason # "NO_ERROR"
           /\ Schedules3(i, MaybeCancel(i, s), s, reason)
<1> DEFINE st == i.streams[s].state
           answered == i.peer = "server" /\ IsSendClosed(st) /\ IsRecvStreaming(st)
           reason == IF answered THEN "NO_ERROR" ELSE "CANCEL"
           k == ScheduleImplicitReset(i, s, reason)
           j == MaybeCancel(i, s)
<1>1. reason \in Reasons /\ (i.peer # "server" => reason # "NO_ERROR")
  BY DEF Reasons
<1>2. CASE IsClosed(st)
  BY <1>1, <1>2, QuietRefl DEF Schedules3, MaybeCancel
<1>3. CASE ~IsClosed(st)
  <2>1. j = EnqueueResetExpiration(k, s)
    BY <1>3 DEF MaybeCancel
  <2> HIDE DEF j, reason
  <2>2. Schedules3(i, k, s, reason)
    BY <1>1, ScheduleImplicitResetAround
  <2>3. k \in InnerRecord
    BY <2>2 DEF Schedules3, Quiet, Around
  <2> HIDE DEF k
  <2>4. Quiet(k, j)
    BY <2>1, <2>3, EnqueueResetQuiet
  <2>5. Schedules3(i, j, s, reason)
    BY <2>2, <2>4, Schedules3Quiet
  <2> QED
    BY <1>1, <2>5 DEF j
<1> QED
  BY <1>2, <1>3


\* A server's HEADERS go to pending_send, as a client's do once they are
\* opened.
LEMMA SendHeadersAround ==
  ASSUME NEW i \in InnerRecord, NEW s \in Streams, NEW eos \in BOOLEAN, IsServer(i)
  PROVE  LET j == SendHeaders(i, s, eos)
             r == i.streams[s]
         IN  /\ Around(i, j, s) /\ j.inFlight = i.inFlight
             /\ j.streams[s] = Queued(WithState(r, SendOpen(r.state, eos)), Frame("headers", 0, eos))
<1> DEFINE r == i.streams[s]
           st == SendOpen(r.state, eos)
           opened == [i EXCEPT !.streams[s].state = SendOpen(@, eos)]
           frame == Frame("headers", 0, eos)
           j == SendHeaders(i, s, eos)
<1>1. r.state \in States
  BY DEF InnerRecord, StreamRecord
<1>2. st \in States
  BY <1>1, SendOpenState DEF Ensues
<1>3. opened = [i EXCEPT !.streams[s].state = st]
  BY DEF InnerRecord
<1>4. opened.peer = "server"
  BY DEF IsServer, InnerRecord
<1>5. j = QueueFrame(opened, s, frame)
  BY <1>4 DEF SendHeaders, IsServer
<1>6. frame \in Frames
  BY MaxWindowAssumption DEF Frame, Frames, Kinds
<1> HIDE DEF opened, j, frame, st
<1>7. /\ Around(i, opened, s) /\ opened.streams[s] = WithState(r, st)
      /\ opened.inFlight = i.inFlight
  BY <1>2, <1>3, StateAround
<1>8. opened \in InnerRecord
  BY <1>7 DEF Around
<1>9. /\ Around(opened, j, s) /\ j.streams[s] = Queued(WithState(r, st), frame)
      /\ j.inFlight = i.inFlight
  BY <1>5, <1>6, <1>7, <1>8, QueueFrameAround
<1>10. Around(i, j, s)
  BY <1>7, <1>9, AroundTrans
<1> QED
  BY <1>9, <1>10 DEF j, frame, st

\* What send_data has done to its stream before the frame is queued.
Charges(i, j, s, st) ==
  /\ Around(i, j, s) /\ j.inFlight = i.inFlight
  /\ j.streams[s].place = i.streams[s].place
  /\ j.streams[s].counted = i.streams[s].counted
  /\ j.streams[s].queue = i.streams[s].queue
  /\ j.streams[s].state = st

LEMMA ChargesQuiet ==
  ASSUME NEW i, NEW j, NEW k, NEW s \in Streams, NEW st, Charges(i, j, s, st), Quiet(j, k)
  PROVE  Charges(i, k, s, st)
<1>1. Around(j, k, s) /\ Same(j.streams[s], k.streams[s]) /\ k.inFlight = j.inFlight
  BY QuietAround DEF Quiet
<1>2. Around(i, k, s)
  BY <1>1, AroundTrans DEF Charges
<1> QED
  BY <1>1, <1>2 DEF Charges, Same

LEMMA SendChunkAround ==
  ASSUME NEW i \in InnerRecord, NEW s \in Streams, NEW sz \in 0 .. MaxWindow, NEW eos \in BOOLEAN
  PROVE  LET j == SendChunk(i, s, sz, eos)
             r == i.streams[s]
         IN  /\ Around(i, j, s) /\ j.inFlight = i.inFlight
             /\ j.streams[s].place = r.place /\ j.streams[s].counted = r.counted
             /\ j.streams[s].queue = Append(r.queue, Frame("data", sz, eos))
             /\ j.streams[s].state = IF eos THEN SendClose(r.state) ELSE r.state
<1> DEFINE r == i.streams[s]
           buffered == r.buffered + sz
           q == [r EXCEPT !.buffered = buffered]
           charged == [i EXCEPT !.streams[s].buffered = buffered]
           asking == [charged EXCEPT !.streams[s].requested = buffered]
           asked == IF r.requested < buffered THEN TryAssign(asking, s) ELSE charged
           st == SendClose(r.state)
           closed == [asked EXCEPT !.streams[s].state = SendClose(@)]
           ended == IF eos THEN ReserveCapacity(closed, s, 0) ELSE asked
           st2 == IF eos THEN st ELSE r.state
           frame == Frame("data", sz, eos)
           j == SendChunk(i, s, sz, eos)
<1>1. r \in StreamRecord /\ r.state \in States /\ r.buffered \in Int /\ r.requested \in Int
  BY DEF InnerRecord, StreamRecord
<1>2. buffered \in Int
  BY <1>1, MaxWindowAssumption
<1>3. j = IF ended.streams[s].flow.available > 0 \/ ended.streams[s].buffered = 0
            THEN QueueFrame(ended, s, frame) ELSE Buffer(ended, s, frame)
  BY DEF SendChunk
<1> HIDE DEF j
<1>4. Charges(i, charged, s, r.state)
  <2>1. charged = With(i, s, q)
    BY DEF With, InnerRecord
  <2>2. /\ q \in StreamRecord /\ q.queue = r.queue /\ q.state = r.state
        /\ q.place = r.place /\ q.counted = r.counted
    <3> HIDE DEF r, buffered
    <3> QED
      BY <1>1, <1>2 DEF StreamRecord
  <2> HIDE DEF q, charged
  <2>3. Around(i, charged, s) /\ charged.streams[s] = q /\ charged.inFlight = i.inFlight
    BY <2>1, <2>2, WithAround
  <2> QED
    BY <2>2, <2>3 DEF Charges
<1> HIDE DEF charged, buffered
<1>5. Charges(i, asked, s, r.state)
  <2>1. charged \in InnerRecord
    BY <1>4 DEF Charges, Around
  <2>2. Quiet(charged, asking)
    BY <1>2, <2>1, AskingQuiet
  <2>3. asking \in InnerRecord
    BY <2>2 DEF Quiet
  <2> HIDE DEF asking
  <2>4. Quiet(asking, TryAssign(asking, s))
    BY <2>3, TryAssignQuiet
  <2> QED
    BY <1>4, <2>2, <2>4, ChargesQuiet
<1>6. asked \in InnerRecord
  BY <1>5 DEF Charges, Around
<1> HIDE DEF asked
<1>7. Charges(i, ended, s, st2)
  <2>1. CASE ~eos
    BY <1>5, <2>1
  <2>2. CASE eos
    <3>1. st \in States
      BY <1>1, SendCloseState DEF Ensues
    <3>2. closed = [asked EXCEPT !.streams[s].state = st]
      BY <1>5, <1>6 DEF Charges, InnerRecord
    <3> HIDE DEF st, closed
    <3>3. /\ Around(asked, closed, s) /\ closed.streams[s] = WithState(asked.streams[s], st)
          /\ closed.inFlight = asked.inFlight
      BY <1>6, <3>1, <3>2, StateAround
    <3>4. asked.streams[s] \in StreamRecord
      BY <1>6 DEF InnerRecord
    <3>5. closed \in InnerRecord /\ Charges(i, closed, s, st)
      <4>1. Around(i, closed, s)
        BY <1>5, <3>3, AroundTrans DEF Charges
      <4> QED
        BY <1>5, <3>3, <3>4, <4>1, WithStateFields DEF Charges, Around
    <3>6. Quiet(closed, ReserveCapacity(closed, s, 0))
      BY <3>5, ReserveQuiet
    <3> QED
      BY <2>2, <3>5, <3>6, ChargesQuiet
  <2> QED
    BY <2>1, <2>2
<1>8. ended \in InnerRecord /\ ended.streams[s] \in StreamRecord
  BY <1>7 DEF Charges, Around, InnerRecord
<1>9. frame \in Frames
  BY MaxWindowAssumption DEF Frame, Frames, Kinds
<1> HIDE DEF ended, frame, st2
<1>10. /\ Around(ended, j, s) /\ j.streams[s] = Queued(ended.streams[s], frame)
       /\ j.inFlight = ended.inFlight
  BY <1>3, <1>8, <1>9, QueueFrameAround, BufferAround
<1>11. Around(i, j, s) /\ j.inFlight = i.inFlight
  BY <1>7, <1>10, AroundTrans DEF Charges
<1>12. /\ j.streams[s].place = r.place /\ j.streams[s].counted = r.counted
       /\ j.streams[s].queue = Append(r.queue, frame)
       /\ j.streams[s].state = st2
  <2> DEFINE e == ended.streams[s]
  <2>1. /\ e \in StreamRecord /\ e.place = r.place /\ e.counted = r.counted
        /\ e.queue = r.queue /\ e.state = st2
    BY <1>7, <1>8 DEF Charges
  <2>2. j.streams[s] = Queued(e, frame)
    BY <1>10
  <2> HIDE DEF e, r
  <2> QED
    BY <2>1, <2>2, QueuedFields
<1> QED
  BY <1>11, <1>12 DEF j, frame, st2, st

LEMMA SendTrailersAround ==
  ASSUME NEW i \in InnerRecord, NEW s \in Streams
  PROVE  LET j == SendTrailers(i, s)
             r == i.streams[s]
         IN  /\ Around(i, j, s) /\ j.inFlight = i.inFlight
             /\ j.streams[s].place = r.place /\ j.streams[s].counted = r.counted
             /\ j.streams[s].queue = Append(r.queue, Frame("trailers", 0, TRUE))
             /\ j.streams[s].state = SendClose(r.state)
<1> DEFINE r == i.streams[s]
           st == SendClose(r.state)
           frame == Frame("trailers", 0, TRUE)
           closed == [i EXCEPT !.streams[s].state = SendClose(@)]
           queued == QueueFrame(closed, s, frame)
           j == SendTrailers(i, s)
<1>1. r \in StreamRecord /\ r.state \in States
  BY DEF InnerRecord, StreamRecord
<1>2. st \in States
  BY <1>1, SendCloseState DEF Ensues
<1>3. closed = [i EXCEPT !.streams[s].state = st]
  BY DEF InnerRecord
<1>4. frame \in Frames
  BY MaxWindowAssumption DEF Frame, Frames, Kinds
<1>5. j = ReserveCapacity(queued, s, 0)
  BY DEF SendTrailers
<1> HIDE DEF closed, j, frame, st
<1>6. /\ Around(i, closed, s) /\ closed.streams[s] = WithState(r, st)
      /\ closed.inFlight = i.inFlight /\ WithState(r, st) \in StreamRecord
  BY <1>2, <1>3, StateAround
<1>7. closed \in InnerRecord
  BY <1>6 DEF Around
<1>8. /\ Around(closed, queued, s) /\ queued.streams[s] = Queued(WithState(r, st), frame)
      /\ queued.inFlight = i.inFlight
  BY <1>4, <1>6, <1>7, QueueFrameAround
<1>9. queued \in InnerRecord
  BY <1>8 DEF Around
<1> HIDE DEF queued
<1>10. Quiet(queued, j)
  BY <1>5, <1>9, ReserveQuiet
<1>11. Around(queued, j, s) /\ Same(queued.streams[s], j.streams[s]) /\ j.inFlight = i.inFlight
  BY <1>8, <1>10, QuietAround DEF Quiet
<1>12. Around(i, j, s)
  BY <1>6, <1>8, <1>11, AroundTrans
<1>13. /\ queued.streams[s].place = r.place /\ queued.streams[s].counted = r.counted
       /\ queued.streams[s].queue = Append(r.queue, frame)
       /\ queued.streams[s].state = st
  BY SMTT(60), <1>1, <1>6, <1>8, QueuedFields, WithStateFields
<1> QED
  BY <1>11, <1>12, <1>13 DEF j, frame, st, Same

LEMMA WindowUpdateAround ==
  ASSUME NEW i \in InnerRecord, NEW s \in Streams, NEW inc \in Nat
  PROVE  LET update == StreamWindowUpdate(i, s, inc)
         IN  /\ update \in UpdateResult
             /\ update.ok => Quiet(i, update.inner)
             /\ ~update.ok => Resets3(i, update.inner, s)
<1> DEFINE r == i.streams[s]
           q == Raised(r, inc)
           raised == [i EXCEPT !.streams[s].flow = IncWindow(@, inc)]
           update == StreamWindowUpdate(i, s, inc)
<1>1. CASE CannotSend(r)
  <2>1. update = [inner |-> i, ok |-> TRUE]
    BY <1>1 DEF StreamWindowUpdate
  <2> HIDE DEF update
  <2> QED
    BY <2>1, QuietRefl DEF update, UpdateResult
<1>2. CASE ~CannotSend(r) /\ CanIncWindow(r.flow, inc)
  <2>1. update = [inner |-> TryAssign(raised, s), ok |-> TRUE]
    BY <1>2 DEF StreamWindowUpdate
  <2>2. raised = With(i, s, q)
    BY DEF With, Raised, InnerRecord
  <2>3. r \in StreamRecord
    BY DEF InnerRecord
  <2> HIDE DEF raised, update
  <2>4. q \in StreamRecord /\ Same(r, q)
    BY <1>2, <2>3, RaisedFields DEF Same
  <2> HIDE DEF q
  <2>5. Quiet(i, raised)
    BY <2>2, <2>4, WithAround
  <2>6. Quiet(raised, TryAssign(raised, s))
    BY <2>5, TryAssignQuiet DEF Quiet
  <2>7. Quiet(i, TryAssign(raised, s)) /\ TryAssign(raised, s) \in InnerRecord
    BY <2>5, <2>6, QuietTrans DEF Quiet
  <2> QED
    BY <2>1, <2>7 DEF update, UpdateResult
<1>3. CASE ~CannotSend(r) /\ ~CanIncWindow(r.flow, inc)
  <2>1. update = [inner |-> SendReset(i, s), ok |-> FALSE]
    BY <1>3 DEF StreamWindowUpdate
  <2> HIDE DEF update
  <2>2. Resets3(i, SendReset(i, s), s)
    BY SendResetAround
  <2>3. SendReset(i, s) \in InnerRecord
    BY <2>2 DEF Resets3, Quiet, Around
  <2> QED
    BY <2>1, <2>2, <2>3 DEF update, UpdateResult
<1> QED
  BY <1>1, <1>2, <1>3


----------------------------------------------------------------------------
(* What is queued continues what was written.                              *)

\* Names for truth values, which the provers take for terms.
Never == FALSE
Always == TRUE

Views == {"idle", "open", "ended", "reset", "unopened"}

Heads(q) == \E k \in 1 .. Len(q) : q[k].kind = "headers"
Cuts(q) == \E k \in 1 .. Len(q) : q[k].kind = "reset"
OnlyCuts(q) == \A k \in 1 .. Len(q) : q[k].kind = "reset"
Preface(q) == \A k \in 1 .. Len(q) : q[k].kind = "informational"

\* The frame f may follow frames that turned an idle stream into v, of which
\* those of q are still queued.
Continues(v, q, n, f, server) ==
  /\ v \in {"idle", "open", "ended"}
  /\ v = "ended" => f.kind = "reset"
  /\ f.kind \in {"headers", "informational"} =>
       v = "idle" /\ \A m \in 1 .. n : q[m].kind = "informational"
  /\ f.kind = "informational" => server /\ ~f.eos
  /\ f.kind \in {"data", "trailers"} => v = "open" \/ \E m \in 1 .. n : q[m].kind = "headers"
  /\ f.kind = "reset" /\ ~server => v # "idle" \/ \E m \in 1 .. n : q[m].kind = "headers"
  /\ \A m \in 1 .. n : q[m].kind # "reset" /\ (q[m].eos => f.kind = "reset")

Script(v, q, server) == \A k \in 1 .. Len(q) : Continues(v, q, k - 1, q[k], server)

\* The response has not arrived.
Unanswered(st) == HasRemote(st) /\ st.remote = AwaitingHeaders

\* What the state of a stream says about its frames.  more: a part of a DATA
\* frame will return to the queue, with END_STREAM if last.
Says(r, v, more, last, waits, server) ==
  LET q == r.queue
      st == r.state
  IN  /\ v \in Views
      /\ Script(v, q, server)
      /\ more => v = "open" /\ (last => OnlyCuts(q))
      /\ CanSendOpen(st) => v = "idle" /\ Preface(q)
      /\ IsSendStreaming(st) =>
           /\ v \in {"idle", "open"} /\ (v = "idle" => Heads(q))
           /\ \A k \in 1 .. Len(q) : q[k].kind # "reset" /\ ~q[k].eos
           /\ ~(more /\ last)
      /\ v \in {"reset", "unopened"} \/ Cuts(q) => IsReset(st) /\ ~IsScheduledReset(st)
      /\ waits => v = "idle"
      /\ r.place = "unlinked" => q = <<>> /\ IsClosed(st)

\* A client's stream is opened, or was given up before: waits, in
\* pending_open or since it left it with a slot; refused, by a GOAWAY.
Opens(r, v, waits, pending, refused) ==
  LET q == r.queue
      st == r.state
  IN  /\ Heads(q) => waits
      /\ v = "idle" /\ ~Heads(q) =>
           IsReset(st) /\ (waits => refused) /\ (~waits => ~IsScheduledReset(st))
      /\ waits => Unanswered(st) \/ IsReset(st)
      /\ pending => ~r.counted
      /\ waits /\ ~pending => r.counted
      /\ v \in {"open", "ended"} /\ ~r.counted => IsFlushed(r) /\ ~IsScheduledReset(st)

\* A client's scheduled reset will be written.
Cancels(r, due) == IsScheduledReset(r.state) => Discards(r.state) /\ due

Silent(r, v) ==
  /\ r.queue = <<>> /\ ~r.counted /\ v \in Views
  /\ r.place = "new" => v = "idle"

Voice(r, v, more, last, waits, pending, due, server, refused) ==
  /\ v = "unopened" => refused
  /\ ~IsStored(r) => Silent(r, v)
  /\ IsStored(r) =>
       /\ Says(r, v, more, last, waits, server)
       /\ server \/ (Opens(r, v, waits, pending, refused) /\ Cancels(r, due))

VoiceAt(i, t, v, holder, last, bound, opening) ==
  /\ Voice(i.streams[t], v, holder = t, last, Contains(i.openQ, t) \/ opening = t,
           Contains(i.openQ, t), Contains(i.sendQ, t) \/ Contains(i.openQ, t),
           IsServer(i), bound < t)
  /\ ~(Contains(i.openQ, t) /\ Contains(i.sendQ, t))

\* Streams are created and opened in the order of their identifiers.
InOrder(i, w, opening) ==
  /\ \A s, t \in Streams : Contains(i.openQ, s) \/ opening = s => (w[t] # "idle" => t < s)
  /\ \A k, l \in 1 .. Len(i.openQ) : k < l => i.openQ[k] < i.openQ[l]
  /\ \A s, t \in Streams : opening = s /\ Contains(i.openQ, t) => s < t
  /\ \A s, t \in Streams : s < t /\ i.streams[s].place = "new" => i.streams[t].place = "new"

Balanced(i) == i.numStreams = Taken(i.streams)

\* Everything, while the connection runs.
Legal(i, w, holder, last, bound, opening) ==
  /\ i \in InnerRecord
  /\ \A t \in Streams : VoiceAt(i, t, w[t], holder, last, bound, opening)
  /\ ~IsServer(i) => InOrder(i, w, opening) /\ Balanced(i)


----------------------------------------------------------------------------
(* What a step of the state machine keeps of what the state says.          *)

Firmer(st, st2) ==
  /\ st2 \in States
  /\ CanSendOpen(st2) => CanSendOpen(st)
  /\ IsSendStreaming(st2) => IsSendStreaming(st)
  /\ IsClosed(st) => IsClosed(st2)
  /\ IsReset(st) => IsReset(st2)
  /\ IsClosed(st) /\ ~IsScheduledReset(st) => ~IsScheduledReset(st2)

\* ... and no reset gets scheduled.
Calmer(st, st2) == Firmer(st, st2) /\ (IsScheduledReset(st2) => st2 = st)

\* Closing the sending half, at a response too.
LEMMA SendCloseSpeech ==
  ASSUME NEW st \in States
  PROVE  /\ Calmer(st, SendClose(st))
         /\ ~IsSendStreaming(SendClose(st)) \/ ~HasLocal(st)
         /\ Unanswered(st) => Unanswered(SendClose(st))
BY SMTT(60) DEF Calmer, Firmer, States, Causes, Half, AwaitingHeaders, Streaming, EndStream, Error,
       ErrorAfterEndStream, ScheduledLibraryReset, Idle, ReservedLocal, ReservedRemote, Open,
       HalfClosedLocal, HalfClosedRemote, Closed, IsClosed, IsSendClosed, SendClose,
       IsScheduledReset, ClosedBy, CanSendOpen, HasLocal, HasRemote, IsSendStreaming, IsReset,
       Unanswered

LEMMA SendOpenSpeech ==
  ASSUME NEW st \in States, NEW eos \in BOOLEAN, CanSendOpen(st)
  PROVE  LET st2 == SendOpen(st, eos)
         IN  /\ st2 \in States
             /\ ~CanSendOpen(st2)
             /\ eos => ~IsSendStreaming(st2)
             /\ ~IsReset(st2)
             /\ st = Idle => Unanswered(st2)
BY SMTT(60) DEF States, Causes, Half, AwaitingHeaders, Streaming, EndStream, Error,
       ErrorAfterEndStream, ScheduledLibraryReset, Idle, ReservedLocal, ReservedRemote, Open,
       HalfClosedLocal, HalfClosedRemote, Closed, IsClosed, SendOpen,
       CanSendOpen, HasLocal, HasRemote, IsSendStreaming, IsReset, Unanswered

\* What the peer's frames make of a state.
LEMMA ReceivingSpeech ==
  ASSUME NEW st \in States, NEW eos \in BOOLEAN
  PROVE  /\ Calmer(st, RecvOpen(st, eos, FALSE))
         /\ Calmer(st, RecvClose(st))
         /\ IsRecvStreaming(st) => ~Unanswered(st) /\ ~IsReset(st)
<1>1. Firmer(st, RecvOpen(st, eos, FALSE))
  BY SMTT(60) DEF Firmer, RecvOpen, CanRecvOpen, IsRecvHeaders, States, Causes, Half, AwaitingHeaders, Streaming, EndStream, Error,
         ErrorAfterEndStream, ScheduledLibraryReset, Idle, ReservedLocal, ReservedRemote, Open,
         HalfClosedLocal, HalfClosedRemote, Closed, IsClosed,
         IsScheduledReset, ClosedBy, CanSendOpen, HasLocal, HasRemote, IsSendStreaming, IsReset
<1>2. IsScheduledReset(RecvOpen(st, eos, FALSE)) => RecvOpen(st, eos, FALSE) = st
  BY SMTT(60) DEF RecvOpen, CanRecvOpen, IsRecvHeaders, States, Causes, Half, AwaitingHeaders, Streaming, EndStream, Error,
         ErrorAfterEndStream, ScheduledLibraryReset, Idle, ReservedLocal, ReservedRemote, Open,
         HalfClosedLocal, HalfClosedRemote, Closed, IsClosed,
         IsScheduledReset, ClosedBy, CanSendOpen, HasLocal, HasRemote, IsSendStreaming, IsReset
<1>3. Firmer(st, RecvClose(st))
  BY SMTT(60) DEF Firmer, RecvClose, States, Causes, Half, AwaitingHeaders, Streaming, EndStream, Error,
         ErrorAfterEndStream, ScheduledLibraryReset, Idle, ReservedLocal, ReservedRemote, Open,
         HalfClosedLocal, HalfClosedRemote, Closed, IsClosed,
         IsScheduledReset, ClosedBy, CanSendOpen, HasLocal, HasRemote, IsSendStreaming, IsReset
<1>4. IsScheduledReset(RecvClose(st)) => RecvClose(st) = st
  BY SMTT(60) DEF RecvClose, States, Causes, Half, AwaitingHeaders, Streaming, EndStream, Error,
         ErrorAfterEndStream, ScheduledLibraryReset, Idle, ReservedLocal, ReservedRemote, Open,
         HalfClosedLocal, HalfClosedRemote, Closed, IsClosed,
         IsScheduledReset, ClosedBy, CanSendOpen, HasLocal, HasRemote, IsSendStreaming, IsReset
<1>5. IsRecvStreaming(st) => ~Unanswered(st) /\ ~IsReset(st)
  BY DEF IsRecvStreaming, Unanswered, HasRemote, IsReset, IsClosed, AwaitingHeaders, Streaming
<1> QED
  BY <1>1, <1>2, <1>3, <1>4, <1>5 DEF Calmer

\* What ends a stream.
LEMMA EndingSpeech ==
  ASSUME NEW st \in States, NEW e \in Errors, NEW queued \in BOOLEAN
  PROVE  /\ Calmer(st, SetReset(e)) /\ IsReset(SetReset(e)) /\ IsClosed(SetReset(e))
         /\ ~IsScheduledReset(SetReset(e))
         /\ Calmer(st, HandleError(st, e)) /\ IsClosed(HandleError(st, e))
         /\ Unanswered(st) \/ IsReset(st) => IsReset(HandleError(st, e))
         /\ Calmer(st, RecvReset(st, queued)) /\ IsClosed(RecvReset(st, queued))
<1>1. /\ Calmer(st, SetReset(e)) /\ IsReset(SetReset(e)) /\ IsClosed(SetReset(e))
      /\ ~IsScheduledReset(SetReset(e))
  BY DEF Calmer, Firmer, SetReset, States, Causes, Error, Closed, IsClosed, IsReset, EndStream,
         IsScheduledReset, ClosedBy, CanSendOpen, HasLocal, IsSendStreaming, Idle, ReservedLocal
<1>2. ASSUME NEW f \in Errors
      PROVE  /\ Calmer(st, CloseWith(st, f)) /\ IsReset(CloseWith(st, f))
             /\ IsClosed(CloseWith(st, f))
  BY DEF Calmer, Firmer, CloseWith, States, Causes, Error, ErrorAfterEndStream, Closed, IsClosed,
         IsReset, EndStream, IsScheduledReset, ClosedBy, CanSendOpen, HasLocal, IsSendStreaming,
         Idle, ReservedLocal
<1>3. Calmer(st, st)
  BY DEF Calmer, Firmer
<1>4. Unanswered(st) => ~IsClosed(st)
  BY DEF Unanswered, HasRemote, IsClosed
<1>5. "RemoteReset" \in Errors
  BY DEF Errors, RemoteErrors
<1>6. IsReset(st) => IsClosed(st)
  BY DEF IsReset
<1> QED
  BY <1>1, <1>2, <1>3, <1>4, <1>5, <1>6 DEF HandleError, RecvReset

\* A reset that is scheduled.
LEMMA ScheduledSpeech ==
  ASSUME NEW st \in States, NEW reason \in Reasons, ~IsClosed(st)
  PROVE  LET st2 == SetScheduledReset(reason)
         IN  /\ Firmer(st, st2) /\ IsReset(st2) /\ IsScheduledReset(st2) /\ IsClosed(st2)
             /\ reason # "NO_ERROR" => Discards(st2)
BY DEF Firmer, SetScheduledReset, States, Causes, ScheduledLibraryReset, Closed, IsClosed, IsReset,
       EndStream, IsScheduledReset, ClosedBy, CanSendOpen, HasLocal, IsSendStreaming, Idle,
       ReservedLocal, Discards

\* What a state says at once.
LEMMA Speech ==
  ASSUME NEW st \in States
  PROVE  /\ IsSendStreaming(st) => ~IsClosed(st) /\ ~CanSendOpen(st) /\ HasLocal(st)
         /\ CanSendOpen(st) => ~IsClosed(st)
         /\ IsReset(st) => IsClosed(st)
         /\ IsScheduledReset(st) => IsReset(st)
         /\ Unanswered(st) => ~IsClosed(st)
BY DEF States, Causes, Half, AwaitingHeaders, Streaming, EndStream, Error,
       ErrorAfterEndStream, ScheduledLibraryReset, Idle, ReservedLocal, ReservedRemote, Open,
       HalfClosedLocal, HalfClosedRemote, Closed, IsClosed, IsScheduledReset, ClosedBy,
       CanSendOpen, HasLocal, HasRemote, IsSendStreaming, IsReset, Unanswered


----------------------------------------------------------------------------
(* Frames that join and leave a queue.                                     *)

LEMMA AppendAt ==
  ASSUME NEW q \in Seq(Frames), NEW f \in Frames
  PROVE  /\ Append(q, f) \in Seq(Frames) /\ Len(Append(q, f)) = Len(q) + 1
         /\ Len(q) \in Nat
         /\ \A k \in 1 .. Len(q) : Append(q, f)[k] = q[k]
         /\ Append(q, f)[Len(q) + 1] = f
OBVIOUS

LEMMA TailAt ==
  ASSUME NEW q \in Seq(Frames), q # <<>>
  PROVE  /\ Tail(q) \in Seq(Frames) /\ Len(Tail(q)) = Len(q) - 1
         /\ Len(q) \in Nat \ {0} /\ Head(q) = q[1] /\ Head(q) \in Frames
         /\ \A k \in 1 .. Len(q) - 1 : Tail(q)[k] = q[k + 1]
OBVIOUS

LEMMA FrontAt ==
  ASSUME NEW q \in Seq(Frames), NEW f \in Frames
  PROVE  LET p == <<f>> \o q
         IN  /\ p \in Seq(Frames) /\ Len(p) = Len(q) + 1 /\ p[1] = f /\ Len(q) \in Nat
             /\ \A k \in 2 .. Len(q) + 1 : p[k] = q[k - 1]
OBVIOUS

LEMMA EmptyAt ==
  ASSUME NEW v \in Views, NEW server
  PROVE  /\ ~Heads(<<>>) /\ ~Cuts(<<>>) /\ OnlyCuts(<<>>) /\ Preface(<<>>)
         /\ Script(v, <<>>, server)
<1>1. 1 .. Len(<<>>) = {}
  OBVIOUS
<1> QED
  BY <1>1 DEF Heads, Cuts, OnlyCuts, Preface, Script

LEMMA AppendKinds ==
  ASSUME NEW q \in Seq(Frames), NEW f \in Frames
  PROVE  /\ Heads(Append(q, f)) <=> Heads(q) \/ f.kind = "headers"
         /\ Cuts(Append(q, f)) <=> Cuts(q) \/ f.kind = "reset"
         /\ OnlyCuts(Append(q, f)) <=> OnlyCuts(q) /\ f.kind = "reset"
<1> DEFINE p == Append(q, f)
<1>1. /\ Len(p) = Len(q) + 1 /\ Len(q) \in Nat
      /\ \A k \in 1 .. Len(q) : p[k] = q[k]
      /\ p[Len(q) + 1] = f
  BY AppendAt
<1>2. \A k \in 1 .. Len(p) : k \in 1 .. Len(q) \/ k = Len(q) + 1
  BY <1>1
<1>3. \A k \in 1 .. Len(q) : k \in 1 .. Len(p)
  BY <1>1
<1>4. Len(q) + 1 \in 1 .. Len(p)
  BY <1>1
<1> HIDE DEF p
<1>5. Heads(p) <=> Heads(q) \/ f.kind = "headers"
  BY <1>1, <1>2, <1>3, <1>4 DEF Heads
<1>6. Cuts(p) <=> Cuts(q) \/ f.kind = "reset"
  BY <1>1, <1>2, <1>3, <1>4 DEF Cuts
<1>7. OnlyCuts(p) <=> OnlyCuts(q) /\ f.kind = "reset"
  BY <1>1, <1>2, <1>3, <1>4 DEF OnlyCuts
<1> QED
  BY <1>5, <1>6, <1>7 DEF p

LEMMA TailKinds ==
  ASSUME NEW q \in Seq(Frames), q # <<>>
  PROVE  /\ Heads(q) <=> Head(q).kind = "headers" \/ Heads(Tail(q))
         /\ Cuts(q) <=> Head(q).kind = "reset" \/ Cuts(Tail(q))
         /\ OnlyCuts(q) <=> Head(q).kind = "reset" /\ OnlyCuts(Tail(q))
<1> DEFINE p == Tail(q)
<1>1. /\ Len(p) = Len(q) - 1 /\ Len(q) \in Nat \ {0} /\ Head(q) = q[1]
      /\ \A k \in 1 .. Len(q) - 1 : p[k] = q[k + 1]
  BY TailAt
<1>2. \A k \in 1 .. Len(q) : k = 1 \/ (k - 1 \in 1 .. Len(p) /\ p[k - 1] = q[k])
  BY <1>1
<1>3. \A k \in 1 .. Len(p) : k + 1 \in 1 .. Len(q) /\ p[k] = q[k + 1]
  BY <1>1
<1>4. 1 \in 1 .. Len(q)
  BY <1>1
<1> HIDE DEF p
<1>5. Heads(q) <=> Head(q).kind = "headers" \/ Heads(p)
  BY <1>1, <1>2, <1>3, <1>4 DEF Heads
<1>6. Cuts(q) <=> Head(q).kind = "reset" \/ Cuts(p)
  BY <1>1, <1>2, <1>3, <1>4 DEF Cuts
<1>7. OnlyCuts(q) <=> Head(q).kind = "reset" /\ OnlyCuts(p)
  BY <1>1, <1>2, <1>3, <1>4 DEF OnlyCuts
<1> QED
  BY <1>5, <1>6, <1>7 DEF p

LEMMA FrontKinds ==
  ASSUME NEW q \in Seq(Frames), NEW f \in Frames, f.kind = "data"
  PROVE  /\ Heads(<<f>> \o q) <=> Heads(q)
         /\ Cuts(<<f>> \o q) <=> Cuts(q)
<1> DEFINE p == <<f>> \o q
<1>1. /\ Len(p) = Len(q) + 1 /\ p[1] = f /\ Len(q) \in Nat
      /\ \A k \in 2 .. Len(q) + 1 : p[k] = q[k - 1]
  BY FrontAt
<1>2. \A k \in 1 .. Len(p) : k = 1 \/ (k - 1 \in 1 .. Len(q) /\ p[k] = q[k - 1])
  BY <1>1
<1>3. \A k \in 1 .. Len(q) : k + 1 \in 1 .. Len(p) /\ p[k + 1] = q[k]
  BY <1>1
<1> HIDE DEF p
<1>4. (Heads(p) <=> Heads(q)) /\ (Cuts(p) <=> Cuts(q))
  BY <1>1, <1>2, <1>3 DEF Heads, Cuts
<1> QED
  BY <1>4 DEF p

\* What follows depends on what is queued before it.
LEMMA ContinuesOf ==
  ASSUME NEW v, NEW q, NEW p, NEW n, NEW f, NEW server,
         \A m \in 1 .. n : p[m] = q[m], Continues(v, q, n, f, server)
  PROVE  Continues(v, p, n, f, server)
BY DEF Continues

LEMMA ScriptAppend ==
  ASSUME NEW v, NEW q \in Seq(Frames), NEW f \in Frames, NEW server,
         Script(v, q, server), Continues(v, q, Len(q), f, server)
  PROVE  Script(v, Append(q, f), server)
<1> DEFINE p == Append(q, f)
<1>1. /\ Len(p) = Len(q) + 1 /\ Len(q) \in Nat
      /\ \A k \in 1 .. Len(q) : p[k] = q[k]
      /\ p[Len(q) + 1] = f
  BY AppendAt
<1> HIDE DEF p
<1>2. ASSUME NEW k \in 1 .. Len(p)
      PROVE  Continues(v, p, k - 1, p[k], server)
  <2>1. \A m \in 1 .. k - 1 : p[m] = q[m]
    BY <1>1
  <2>2. CASE k \in 1 .. Len(q)
    BY <1>1, <2>1, <2>2, ContinuesOf DEF Script
  <2>3. CASE k = Len(q) + 1
    <3>1. k - 1 = Len(q)
      BY <1>1, <2>3
    <3> QED
      BY <1>1, <2>1, <2>3, <3>1, ContinuesOf
  <2> QED
    BY <1>1, <2>2, <2>3
<1> QED
  BY <1>2 DEF Script, p

\* What the first frame, written in full, says of those behind it.
Tells(v, v2, q, server) ==
  LET f == Head(q)
      p == Tail(q)
  IN  /\ Continues(v, q, 0, f, server)
      /\ v2 \in Views /\ v2 # "unopened"
      /\ f.kind \notin {"headers", "informational"} => v2 # "idle"
      /\ f.kind = "headers" => v = "idle" /\ v2 \in {"open", "ended"} /\ ~Heads(p)
      /\ f.kind = "informational" => server /\ v = "idle" /\ v2 = "idle"
      /\ f.kind \in {"data", "trailers"} => v = "open" /\ v2 \in {"open", "ended"} /\ ~Heads(q)
      /\ f.kind = "reset" => v2 = "reset" /\ p = <<>> /\ (server \/ v # "idle")
      /\ v2 = "ended" => f.eos
      /\ v2 \in {"open", "ended"} /\ ~f.eos => v2 = "open"
      /\ f.eos => OnlyCuts(p)
      /\ Script(v2, p, server)

LEMMA ScriptTail ==
  ASSUME NEW v, NEW q \in Seq(Frames), NEW server \in BOOLEAN, NEW peer,
         server <=> peer = "server", q # <<>>, Script(v, q, server)
  PROVE  Tells(v, AfterFrame(v, Head(q), peer), q, server)
<1> DEFINE f == Head(q)
           p == Tail(q)
           v2 == AfterFrame(v, f, peer)
<1>1. /\ p \in Seq(Frames) /\ Len(p) = Len(q) - 1 /\ Len(q) \in Nat \ {0} /\ f = q[1]
      /\ \A k \in 1 .. Len(q) - 1 : p[k] = q[k + 1]
      /\ f.kind \in Kinds /\ f.eos \in BOOLEAN
  BY TailAt DEF Frames
<1>2. \A k \in 1 .. Len(p) : k + 1 \in 1 .. Len(q) /\ p[k] = q[k + 1]
  BY <1>1
<1>3. Continues(v, q, 0, f, server)
  BY <1>1 DEF Script
<1>4. \A m : m \notin 1 .. 0
  OBVIOUS
<1>5. /\ v \in {"idle", "open", "ended"}
      /\ v = "ended" => f.kind = "reset"
      /\ f.kind \in {"headers", "informational"} => v = "idle"
      /\ f.kind = "informational" => server /\ ~f.eos
      /\ f.kind \in {"data", "trailers"} => v = "open"
      /\ f.kind = "reset" /\ ~server => v # "idle"
  BY <1>3, <1>4 DEF Continues
<1>6. /\ v2 \in Views /\ v2 # "unopened"
      /\ f.kind \notin {"headers", "informational"} => v2 # "idle"
      /\ f.kind = "headers" => v = "idle" /\ v2 \in {"open", "ended"}
      /\ f.kind = "informational" => server /\ v = "idle" /\ v2 = "idle"
      /\ f.kind \in {"data", "trailers"} => v = "open" /\ v2 \in {"open", "ended"}
      /\ f.kind = "reset" => v2 = "reset"
      /\ v2 = "ended" => f.eos
      /\ v2 \in {"open", "ended"} /\ ~f.eos => v2 = "open"
      /\ f.eos => v2 \in {"ended", "reset"}
  BY <1>1, <1>5 DEF AfterFrame, Views, Kinds
<1>7. ASSUME NEW k \in 1 .. Len(p)
      PROVE  /\ Continues(v, q, k, p[k], server)
             /\ f.kind # "reset" /\ (f.eos => p[k].kind = "reset")
             /\ p[k].kind = "headers" => f.kind = "informational"
             /\ 1 \in 1 .. k /\ k \in Nat
  <2>1. k + 1 \in 1 .. Len(q) /\ p[k] = q[k + 1] /\ k \in Nat \ {0}
    BY <1>2
  <2>2. Continues(v, q, (k + 1) - 1, q[k + 1], server)
    BY <2>1 DEF Script
  <2>3. (k + 1) - 1 = k
    BY <2>1
  <2>4. Continues(v, q, k, p[k], server)
    BY <2>1, <2>2, <2>3
  <2>5. 1 \in 1 .. k
    BY <2>1
  <2> QED
    BY <1>1, <2>1, <2>4, <2>5 DEF Continues
<1> HIDE DEF f, p, v2
<1>8. f.kind = "reset" => p = <<>>
  <2>1. f.kind = "reset" => Len(p) = 0
    BY <1>1, <1>7
  <2> QED
    BY <1>1, <2>1
<1>9. f.eos => OnlyCuts(p)
  BY <1>7 DEF OnlyCuts
<1>10. f.kind \in {"headers", "data", "trailers"} => ~Heads(p)
  BY <1>7 DEF Heads
<1>11. Script(v2, p, server)
  <2>1. ASSUME NEW k \in 1 .. Len(p)
        PROVE  Continues(v2, p, k - 1, p[k], server)
    <3>1. /\ Continues(v, q, k, p[k], server) /\ f.kind # "reset"
          /\ f.eos => p[k].kind = "reset"
          /\ k \in Nat \ {0}
      BY <1>7
    <3>2. \A m \in 1 .. k - 1 : m + 1 \in 1 .. k /\ p[m] = q[m + 1]
      BY <1>1, <3>1
    <3>3. \A m \in 1 .. k : m = 1 \/ (m - 1 \in 1 .. k - 1 /\ p[m - 1] = q[m])
      BY <1>1, <3>1
    <3>4. v2 \in {"idle", "open", "ended"}
      BY <1>1, <1>6, <3>1 DEF Kinds
    <3>5. v2 = "ended" => p[k].kind = "reset"
      BY <1>6, <3>1
    <3>6. ASSUME p[k].kind \in {"headers", "informational"}
          PROVE  v2 = "idle" /\ \A m \in 1 .. k - 1 : p[m].kind = "informational"
      <4>1. v = "idle" /\ \A m \in 1 .. k : q[m].kind = "informational"
        BY <3>1, <3>6 DEF Continues
      <4>2. 1 \in 1 .. k
        BY <3>1
      <4>3. f.kind = "informational"
        BY <1>1, <4>1, <4>2
      <4> QED
        BY <1>6, <3>2, <4>1, <4>3
    <3>7. p[k].kind = "informational" => server /\ ~p[k].eos
      BY <3>1 DEF Continues
    <3>8. (\E m \in 1 .. k : q[m].kind = "headers")
            => v2 = "open" \/ v2 = "ended" \/ \E m \in 1 .. k - 1 : p[m].kind = "headers"
      BY <1>1, <1>6, <3>3
    <3>9. v = "open" => v2 # "idle"
      BY <1>5, <1>6
    <3>10. ASSUME p[k].kind \in {"data", "trailers"}
           PROVE  v2 = "open" \/ \E m \in 1 .. k - 1 : p[m].kind = "headers"
      <4>1. v = "open" \/ \E m \in 1 .. k : q[m].kind = "headers"
        BY <3>1, <3>10 DEF Continues
      <4> QED
        BY <3>4, <3>5, <3>8, <3>9, <3>10, <4>1
    <3>11. ASSUME p[k].kind = "reset", ~server
           PROVE  v2 # "idle" \/ \E m \in 1 .. k - 1 : p[m].kind = "headers"
      <4>1. v # "idle" \/ \E m \in 1 .. k : q[m].kind = "headers"
        BY <3>1, <3>11 DEF Continues
      <4>2. v # "idle" => v2 # "idle"
        BY <1>1, <1>5, <1>6 DEF Kinds
      <4> QED
        BY <3>8, <4>1, <4>2
    <3>12. \A m \in 1 .. k - 1 : p[m].kind # "reset" /\ (p[m].eos => p[k].kind = "reset")
      BY <3>1, <3>2 DEF Continues
    <3> QED
      BY <3>4, <3>5, <3>6, <3>7, <3>10, <3>11, <3>12 DEF Continues
  <2> QED
    BY <2>1 DEF Script
<1> QED
  BY <1>3, <1>6, <1>5, <1>8, <1>9, <1>10, <1>11, TailKinds DEF Tells, f, p, v2

\* A part of the first DATA frame is written, or returns to the queue.
LEMMA ScriptCut ==
  ASSUME NEW q \in Seq(Frames), NEW server \in BOOLEAN, q # <<>>,
         Script("open", q, server), Head(q).kind = "data"
  PROVE  Script("open", Tail(q), server)
<1> DEFINE f == Head(q)
           p == Tail(q)
<1>1. /\ p \in Seq(Frames) /\ Len(p) = Len(q) - 1 /\ Len(q) \in Nat \ {0} /\ f = q[1]
      /\ \A k \in 1 .. Len(q) - 1 : p[k] = q[k + 1]
  BY TailAt
<1> HIDE DEF f, p
<1>2. ASSUME NEW k \in 1 .. Len(p)
      PROVE  Continues("open", p, k - 1, p[k], server)
  <2>1. k + 1 \in 1 .. Len(q) /\ p[k] = q[k + 1] /\ k \in Nat \ {0} /\ (k + 1) - 1 = k
    BY <1>1
  <2>2. Continues("open", q, k, p[k], server)
    BY <2>1 DEF Script
  <2>3. \A m \in 1 .. k - 1 : m + 1 \in 1 .. k /\ p[m] = q[m + 1]
    BY <1>1, <2>1
  <2> QED
    BY <2>2, <2>3 DEF Continues
<1> QED
  BY <1>2 DEF Script, p

LEMMA ScriptFront ==
  ASSUME NEW q \in Seq(Frames), NEW f \in Frames, NEW server \in BOOLEAN,
         Script("open", q, server), f.kind = "data", f.eos => OnlyCuts(q)
  PROVE  Script("open", <<f>> \o q, server)
<1> DEFINE p == <<f>> \o q
<1>1. /\ Len(p) = Len(q) + 1 /\ p[1] = f /\ Len(q) \in Nat
      /\ \A k \in 2 .. Len(q) + 1 : p[k] = q[k - 1]
  BY FrontAt
<1> HIDE DEF p
<1>2. ASSUME NEW k \in 1 .. Len(p)
      PROVE  Continues("open", p, k - 1, p[k], server)
  <2>1. CASE k = 1
    <3>1. \A m : m \notin 1 .. k - 1
      BY <2>1
    <3> QED
      BY <1>1, <2>1, <3>1 DEF Continues
  <2>2. CASE k # 1
    <3>1. k - 1 \in 1 .. Len(q) /\ p[k] = q[k - 1] /\ k \in Nat /\ k - 1 \in Nat /\ k \in 2 .. Len(q) + 1
      BY <1>1, <2>2
    <3>2. Continues("open", q, (k - 1) - 1, p[k], server)
      BY <3>1 DEF Script
    <3>3. \A m \in 1 .. k - 1 : m = 1 \/ (m - 1 \in 1 .. (k - 1) - 1 /\ p[m] = q[m - 1])
      BY <1>1, <3>1
    <3>4. f.eos => p[k].kind = "reset"
      BY <3>1 DEF OnlyCuts
    <3>5. p[k].kind \notin {"headers", "informational"}
      BY <3>2 DEF Continues
    <3>6. \A m \in 1 .. k - 1 : p[m].kind # "reset" /\ (p[m].eos => p[k].kind = "reset")
      BY <1>1, <3>2, <3>3, <3>4 DEF Continues
    <3> QED
      BY <3>2, <3>5, <3>6 DEF Continues
  <2> QED
    BY <2>1, <2>2
<1> QED
  BY <1>2 DEF Script, p


----------------------------------------------------------------------------
(* What happens to a stream keeps what is said of it.                      *)

LEMMA VoiceSame ==
  ASSUME NEW r, NEW r2, NEW v, NEW more, NEW last, NEW waits,
         NEW pending, NEW due, NEW server,
         NEW refused, NEW due2,
         Voice(r, v, more, last, waits, pending, due, server, refused),
         Same(r, r2), due => due2
  PROVE  Voice(r2, v, more, last, waits, pending, due2, server, refused)
BY DEF Voice, Says, Opens, Cancels, Silent, Same, IsStored, IsFlushed

LEMMA VoiceState ==
  ASSUME NEW r, NEW r2, NEW v, NEW more, NEW last, NEW waits,
         NEW pending, NEW due, NEW server,
         NEW refused, NEW due2,
         Voice(r, v, more, last, waits, pending, due, server, refused), IsStored(r),
         r2.place = r.place, r2.queue = r.queue, r2.counted = r.counted,
         r2.buffered = r.buffered, Firmer(r.state, r2.state),
         waits => Unanswered(r2.state) \/ IsReset(r2.state),
         server \/ Cancels(r2, due2)
  PROVE  Voice(r2, v, more, last, waits, pending, due2, server, refused)
<1>1. IsStored(r2)
  BY DEF IsStored
<1>2. Says(r, v, more, last, waits, server)
  BY DEF Voice
<1>3. Says(r2, v, more, last, waits, server)
  <2>1. Cuts(r.queue) \/ v \in {"reset", "unopened"}
          => IsReset(r2.state) /\ ~IsScheduledReset(r2.state)
    BY <1>2 DEF Says, Firmer, IsReset
  <2> QED
    BY <1>2, <2>1 DEF Says, Firmer
<1>4. ASSUME ~server
      PROVE  Opens(r2, v, waits, pending, refused)
  <2>1. Opens(r, v, waits, pending, refused)
    BY <1>4 DEF Voice
  <2>2. IsReset(r.state) /\ ~IsScheduledReset(r.state) => ~IsScheduledReset(r2.state)
    BY DEF Firmer, IsReset
  <2>3. IsFlushed(r) /\ ~IsScheduledReset(r.state) => IsFlushed(r2) /\ ~IsScheduledReset(r2.state)
    BY DEF Firmer, IsFlushed
  <2>4. IsReset(r.state) => IsReset(r2.state)
    BY DEF Firmer
  <2> QED
    BY <2>1, <2>2, <2>3, <2>4 DEF Opens
<1> QED
  BY <1>1, <1>3, <1>4 DEF Voice

LEMMA VoiceCleared ==
  ASSUME NEW r, NEW r2, NEW v, NEW more, NEW last, NEW waits,
         NEW pending, NEW due, NEW server,
         NEW refused, NEW due2, NEW more2, ~more2,
         Voice(r, v, more, last, waits, pending, due, server, refused), IsStored(r),
         r2.place = r.place, r2.queue = <<>>, r2.counted = r.counted,
         r2.buffered = 0, r.state \in States, Firmer(r.state, r2.state), IsClosed(r2.state),
         waits => refused /\ IsReset(r2.state),
         server \/ Cancels(r2, due2)
  PROVE  Voice(r2, v, more2, last, waits, pending, due2, server, refused)
<1>1. IsStored(r2)
  BY DEF IsStored
<1>2. Says(r, v, more, last, waits, server)
  BY DEF Voice
<1>3. v \in Views /\ r2.state \in States
  BY <1>2 DEF Says, Firmer
<1>4. /\ ~Heads(<<>>) /\ ~Cuts(<<>>) /\ OnlyCuts(<<>>) /\ Script(v, <<>>, server)
  BY <1>3, EmptyAt
<1>5. ~CanSendOpen(r2.state) /\ ~IsSendStreaming(r2.state)
  BY <1>3, Speech
<1>6. Says(r2, v, more2, last, waits, server)
  <2>1. v \in {"reset", "unopened"} => IsReset(r2.state) /\ ~IsScheduledReset(r2.state)
    BY <1>2 DEF Says, Firmer, IsReset
  <2> QED
    BY <1>2, <1>3, <1>4, <1>5, <2>1 DEF Says
<1>7. ASSUME ~server
      PROVE  Opens(r2, v, waits, pending, refused)
  <2>1. Opens(r, v, waits, pending, refused)
    BY <1>7 DEF Voice
  <2>2. IsReset(r.state) => IsReset(r2.state)
    BY DEF Firmer
  <2>3. IsReset(r.state) /\ ~IsScheduledReset(r.state) => ~IsScheduledReset(r2.state)
    BY DEF Firmer, IsReset
  <2>4. ~IsScheduledReset(r.state) /\ IsFlushed(r) => ~IsScheduledReset(r2.state)
    BY DEF Firmer, IsFlushed
  <2>5. IsFlushed(r2)
    BY DEF IsFlushed
  <2> QED
    BY <1>4, <2>1, <2>2, <2>3, <2>4, <2>5 DEF Opens
<1> QED
  BY <1>1, <1>6, <1>7 DEF Voice

\* RST_STREAM is queued behind what a stream that waits to be opened has.
LEMMA VoiceResetEarly ==
  ASSUME NEW r, NEW r2, NEW v, NEW more, NEW last, NEW waits,
         NEW pending, NEW due, NEW server,
         NEW refused, NEW due2,
         Voice(r, v, more, last, waits, pending, due, server, refused), IsStored(r),
         r2.place = r.place, r.queue \in Seq(Frames), r2.queue = Append(r.queue, ResetFrame),
         r2.counted = r.counted, r.state \in States, r2.state = SetReset("LocalReset"),
         ~IsReset(r.state), ~(IsClosed(r.state) /\ r.queue = <<>>)
  PROVE  Voice(r2, v, more, last, waits, pending, due2, server, refused)
<1> DEFINE st2 == SetReset("LocalReset")
<1>1. IsStored(r2)
  BY DEF IsStored
<1>2. Says(r, v, more, last, waits, server)
  BY DEF Voice
<1>3. /\ Firmer(r.state, st2) /\ IsReset(st2) /\ IsClosed(st2) /\ ~IsScheduledReset(st2)
      /\ st2 \in States
  BY EndingSpeech DEF Errors, LocalErrors, Calmer, Firmer
<1> HIDE DEF st2
<1>4. r2.state = st2
  BY DEF st2
<1>5. ~CanSendOpen(st2) /\ ~IsSendStreaming(st2)
  BY <1>3, Speech
<1>6. ResetFrame \in Frames /\ ResetFrame.kind = "reset"
  BY ResetFrameIn DEF ResetFrame, Frame
<1>7. /\ Heads(r2.queue) <=> Heads(r.queue)
      /\ Cuts(r2.queue)
      /\ OnlyCuts(r2.queue) <=> OnlyCuts(r.queue)
  BY <1>6, AppendKinds
<1>8. v \in {"idle", "open", "ended"} /\ ~Cuts(r.queue)
  BY <1>2 DEF Says, Views
<1>9. ~server /\ v = "idle" => Heads(r.queue)
  BY DEF Voice, Opens
<1>10. Script(v, r2.queue, server)
  <2>1. Continues(v, r.queue, Len(r.queue), ResetFrame, server)
    BY <1>6, <1>8, <1>9 DEF Continues, Cuts, Heads
  <2>2. Script(v, r.queue, server)
    BY <1>2 DEF Says
  <2> QED
    BY <1>6, <2>1, <2>2, ScriptAppend
<1>11. Says(r2, v, more, last, waits, server)
  BY <1>2, <1>3, <1>4, <1>5, <1>7, <1>10 DEF Says
<1>12. ASSUME ~server
       PROVE  Opens(r2, v, waits, pending, refused) /\ Cancels(r2, due2)
  <2>1. Opens(r, v, waits, pending, refused)
    BY <1>12 DEF Voice
  <2>2. ~IsFlushed(r)
    BY DEF IsFlushed
  <2> QED
    BY <1>3, <1>4, <1>7, <1>9, <1>12, <2>1, <2>2 DEF Opens, Cancels
<1>13. v = "unopened" => refused
  BY DEF Voice
<1> QED
  BY <1>1, <1>11, <1>12, <1>13 DEF Voice

\* RST_STREAM takes the place of what was queued.
LEMMA VoiceResetLate ==
  ASSUME NEW r, NEW r2, NEW v, NEW more, NEW last,
         NEW waits, NEW more2, ~waits, ~more2, NEW due, NEW server,
         NEW refused, NEW due2,
         Voice(r, v, more, last, waits, waits, due, server, refused), IsStored(r),
         r2.place = r.place, r2.queue = Append(<<>>, ResetFrame),
         r2.counted = r.counted, r.state \in States, r2.state = SetReset("LocalReset"),
         ~IsReset(r.state), ~(IsClosed(r.state) /\ r.queue = <<>>)
  PROVE  Voice(r2, v, more2, last, waits, waits, due2, server, refused)
<1> DEFINE st2 == SetReset("LocalReset")
<1>1. IsStored(r2)
  BY DEF IsStored
<1>2. Says(r, v, more, last, waits, server)
  BY DEF Voice
<1>3. /\ Firmer(r.state, st2) /\ IsReset(st2) /\ IsClosed(st2) /\ ~IsScheduledReset(st2)
      /\ st2 \in States
  BY EndingSpeech DEF Errors, LocalErrors, Calmer, Firmer
<1> HIDE DEF st2
<1>4. r2.state = st2
  BY DEF st2
<1>5. ~CanSendOpen(st2) /\ ~IsSendStreaming(st2)
  BY <1>3, Speech
<1>6. ResetFrame \in Frames /\ ResetFrame.kind = "reset" /\ <<>> \in Seq(Frames)
  BY ResetFrameIn DEF ResetFrame, Frame
<1>7. v \in {"idle", "open", "ended"} /\ v \in Views
  BY <1>2 DEF Says, Views
<1>8. ~server => v # "idle"
  BY DEF Voice, Opens
<1>9. /\ ~Heads(<<>>) /\ ~Cuts(<<>>) /\ OnlyCuts(<<>>) /\ Script(v, <<>>, server)
  BY <1>7, EmptyAt
<1>10. ~Heads(r2.queue)
  BY <1>6, <1>9, AppendKinds
<1>11. Script(v, r2.queue, server)
  <2>1. 1 .. Len(<<>>) = {}
    OBVIOUS
  <2>2. Continues(v, <<>>, Len(<<>>), ResetFrame, server)
    BY <1>6, <1>7, <1>8, <2>1 DEF Continues
  <2> QED
    BY <1>6, <1>9, <2>2, ScriptAppend
<1>12. r.place # "unlinked"
  BY <1>2 DEF Says
<1>13. Says(r2, v, more2, last, waits, server)
  BY <1>3, <1>4, <1>5, <1>7, <1>11, <1>12 DEF Says
<1>14. ASSUME ~server
       PROVE  Opens(r2, v, waits, waits, refused) /\ Cancels(r2, due2)
  <2>1. Opens(r, v, waits, waits, refused)
    BY <1>14 DEF Voice
  <2>2. ~IsFlushed(r)
    BY DEF IsFlushed
  <2> QED
    BY <1>3, <1>4, <1>8, <1>10, <1>14, <2>1, <2>2 DEF Opens, Cancels
<1> QED
  BY <1>1, <1>7, <1>13, <1>14 DEF Voice


\* DATA or trailers, while the sending half streams.
LEMMA VoiceAppend ==
  ASSUME NEW r, NEW r2, NEW f \in Frames, NEW v, NEW more, NEW last,
         NEW waits, NEW pending, NEW due,
         NEW server, NEW refused, NEW due2,
         Voice(r, v, more, last, waits, pending, due, server, refused), IsStored(r),
         r2.place = r.place, r.queue \in Seq(Frames), r2.queue = Append(r.queue, f),
         r2.counted = r.counted, r.state \in States, IsSendStreaming(r.state),
         f.kind \in {"data", "trailers"},
         f.eos => r2.state = SendClose(r.state), ~f.eos => r2.state = r.state
  PROVE  Voice(r2, v, more, last, waits, pending, due2, server, refused)
<1>1. IsStored(r2)
  BY DEF IsStored
<1>2. Says(r, v, more, last, waits, server)
  BY DEF Voice
<1>3. /\ ~IsClosed(r.state) /\ ~CanSendOpen(r.state) /\ HasLocal(r.state)
      /\ ~IsReset(r.state) /\ ~IsScheduledReset(r.state)
  BY Speech
<1>4. /\ ~CanSendOpen(r2.state)
      /\ IsSendStreaming(r2.state) => ~f.eos
      /\ IsScheduledReset(r2.state) => r2.state = r.state
      /\ Unanswered(r.state) => Unanswered(r2.state)
  BY <1>3, SendCloseSpeech DEF Calmer, Firmer
<1>5. /\ v \in {"idle", "open"} /\ (v = "idle" => Heads(r.queue))
      /\ \A k \in 1 .. Len(r.queue) : r.queue[k].kind # "reset" /\ ~r.queue[k].eos
      /\ ~(more /\ last)
  BY <1>2 DEF Says
<1>6. /\ Heads(r2.queue) <=> Heads(r.queue)
      /\ Cuts(r2.queue) <=> Cuts(r.queue)
  BY AppendKinds
<1>7. ~Cuts(r.queue)
  BY <1>5 DEF Cuts
<1>8. Script(v, r2.queue, server)
  <2>1. v = "idle" => \E m \in 1 .. Len(r.queue) : r.queue[m].kind = "headers"
    BY <1>5 DEF Heads
  <2>2. Continues(v, r.queue, Len(r.queue), f, server)
    BY <1>5, <2>1 DEF Continues
  <2> QED
    BY <1>2, <2>2, ScriptAppend DEF Says
<1>9. IsSendStreaming(r2.state) =>
        \A k \in 1 .. Len(r2.queue) : r2.queue[k].kind # "reset" /\ ~r2.queue[k].eos
  <2>1. /\ Len(r2.queue) = Len(r.queue) + 1 /\ Len(r.queue) \in Nat
        /\ \A k \in 1 .. Len(r.queue) : r2.queue[k] = r.queue[k]
        /\ r2.queue[Len(r.queue) + 1] = f
    BY AppendAt
  <2>2. \A k \in 1 .. Len(r2.queue) : k \in 1 .. Len(r.queue) \/ k = Len(r.queue) + 1
    BY <2>1
  <2> QED
    BY <1>4, <1>5, <2>1, <2>2
<1>10. r2.place # "unlinked"
  BY <1>2, <1>3 DEF Says
<1>11. Says(r2, v, more, last, waits, server)
  BY <1>2, <1>4, <1>5, <1>6, <1>7, <1>8, <1>9, <1>10 DEF Says
<1>12. ASSUME ~server
       PROVE  Opens(r2, v, waits, pending, refused) /\ Cancels(r2, due2)
  <2>1. Opens(r, v, waits, pending, refused)
    BY <1>12 DEF Voice
  <2>2. ~IsFlushed(r)
    BY <1>3 DEF IsFlushed
  <2> QED
    BY <1>3, <1>4, <1>5, <1>6, <2>1, <2>2 DEF Opens, Cancels
<1> QED
  BY <1>1, <1>5, <1>11, <1>12 DEF Voice

\* A server's response, or an informational head before it.
LEMMA VoiceRespond ==
  ASSUME NEW r, NEW r2, NEW f \in Frames, NEW v, NEW more, NEW last,
         NEW waits, NEW pending, NEW due,
         NEW refused, NEW due2,
         Voice(r, v, more, last, waits, pending, due, Always, refused), IsStored(r),
         r2.place = r.place, r.queue \in Seq(Frames), r2.queue = Append(r.queue, f),
         r2.counted = r.counted, r.state \in States, CanSendOpen(r.state),
         \/ f.kind = "headers" /\ r2.state = SendOpen(r.state, f.eos)
         \/ f.kind = "informational" /\ ~f.eos /\ r2.state = r.state
  PROVE  Voice(r2, v, more, last, waits, pending, due2, Always, refused)
<1> USE DEF Never, Always
<1>1. IsStored(r2)
  BY DEF IsStored
<1>2. Says(r, v, more, last, waits, Always)
  BY DEF Voice
<1>3. ~IsClosed(r.state) /\ ~IsReset(r.state) /\ ~IsSendStreaming(r.state)
  BY Speech
<1>4. v = "idle" /\ Preface(r.queue) /\ Script(v, r.queue, Always) /\ ~more
  BY <1>2 DEF Says
<1>5. \A m \in 1 .. Len(r.queue) :
        r.queue[m].kind = "informational" /\ r.queue[m].eos = FALSE
  <2>1. \A m \in 1 .. Len(r.queue) : r.queue[m] \in Frames
    OBVIOUS
  <2> QED
    BY <1>4, <2>1 DEF Preface, Script, Continues, Frames
<1>6. Script(v, r2.queue, Always)
  <2>1. Continues(v, r.queue, Len(r.queue), f, Always)
    BY <1>4, <1>5 DEF Continues
  <2> QED
    BY <1>4, <2>1, ScriptAppend
<1>7. /\ Heads(r2.queue) <=> f.kind = "headers"
      /\ ~Cuts(r2.queue)
  <2>1. ~Heads(r.queue) /\ ~Cuts(r.queue)
    BY <1>5 DEF Heads, Cuts
  <2>2. f.kind # "reset"
    OBVIOUS
  <2> QED
    BY <2>1, <2>2, AppendKinds
<1>8. \A k \in 1 .. Len(r2.queue) :
        /\ r2.queue[k].kind # "reset"
        /\ r2.queue[k].eos => f.eos
        /\ f.kind = "informational" => r2.queue[k].kind = "informational"
  <2>1. /\ Len(r2.queue) = Len(r.queue) + 1 /\ Len(r.queue) \in Nat
        /\ \A k \in 1 .. Len(r.queue) : r2.queue[k] = r.queue[k]
        /\ r2.queue[Len(r.queue) + 1] = f
    BY AppendAt
  <2>2. \A k \in 1 .. Len(r2.queue) : k \in 1 .. Len(r.queue) \/ k = Len(r.queue) + 1
    BY <2>1
  <2> QED
    BY <1>5, <2>1, <2>2
<1>9. r2.place # "unlinked"
  BY <1>2, <1>3 DEF Says
<1>10. CASE f.kind = "headers"
  <2>1. f.eos \in BOOLEAN
    BY DEF Frames
  <2>2. ~CanSendOpen(r2.state) /\ (f.eos => ~IsSendStreaming(r2.state)) /\ ~IsReset(r2.state)
    BY <1>10, <2>1, SendOpenSpeech
  <2>3. Says(r2, v, more, last, waits, Always)
    BY <1>2, <1>4, <1>6, <1>7, <1>8, <1>9, <1>10, <2>2 DEF Says
  <2> QED
    BY <1>1, <1>4, <2>3 DEF Voice
<1>11. CASE f.kind = "informational"
  <2>1. Preface(r2.queue)
    BY <1>8, <1>11 DEF Preface
  <2>2. Says(r2, v, more, last, waits, Always)
    BY <1>2, <1>3, <1>4, <1>6, <1>7, <1>8, <1>9, <1>11, <2>1 DEF Says
  <2> QED
    BY <1>1, <1>4, <2>2 DEF Voice
<1> QED
  BY <1>10, <1>11

\* A transition, after which the stream is linked no more or gone.
LEMMA VoiceLeft ==
  ASSUME NEW r, NEW r2, NEW v, NEW more, NEW last,
         NEW waits, NEW pending, NEW due,
         NEW server, NEW refused,
         Voice(r, v, more, last, waits, pending, due, server, refused), IsStored(r),
         IsFlushed(r), waits => pending, r2.place \in {r.place, "unlinked"},
         r2.state = r.state, r2.queue = r.queue, r2.buffered = r.buffered,
         r2.counted = (r.counted /\ ~GivesSlotBack(r))
  PROVE  Voice(r2, v, more, last, waits, pending, due, server, refused)
<1>1. IsStored(r2)
  BY DEF IsStored
<1>2. Says(r2, v, more, last, waits, server)
  BY DEF Voice, Says, IsFlushed
<1>3. ASSUME ~server
      PROVE  Opens(r2, v, waits, pending, refused) /\ Cancels(r2, due)
  <2>1. Opens(r, v, waits, pending, refused) /\ Cancels(r, due)
    BY <1>3 DEF Voice
  <2>2. IsFlushed(r2)
    BY DEF IsFlushed
  <2>3. ~r2.counted => ~r.counted \/ ~IsScheduledReset(r.state)
    BY DEF GivesSlotBack
  <2>4. Cancels(r2, due)
    BY <2>1 DEF Cancels
  <2> QED
    BY <2>1, <2>2, <2>3, <2>4 DEF Opens
<1> QED
  BY <1>1, <1>2, <1>3 DEF Voice

LEMMA VoiceGone ==
  ASSUME NEW r, NEW r2, NEW v, NEW more, NEW last,
         NEW waits, NEW pending, NEW due,
         NEW server, NEW refused, NEW due2,
         NEW more2, NEW last2, NEW waits2,
         NEW pending2,
         Voice(r, v, more, last, waits, pending, due, server, refused), IsStored(r),
         r2.place = "removed", r2.queue = <<>>, ~r2.counted
  PROVE  Voice(r2, v, more2, last2, waits2, pending2, due2, server, refused)
BY DEF Voice, Says, Silent, IsStored

\* The head is taken from a queue.
Taking(r, r2, v, last, last2, waits, due, server, refused, due2, peer) ==
  /\ last \in BOOLEAN /\ last2 \in BOOLEAN /\ waits \in BOOLEAN /\ due \in BOOLEAN
  /\ server \in BOOLEAN /\ refused \in BOOLEAN /\ due2 \in BOOLEAN
  /\ server <=> peer = "server"
  /\ Voice(r, v, Never, last, waits, Never, due, server, refused) /\ IsStored(r)
  /\ r.queue \in Seq(Frames) /\ r.queue # <<>> /\ r.state \in States
  /\ r2.place = r.place /\ r2.queue = Tail(r.queue) /\ r2.counted = r.counted
  /\ r2.state = r.state /\ (IsScheduledReset(r.state) => due2)

\* It is written: the stream waits no more.
LEMMA VoicePop ==
  ASSUME NEW r, NEW r2, NEW v, NEW last, NEW last2, NEW waits, NEW due, NEW server, NEW refused,
         NEW due2, NEW peer,
         Taking(r, r2, v, last, last2, waits, due, server, refused, due2, peer)
  PROVE  LET v2 == AfterFrame(v, Head(r.queue), peer)
         IN  /\ Voice(r2, v2, Never, last2, Never, Never, due2, server, refused)
             /\ server \/ waits \/ v # "idle"
<1> USE DEF Never, Always, Taking
<1> DEFINE f == Head(r.queue)
           p == Tail(r.queue)
           v2 == AfterFrame(v, f, peer)
<1>1. IsStored(r2)
  BY DEF IsStored
<1>2. Says(r, v, Never, last, waits, server)
  BY DEF Voice
<1>14. Tells(v, v2, r.queue, server)
  <2>1. Script(v, r.queue, server)
    BY <1>2 DEF Says
  <2> QED
    BY <2>1, ScriptTail
<1> HIDE DEF v2
<1>3. /\ Continues(v, r.queue, 0, f, server)
      /\ v2 \in Views /\ v2 # "unopened"
      /\ f.kind \notin {"headers", "informational"} => v2 # "idle"
      /\ f.kind = "headers" => v = "idle" /\ v2 \in {"open", "ended"} /\ ~Heads(p)
      /\ f.kind = "informational" => server /\ v = "idle" /\ v2 = "idle"
      /\ f.kind \in {"data", "trailers"} => v = "open" /\ v2 \in {"open", "ended"} /\ ~Heads(r.queue)
      /\ f.kind = "reset" => v2 = "reset" /\ p = <<>> /\ (server \/ v # "idle")
      /\ v2 = "ended" => f.eos
      /\ v2 \in {"open", "ended"} /\ ~f.eos => v2 = "open"
      /\ f.eos => OnlyCuts(p)
      /\ Script(v2, p, server)
  BY <1>14 DEF Tells
<1>4. /\ Heads(r.queue) <=> f.kind = "headers" \/ Heads(p)
      /\ Cuts(r.queue) <=> f.kind = "reset" \/ Cuts(p)
  BY TailKinds
<1>5. /\ f.kind \in Kinds /\ p \in Seq(Frames) /\ Len(p) = Len(r.queue) - 1 /\ Len(r.queue) \in Nat \ {0}
      /\ f = r.queue[1] /\ \A k \in 1 .. Len(r.queue) - 1 : p[k] = r.queue[k + 1]
  BY TailAt DEF Frames
<1>6. \A k \in 1 .. Len(p) : k + 1 \in 1 .. Len(r.queue) /\ p[k] = r.queue[k + 1]
  BY <1>5
<1>7. 1 \in 1 .. Len(r.queue)
  BY <1>5
<1> HIDE DEF f, p
<1>8. r2.queue = p /\ r2.place # "unlinked"
  BY <1>2 DEF Says, p
<1>9. CanSendOpen(r.state) => v2 = "idle" /\ Preface(p)
  BY <1>2, <1>3, <1>5, <1>6, <1>7 DEF Says, Preface
<1>10. IsSendStreaming(r.state) =>
         /\ v2 \in {"idle", "open"} /\ (v2 = "idle" => Heads(p))
         /\ \A k \in 1 .. Len(p) : p[k].kind # "reset" /\ ~p[k].eos
  <2>1. ASSUME IsSendStreaming(r.state)
        PROVE  /\ v2 \in {"idle", "open"} /\ (v2 = "idle" => Heads(p))
               /\ \A k \in 1 .. Len(p) : p[k].kind # "reset" /\ ~p[k].eos
    <3>1. /\ v \in {"idle", "open"} /\ (v = "idle" => Heads(r.queue))
          /\ \A k \in 1 .. Len(r.queue) : r.queue[k].kind # "reset" /\ ~r.queue[k].eos
      BY <1>2, <2>1 DEF Says
    <3>2. f.kind # "reset" /\ ~f.eos
      BY <1>5, <1>7, <3>1
    <3>3. v2 \in {"idle", "open"}
      BY <1>3, <1>5, <3>2 DEF Kinds
    <3>4. v2 = "idle" => Heads(p)
      BY <1>3, <1>4, <1>5, <3>1, <3>2 DEF Kinds
    <3> QED
      BY <1>6, <3>1, <3>3, <3>4
  <2> QED
    BY <2>1
<1>11. v2 \in {"reset", "unopened"} \/ Cuts(p) => IsReset(r.state) /\ ~IsScheduledReset(r.state)
  BY <1>2, <1>3, <1>4, <1>5 DEF Says, Kinds
<1>12. Says(r2, v2, Never, last2, Never, server)
  BY <1>3, <1>8, <1>9, <1>10, <1>11 DEF Says
<1>13. ASSUME ~server
       PROVE  Opens(r2, v2, Never, Never, refused) /\ Cancels(r2, due2) /\ (waits \/ v # "idle")
  <2>1. Opens(r, v, waits, Never, refused) /\ Cancels(r, due)
    BY <1>13 DEF Voice
  <2>2. ~IsFlushed(r)
    BY DEF IsFlushed
  <2>3. ~Heads(p)
    BY <1>2, <1>3, <1>4, <1>5, <1>13, <2>1 DEF Opens, Says, Kinds, EmptyAt
  <2>4. v2 # "idle"
    BY <1>3, <1>5, <1>13 DEF Kinds
  <2>5. v2 \in {"open", "ended"} => r.counted
    BY <1>3, <1>5, <2>1, <2>2, <1>4, <1>13 DEF Opens, Kinds
  <2>6. waits \/ v # "idle"
    BY <1>3, <1>4, <1>5, <1>13, <2>1 DEF Opens, Kinds
  <2>7. Cancels(r2, due2)
    BY <2>1 DEF Cancels
  <2> QED
    BY <1>8, <2>3, <2>4, <2>5, <2>6, <2>7 DEF Opens
<1> QED
  BY <1>1, <1>3, <1>12, <1>13 DEF Voice, f, p, v2


\* A part of the first DATA frame is written, the rest will return.
LEMMA VoiceCut ==
  ASSUME NEW r, NEW r2, NEW v, NEW last, NEW waits, NEW due,
         NEW server \in BOOLEAN, NEW refused, NEW due2,
         Voice(r, v, Never, last, waits, Never, due, server, refused), IsStored(r),
         r.queue \in Seq(Frames), r.queue # <<>>, Head(r.queue).kind = "data",
         r.state \in States, r2.place = r.place, r2.queue = Tail(r.queue),
         r2.counted = r.counted, r2.state = r.state, IsScheduledReset(r.state) => due2
  PROVE  /\ v = "open"
         /\ Voice(r2, v, Always, Head(r.queue).eos, Never, Never, due2, server, refused)
<1> USE DEF Never, Always
<1> DEFINE f == Head(r.queue)
           p == Tail(r.queue)
<1>1. IsStored(r2)
  BY DEF IsStored
<1>2. Says(r, v, Never, last, waits, server)
  BY DEF Voice
<1>3. v \in Views /\ Script(v, r.queue, server)
  BY <1>2 DEF Says
<1>4. Tells(v, AfterFrame(v, f, IF server THEN "server" ELSE "client"), r.queue, server)
  BY <1>3, ScriptTail
<1>5. v = "open" /\ ~Heads(r.queue) /\ (f.eos => OnlyCuts(p))
  BY <1>4 DEF Tells
<1>6. Script("open", p, server)
  BY <1>3, <1>5, ScriptCut
<1>7. /\ Heads(r.queue) <=> f.kind = "headers" \/ Heads(p)
      /\ Cuts(r.queue) <=> f.kind = "reset" \/ Cuts(p)
  BY TailKinds
<1>8. /\ p \in Seq(Frames) /\ Len(p) = Len(r.queue) - 1 /\ Len(r.queue) \in Nat \ {0}
      /\ f = r.queue[1] /\ \A k \in 1 .. Len(r.queue) - 1 : p[k] = r.queue[k + 1]
  BY TailAt
<1>9. \A k \in 1 .. Len(p) : k + 1 \in 1 .. Len(r.queue) /\ p[k] = r.queue[k + 1]
  BY <1>8
<1>10. 1 \in 1 .. Len(r.queue)
  BY <1>8
<1> HIDE DEF f, p
<1>11. r2.queue = p /\ r2.place # "unlinked"
  BY <1>2 DEF Says, p
<1>12. ~CanSendOpen(r.state)
  BY <1>2, <1>5 DEF Says
<1>13. IsSendStreaming(r.state) =>
         ~f.eos /\ \A k \in 1 .. Len(p) : p[k].kind # "reset" /\ ~p[k].eos
  BY <1>2, <1>8, <1>9, <1>10 DEF Says
<1>14. Cuts(p) => IsReset(r.state) /\ ~IsScheduledReset(r.state)
  BY <1>2, <1>7 DEF Says
<1>15. Says(r2, v, Always, f.eos, Never, server)
  BY <1>3, <1>5, <1>6, <1>11, <1>12, <1>13, <1>14 DEF Says
<1>16. ASSUME ~server
       PROVE  Opens(r2, v, Never, Never, refused) /\ Cancels(r2, due2)
  <2>1. Opens(r, v, waits, Never, refused) /\ Cancels(r, due)
    BY <1>16 DEF Voice
  <2>2. ~IsFlushed(r)
    BY DEF IsFlushed
  <2>3. Cancels(r2, due2)
    BY <2>1 DEF Cancels
  <2> QED
    BY <1>5, <1>7, <1>11, <2>1, <2>2, <2>3 DEF Opens
<1> QED
  BY <1>1, <1>5, <1>15, <1>16 DEF Voice, f

\* What was not written returns to the head of the queue.
Fronting(r, r2, f, v, last, waits, pending, due, server, refused, due2) ==
  /\ server \in BOOLEAN
  /\ Voice(r, v, Always, last, waits, pending, due, server, refused) /\ IsStored(r)
  /\ r.queue \in Seq(Frames) /\ f \in Frames /\ f.kind = "data" /\ f.eos = last
  /\ r.place # "unlinked" /\ r.buffered # 0 /\ r2.place = r.place
  /\ r2.queue = <<f>> \o r.queue /\ r2.counted = r.counted /\ r2.state = r.state
  /\ due => due2

LEMMA VoiceFront ==
  ASSUME NEW r, NEW r2, NEW f, NEW v, NEW last, NEW last2, NEW waits, NEW pending, NEW due,
         NEW server, NEW refused, NEW due2,
         Fronting(r, r2, f, v, last, waits, pending, due, server, refused, due2)
  PROVE  Voice(r2, v, Never, last2, waits, pending, due2, server, refused)
<1> SUFFICES ASSUME f \in Frames, server \in BOOLEAN,
         Voice(r, v, Always, last, waits, pending, due, server, refused), IsStored(r),
         r.queue \in Seq(Frames), f.kind = "data", f.eos = last, r.place # "unlinked",
         r.buffered # 0, r2.place = r.place, r2.queue = <<f>> \o r.queue,
         r2.counted = r.counted, r2.state = r.state, due => due2
             PROVE  Voice(r2, v, Never, last2, waits, pending, due2, server, refused)
  BY DEF Fronting
<1> USE DEF Never, Always
<1>1. IsStored(r2)
  BY DEF IsStored
<1>2. Says(r, v, Always, last, waits, server)
  BY DEF Voice
<1>3. v = "open" /\ v \in Views /\ Script("open", r.queue, server) /\ (last => OnlyCuts(r.queue))
  BY <1>2 DEF Says
<1>4. Script("open", r2.queue, server)
  BY <1>3, ScriptFront
<1>5. (Heads(r2.queue) <=> Heads(r.queue)) /\ (Cuts(r2.queue) <=> Cuts(r.queue))
  BY FrontKinds
<1>6. IsSendStreaming(r.state) =>
        \A k \in 1 .. Len(r2.queue) : r2.queue[k].kind # "reset" /\ ~r2.queue[k].eos
  <2>1. /\ Len(r2.queue) = Len(r.queue) + 1 /\ r2.queue[1] = f /\ Len(r.queue) \in Nat
        /\ \A k \in 2 .. Len(r.queue) + 1 : r2.queue[k] = r.queue[k - 1]
    BY FrontAt
  <2>2. \A k \in 1 .. Len(r2.queue) :
          k = 1 \/ (k - 1 \in 1 .. Len(r.queue) /\ r2.queue[k] = r.queue[k - 1])
    BY <2>1
  <2> QED
    BY <1>2, <2>1, <2>2 DEF Says
<1>7. ~CanSendOpen(r.state)
  BY <1>2, <1>3 DEF Says
<1>8. Says(r2, v, Never, last2, waits, server)
  BY <1>2, <1>3, <1>4, <1>5, <1>6, <1>7 DEF Says
<1>9. ASSUME ~server
      PROVE  Opens(r2, v, waits, pending, refused) /\ Cancels(r2, due2)
  <2>1. Opens(r, v, waits, pending, refused) /\ Cancels(r, due)
    BY <1>9 DEF Voice
  <2>2. ~IsFlushed(r)
    BY DEF IsFlushed
  <2>3. Cancels(r2, due2)
    BY <2>1 DEF Cancels
  <2> QED
    BY <1>3, <1>5, <2>1, <2>2, <2>3 DEF Opens
<1> QED
  BY <1>1, <1>3, <1>8, <1>9 DEF Voice

\* The reset that was scheduled is written.
LEMMA VoiceCancel ==
  ASSUME NEW r, NEW r2, NEW v, NEW last, NEW last2,
         NEW waits, NEW due,
         NEW server, NEW refused, NEW due2,
         NEW peer, server <=> peer = "server",
         Voice(r, v, Never, last, waits, Never, due, server, refused), IsStored(r),
         r.queue = <<>>, IsScheduledReset(r.state), r.state \in States,
         r2.place = r.place, r2.queue = <<>>, r2.counted = r.counted,
         r2.state = SetReset("LocalReset")
  PROVE  LET v2 == AfterFrame(v, ResetFrame, peer)
         IN  /\ Voice(r2, v2, Never, last2, Never, Never, due2, server, refused)
             /\ server \/ waits \/ v # "idle"
<1> USE DEF Never, Always
<1> DEFINE v2 == AfterFrame(v, ResetFrame, peer)
           st2 == SetReset("LocalReset")
<1>1. IsStored(r2)
  BY DEF IsStored
<1>2. Says(r, v, Never, last, waits, server)
  BY DEF Voice
<1>3. v \in {"idle", "open", "ended"}
  BY <1>2 DEF Says, Views
<1>4. ~Heads(<<>>) /\ ~Cuts(<<>>)
  BY EmptyAt DEF Views
<1>5. ~server /\ v = "idle" => waits /\ refused
  BY <1>4 DEF Voice, Opens
<1>6. ResetFrame.kind = "reset"
  BY DEF ResetFrame, Frame
<1>7. v2 \in {"reset", "unopened"} /\ (v2 = "unopened" => refused)
  BY <1>3, <1>5, <1>6 DEF AfterFrame
<1> HIDE DEF v2
<1>8. IsReset(st2) /\ IsClosed(st2) /\ ~IsScheduledReset(st2) /\ st2 \in States
  BY EndingSpeech DEF Errors, LocalErrors, Calmer, Firmer
<1> HIDE DEF st2
<1>9. ~CanSendOpen(st2) /\ ~IsSendStreaming(st2)
  BY <1>8, Speech
<1>10. r2.state = st2
  BY DEF st2
<1>11. v2 \in Views
  BY <1>7 DEF Views
<1>12. Script(v2, <<>>, server)
  BY <1>11, EmptyAt
<1>13. Says(r2, v2, Never, last2, Never, server)
  BY <1>4, <1>8, <1>9, <1>10, <1>11, <1>12 DEF Says
<1>14. Opens(r2, v2, Never, Never, refused) /\ Cancels(r2, due2)
  BY <1>4, <1>7, <1>8, <1>10 DEF Opens, Cancels
<1> QED
  BY <1>1, <1>5, <1>7, <1>13, <1>14 DEF Voice, v2

\* A stream that was given up has nothing to write: it waits no more.
LEMMA VoiceQuit ==
  ASSUME NEW r, NEW v, NEW last, NEW last2,
         NEW waits, NEW due, NEW due2,
         NEW server, NEW refused,
         Voice(r, v, Never, last, waits, Never, due, server, refused), IsStored(r),
         r.queue = <<>>, server \/ ~IsScheduledReset(r.state)
  PROVE  Voice(r, v, Never, last2, Never, Never, due2, server, refused)
<1> USE DEF Never, Always
<1>1. Says(r, v, Never, last, waits, server) /\ (v = "unopened" => refused)
  BY DEF Voice
<1>2. ~Heads(<<>>)
  BY EmptyAt DEF Views
<1>3. Says(r, v, Never, last2, Never, server)
  BY <1>1 DEF Says
<1>4. ASSUME ~server
      PROVE  Opens(r, v, Never, Never, refused) /\ Cancels(r, due2)
  BY <1>2, <1>4 DEF Voice, Opens, Cancels
<1> QED
  BY <1>1, <1>3, <1>4 DEF Voice

\* New streams: a request that waits to be opened, and one that was received.
LEMMA VoiceRequest ==
  ASSUME NEW r, NEW eos \in BOOLEAN, NEW last, NEW due,
         NEW server, NEW refused,
         r.place = "linked", r.state = SendOpen(Idle, eos), ~r.counted,
         r.queue = Append(<<>>, Frame("headers", 0, eos)), Frame("headers", 0, eos) \in Frames
  PROVE  Voice(r, "idle", Never, last, Always, Always, due, server, refused)
<1> USE DEF Never, Always
<1> DEFINE f == Frame("headers", 0, eos)
<1>1. /\ r.state \in States /\ ~CanSendOpen(r.state) /\ ~IsReset(r.state) /\ Unanswered(r.state)
      /\ eos => ~IsSendStreaming(r.state)
  <2>1. Idle \in States /\ CanSendOpen(Idle)
    BY DEF States, CanSendOpen
  <2> QED
    BY <2>1, SendOpenSpeech
<1>2. f.kind = "headers" /\ f.eos = eos
  BY DEF Frame
<1> HIDE DEF f
<1>3. /\ r.queue = Append(<<>>, f) /\ f \in Frames /\ <<>> \in Seq(Frames)
      /\ Len(r.queue) = 1 /\ r.queue[1] = f /\ Len(<<>>) = 0
  BY DEF f
<1>4. \A k \in 1 .. Len(r.queue) : k = 1
  BY <1>3
<1>5. "idle" \in Views
  BY DEF Views
<1>6. Heads(r.queue) /\ ~Cuts(r.queue)
  <2>1. 1 \in 1 .. Len(r.queue)
    BY <1>3
  <2> QED
    BY <1>2, <1>3, <1>4, <2>1 DEF Heads, Cuts
<1>7. Script("idle", r.queue, server)
  <2>1. \A m : m \notin 1 .. 1 - 1
    OBVIOUS
  <2>2. Continues("idle", r.queue, 1 - 1, f, server)
    BY <1>2, <2>1 DEF Continues
  <2> QED
    BY <1>3, <1>4, <2>2 DEF Script
<1>8. ~IsScheduledReset(r.state)
  BY <1>1, Speech
<1>9. Says(r, "idle", Never, last, Always, server)
  BY <1>1, <1>2, <1>3, <1>4, <1>5, <1>6, <1>7 DEF Says
<1>10. Opens(r, "idle", Always, Always, refused) /\ Cancels(r, due)
  BY <1>1, <1>6, <1>8 DEF Opens, Cancels
<1> QED
  BY <1>9, <1>10 DEF Voice, IsStored

LEMMA VoiceReceived ==
  ASSUME NEW r, NEW eos \in BOOLEAN, NEW last, NEW due,
         NEW refused, NEW more, ~more,
         r.place = "linked", r.state = RecvOpen(Idle, eos, FALSE), r.queue = <<>>
  PROVE  Voice(r, "idle", more, last, Never, Never, due, Always, refused)
<1> USE DEF Never, Always
<1>1. "idle" \in Views
  BY DEF Views
<1>2. Idle \in States
  BY DEF States
<1>3. Calmer(Idle, r.state)
  BY <1>2, ReceivingSpeech
<1>4. ~IsSendStreaming(Idle)
  BY DEF IsSendStreaming, HasLocal, Idle
<1>5. /\ ~IsSendStreaming(r.state)
      /\ ~Cuts(<<>>) /\ Preface(<<>>) /\ Script("idle", <<>>, Always)
  BY <1>1, <1>3, <1>4, EmptyAt DEF Calmer, Firmer
<1>6. Says(r, "idle", more, last, Never, Always)
  BY <1>1, <1>5 DEF Says
<1> QED
  BY <1>6 DEF Voice, IsStored


----------------------------------------------------------------------------
(* What is done to one stream keeps everything legal.                      *)

LEMMA VoiceAs ==
  ASSUME NEW r, NEW v, NEW more, NEW last, NEW waits,
         NEW pending, NEW due, NEW server,
         NEW refused, NEW more2, NEW last2,
         NEW waits2, NEW pending2, NEW due2,
         NEW server2, NEW refused2,
         Voice(r, v, more, last, waits, pending, due, server, refused),
         more2 => more /\ (last2 <=> last), waits2 <=> waits, pending2 <=> pending,
         due => due2, server2 <=> server, refused => refused2
  PROVE  Voice(r, v, more2, last2, waits2, pending2, due2, server2, refused2)
<1>1. CASE ~IsStored(r)
  BY <1>1 DEF Voice
<1>2. CASE IsStored(r)
  <2>1. Says(r, v, more, last, waits, server) /\ (v = "unopened" => refused)
    BY <1>2 DEF Voice
  <2>2. Script(v, r.queue, server2)
    BY <2>1 DEF Says, Script, Continues
  <2>3. Says(r, v, more2, last2, waits2, server2)
    BY <2>1, <2>2 DEF Says
  <2>4. ASSUME ~server2
        PROVE  Opens(r, v, waits2, pending2, refused2) /\ Cancels(r, due2)
    BY <1>2, <2>4 DEF Voice, Opens, Cancels
  <2> QED
    BY <1>2, <2>1, <2>3, <2>4 DEF Voice
<1> QED
  BY <1>1, <1>2

\* The stream to which a part of a DATA frame will return.
HolderOf(i, rest) == IF rest > 0 THEN i.inFlight ELSE Nothing

Lawful(i, w, rest, last, bound) == Legal(i, w, HolderOf(i, rest), last, bound, 0)

\* The voice of a stream between two steps.
Holds(i, rest, s) == HolderOf(i, rest) = s
Waiting(i, s) == Contains(i.openQ, s)
Due(i, s) == Contains(i.sendQ, s) \/ Contains(i.openQ, s)
Past(bound, s) == bound < s

Speaks(i, w, rest, last, bound, s) ==
  Voice(i.streams[s], w[s], Holds(i, rest, s), last, Waiting(i, s), Waiting(i, s), Due(i, s),
        IsServer(i), Past(bound, s))

Apart(i, s) == ~(Contains(i.openQ, s) /\ Contains(i.sendQ, s))

LEMMA Booleans ==
  \A i, s, rest, bound :
    /\ Holds(i, rest, s) \in BOOLEAN /\ Waiting(i, s) \in BOOLEAN /\ Due(i, s) \in BOOLEAN
    /\ IsServer(i) \in BOOLEAN /\ Past(bound, s) \in BOOLEAN
BY DEF Holds, Waiting, Due, IsServer, Past, Contains

LEMMA Certainties == Never \in BOOLEAN /\ ~Never /\ Always \in BOOLEAN /\ Always
BY DEF Never, Always

LEMMA VoiceHere ==
  ASSUME NEW i, NEW w, NEW rest \in Nat, NEW last \in BOOLEAN, NEW bound \in Nat,
         Lawful(i, w, rest, last, bound), NEW s \in Streams
  PROVE  /\ Speaks(i, w, rest, last, bound, s) /\ Apart(i, s)
         /\ i \in InnerRecord
         /\ ~IsServer(i) => InOrder(i, w, 0) /\ Balanced(i)
<1>1. i \in InnerRecord /\ (~IsServer(i) => InOrder(i, w, 0) /\ Balanced(i))
  BY DEF Lawful, Legal
<1>2. VoiceAt(i, s, w[s], HolderOf(i, rest), last, bound, 0)
  BY DEF Lawful, Legal
<1>3. (Contains(i.openQ, s) \/ 0 = s) <=> Waiting(i, s)
  BY StreamsType DEF Waiting
<1>4. (Contains(i.openQ, s) \/ 0 = s) = Waiting(i, s)
  BY <1>3, Booleans
<1>5. Voice(i.streams[s], w[s], HolderOf(i, rest) = s, last, Contains(i.openQ, s) \/ 0 = s,
            Contains(i.openQ, s), Contains(i.sendQ, s) \/ Contains(i.openQ, s),
            IsServer(i), bound < s)
  BY <1>2 DEF VoiceAt
<1>6. Speaks(i, w, rest, last, bound, s)
  BY <1>4, <1>5 DEF Speaks, Holds, Waiting, Due, Past
<1> QED
  BY <1>1, <1>2, <1>6 DEF VoiceAt, Apart

LEMMA LawfulFrom ==
  ASSUME NEW i \in InnerRecord, NEW w, NEW rest \in Nat, NEW last \in BOOLEAN, NEW bound \in Nat,
         \A t \in Streams : Speaks(i, w, rest, last, bound, t) /\ Apart(i, t),
         ~IsServer(i) => InOrder(i, w, 0) /\ Balanced(i)
  PROVE  Lawful(i, w, rest, last, bound)
<1>1. ASSUME NEW s \in Streams
      PROVE  VoiceAt(i, s, w[s], HolderOf(i, rest), last, bound, 0)
  <2>1. (Contains(i.openQ, s) \/ 0 = s) <=> Waiting(i, s)
    BY StreamsType DEF Waiting
  <2>2. (Contains(i.openQ, s) \/ 0 = s) = Waiting(i, s)
    BY <2>1, Booleans
  <2>3. Speaks(i, w, rest, last, bound, s) /\ Apart(i, s)
    OBVIOUS
  <2>4. Voice(i.streams[s], w[s], HolderOf(i, rest) = s, last, Contains(i.openQ, s) \/ 0 = s,
              Contains(i.openQ, s), Contains(i.sendQ, s) \/ Contains(i.openQ, s),
              IsServer(i), bound < s)
    BY <2>2, <2>3 DEF Speaks, Holds, Waiting, Due, Past
  <2> QED
    BY <2>3, <2>4 DEF VoiceAt, Apart
<1> QED
  BY <1>1 DEF Lawful, Legal

\* Streams that are as they were keep their place in the order.
LEMMA OrderKept ==
  ASSUME NEW i, NEW j, NEW w, InOrder(i, w, 0), j.openQ = i.openQ,
         \A t \in Streams : j.streams[t].place = "new" <=> i.streams[t].place = "new"
  PROVE  InOrder(j, w, 0)
BY DEF InOrder

LEMMA BalanceKept ==
  ASSUME NEW i, NEW j, Balanced(i), j.numStreams = i.numStreams,
         \A t \in Streams : j.streams[t].counted = i.streams[t].counted
  PROVE  Balanced(j)
<1>1. [t \in Streams |-> Takes(j.streams[t])] = [t \in Streams |-> Takes(i.streams[t])]
  BY DEF Takes
<1> QED
  BY <1>1 DEF Balanced, Taken

LEMMA AroundLawful ==
  ASSUME NEW i, NEW j, NEW w, NEW s \in Streams, NEW rest \in Nat, NEW last \in BOOLEAN,
         NEW bound \in Nat, Lawful(i, w, rest, last, bound), Around(i, j, s),
         j.streams[s].place = i.streams[s].place,
         j.streams[s].counted = i.streams[s].counted,
         NEW more \in BOOLEAN, Holds(j, rest, s) => more,
         NEW due \in BOOLEAN, due => Due(j, s),
         Voice(j.streams[s], w[s], more, last, Waiting(i, s), Waiting(i, s),
               due, IsServer(i), Past(bound, s))
  PROVE  Lawful(j, w, rest, last, bound)
<1>1. /\ j \in InnerRecord
      /\ j.peer = i.peer /\ j.openQ = i.openQ /\ j.numStreams = i.numStreams
      /\ j.inFlight = i.inFlight \/ (i.inFlight = s /\ j.inFlight = Drop)
      /\ \A t \in Streams : t # s => Same(i.streams[t], j.streams[t])
      /\ Schedules(i, j)
  BY DEF Around
<1>2. IsServer(j) = IsServer(i) /\ \A t \in Streams : Waiting(j, t) = Waiting(i, t)
  BY <1>1 DEF IsServer, Waiting
<1>3. \A t \in Streams : t # s => (Holds(j, rest, t) <=> Holds(i, rest, t))
  BY <1>1, StreamsType DEF Holds, HolderOf, Drop, Nothing
<1>4. i \in InnerRecord /\ (~IsServer(i) => InOrder(i, w, 0) /\ Balanced(i))
  BY DEF Lawful, Legal
<1>5. ASSUME NEW t \in Streams
      PROVE  Speaks(j, w, rest, last, bound, t) /\ Apart(j, t)
  <2>1. Speaks(i, w, rest, last, bound, t) /\ Apart(i, t)
    BY VoiceHere
  <2>2. /\ Contains(i.sendQ, t) => Contains(j.sendQ, t)
        /\ Contains(j.sendQ, t) => Contains(i.sendQ, t) \/ ~Contains(i.openQ, t)
    BY <1>1 DEF Schedules
  <2>3. Apart(j, t)
    BY <1>1, <2>1, <2>2 DEF Apart
  <2>4. Due(i, t) => Due(j, t)
    BY <1>1, <2>2 DEF Due
  <2>5. CASE t = s
    <3>1. Voice(j.streams[t], w[t], more, last, Waiting(i, t), Waiting(i, t),
                due, IsServer(i), Past(bound, t))
      BY <2>5
    <3>2. Speaks(j, w, rest, last, bound, t)
      BY <1>2, <2>5, <3>1, Booleans, VoiceAs DEF Speaks
    <3> QED
      BY <2>3, <3>2
  <2>6. CASE t # s
    <3>1. Same(i.streams[t], j.streams[t])
      BY <1>1, <2>6
    <3>2. Voice(j.streams[t], w[t], Holds(i, rest, t), last, Waiting(i, t), Waiting(i, t),
                Due(j, t), IsServer(i), Past(bound, t))
      BY <2>1, <2>4, <3>1, Booleans, VoiceSame DEF Speaks
    <3>3. Speaks(j, w, rest, last, bound, t)
      BY <1>2, <1>3, <2>6, <3>2, Booleans, VoiceAs DEF Speaks
    <3> QED
      BY <2>3, <3>3
  <2> QED
    BY <2>5, <2>6
<1>6. \A t \in Streams : /\ j.streams[t].place = i.streams[t].place
                         /\ j.streams[t].counted = i.streams[t].counted
  BY <1>1 DEF Same
<1>7. ~IsServer(j) => InOrder(j, w, 0) /\ Balanced(j)
  BY <1>1, <1>2, <1>4, <1>6, OrderKept, BalanceKept
<1> QED
  BY <1>1, <1>5, <1>7, LawfulFrom

LEMMA QuietLawful ==
  ASSUME NEW i, NEW j, NEW w, NEW rest \in Nat, NEW last \in BOOLEAN,
         NEW bound \in Nat, Lawful(i, w, rest, last, bound), Quiet(i, j)
  PROVE  Lawful(j, w, rest, last, bound)
<1>1. PICK s : s \in Streams
  BY SendAssumption DEF Streams
<1>2. Around(i, j, s) /\ Same(i.streams[s], j.streams[s])
  BY <1>1, QuietAround
<1>3. Speaks(i, w, rest, last, bound, s)
  BY <1>1, VoiceHere
<1>4. Due(i, s) => Due(j, s)
  BY <1>1 DEF Quiet, Schedules, Due
<1>5. Voice(j.streams[s], w[s], Holds(i, rest, s), last, Waiting(i, s), Waiting(i, s),
            Due(j, s), IsServer(i), Past(bound, s))
  BY <1>2, <1>3, <1>4, Booleans, VoiceSame DEF Speaks
<1>6. Holds(j, rest, s) => Holds(i, rest, s)
  BY DEF Quiet, Holds, HolderOf
<1>7. /\ j.streams[s].place = i.streams[s].place
      /\ j.streams[s].counted = i.streams[s].counted
  BY <1>2 DEF Same
<1> QED
  BY <1>1, <1>2, <1>5, <1>6, <1>7, Booleans, AroundLawful


\* The stream's own record changes as r2 says, and its voice with it.
LEMMA OwnLawful ==
  ASSUME NEW i, NEW j, NEW w, NEW s \in Streams, NEW rest \in Nat, NEW last \in BOOLEAN,
         NEW bound \in Nat, Lawful(i, w, rest, last, bound), Around(i, j, s),
         NEW r2, Same(r2, j.streams[s]),
         r2.place = i.streams[s].place, r2.counted = i.streams[s].counted,
         NEW more \in BOOLEAN, Holds(j, rest, s) => more,
         NEW due \in BOOLEAN, due => Due(j, s),
         Voice(r2, w[s], more, last, Waiting(i, s), Waiting(i, s), due, IsServer(i), Past(bound, s))
  PROVE  Lawful(j, w, rest, last, bound)
<1>1. Voice(j.streams[s], w[s], more, last, Waiting(i, s), Waiting(i, s), due, IsServer(i),
            Past(bound, s))
  BY Booleans, VoiceSame
<1>2. /\ j.streams[s].place = i.streams[s].place
      /\ j.streams[s].counted = i.streams[s].counted
  BY DEF Same
<1> QED
  BY <1>1, <1>2, AroundLawful

LEMMA AroundHolds ==
  ASSUME NEW i, NEW j, NEW s \in Streams, NEW rest, Around(i, j, s)
  PROVE  /\ Holds(j, rest, s) => Holds(i, rest, s)
         /\ j.inFlight # s => ~Holds(j, rest, s)
         /\ Due(i, s) => Due(j, s)
         /\ j \in InnerRecord /\ IsServer(j) = IsServer(i)
BY StreamsType DEF Around, Holds, HolderOf, Nothing, Drop, Due, Schedules, Nobody, IsServer

LEMMA OwnFacts ==
  ASSUME NEW i \in InnerRecord, NEW s \in Streams
  PROVE  /\ i.streams[s] \in StreamRecord /\ i.streams[s].state \in States
         /\ i.streams[s].queue \in Seq(Frames) /\ i.streams[s].counted \in BOOLEAN
         /\ i.sendQ \in Seq(Streams) /\ i.openQ \in Seq(Streams)
BY DEF InnerRecord, StreamRecord

LEMMA StateLawful ==
  ASSUME NEW i, NEW j, NEW w, NEW s \in Streams, NEW rest \in Nat, NEW last \in BOOLEAN,
         NEW bound \in Nat, Lawful(i, w, rest, last, bound), Around(i, j, s),
         IsStored(i.streams[s]), NEW st2,
         Same(WithState(i.streams[s], st2), j.streams[s]),
         Firmer(i.streams[s].state, st2),
         IsScheduledReset(st2) => st2 = i.streams[s].state \/ (Due(j, s) /\ (IsServer(i) \/ Discards(st2))),
         Waiting(i, s) => Unanswered(st2) \/ IsReset(st2)
  PROVE  Lawful(j, w, rest, last, bound) /\ IsStored(j.streams[s])
<1> DEFINE r == i.streams[s]
           r2 == WithState(r, st2)
<1>1. i \in InnerRecord /\ Speaks(i, w, rest, last, bound, s)
  BY VoiceHere
<1>2. r \in StreamRecord
  BY <1>1, OwnFacts
<1>3. /\ r2.state = st2 /\ r2.place = r.place /\ r2.queue = r.queue /\ r2.counted = r.counted
      /\ r2.buffered = r.buffered
  BY <1>2, WithStateFields
<1>4. /\ Holds(j, rest, s) => Holds(i, rest, s)
      /\ Due(i, s) => Due(j, s)
  BY AroundHolds
<1> HIDE DEF r2
<1>5. IsServer(i) \/ Cancels(r2, Due(j, s))
  <2>1. IsServer(i) \/ Cancels(r, Due(i, s))
    BY <1>1 DEF Speaks, Voice
  <2> QED
    BY <1>3, <1>4, <2>1 DEF Cancels
<1>6. Voice(r2, w[s], Holds(i, rest, s), last, Waiting(i, s), Waiting(i, s), Due(j, s),
            IsServer(i), Past(bound, s))
  BY <1>1, <1>3, <1>5, Booleans, VoiceState DEF Speaks
<1>7. Same(r2, j.streams[s])
  BY DEF r2
<1>8. Lawful(j, w, rest, last, bound)
  <2>1. Holds(i, rest, s) \in BOOLEAN /\ Due(j, s) \in BOOLEAN
    BY Booleans
  <2>2. /\ r2.place = i.streams[s].place /\ r2.counted = i.streams[s].counted
    BY <1>3
  <2>3. Holds(j, rest, s) => Holds(i, rest, s)
    BY <1>4
  <2> HIDE DEF r
  <2> QED
    BY <1>6, <1>7, <2>1, <2>2, <2>3, OwnLawful
<1> QED
  BY <1>3, <1>7, <1>8 DEF Same, IsStored

\* A stream is closed and its queue is cleared.
LEMMA ClearedLawful ==
  ASSUME NEW i, NEW j, NEW w, NEW s \in Streams, NEW rest \in Nat, NEW last \in BOOLEAN,
         NEW bound \in Nat, Lawful(i, w, rest, last, bound), Around(i, j, s),
         IsStored(i.streams[s]), NEW st2,
         Same(Cleared(WithState(i.streams[s], st2)), j.streams[s]), j.inFlight # s,
         Firmer(i.streams[s].state, st2), IsClosed(st2),
         IsScheduledReset(st2) => st2 = i.streams[s].state,
         Waiting(i, s) => Past(bound, s) /\ IsReset(st2)
  PROVE  Lawful(j, w, rest, last, bound) /\ IsStored(j.streams[s])
<1> DEFINE r == i.streams[s]
           r2 == Cleared(WithState(r, st2))
<1>1. i \in InnerRecord /\ Speaks(i, w, rest, last, bound, s)
  BY VoiceHere
<1>2. r \in StreamRecord /\ WithState(r, st2) \in StreamRecord /\ r.state \in States
  BY <1>1, OwnFacts, RecordTypes, ResetFrameIn DEF Firmer
<1>3. /\ r2.state = st2 /\ r2.place = r.place /\ r2.queue = <<>> /\ r2.counted = r.counted
      /\ r2.buffered = 0
  BY <1>2, WithStateFields, ClearedFields
<1>4. ~Holds(j, rest, s) /\ (Due(i, s) => Due(j, s))
  BY AroundHolds
<1> HIDE DEF r2
<1>5. IsServer(i) \/ Cancels(r2, Due(j, s))
  <2>1. IsServer(i) \/ Cancels(r, Due(i, s))
    BY <1>1 DEF Speaks, Voice
  <2> QED
    BY <1>3, <1>4, <2>1 DEF Cancels
<1>6. Voice(r2, w[s], Holds(j, rest, s), last, Waiting(i, s), Waiting(i, s), Due(j, s),
            IsServer(i), Past(bound, s))
  <2>1. Voice(r, w[s], Holds(i, rest, s), last, Waiting(i, s), Waiting(i, s), Due(i, s),
              IsServer(i), Past(bound, s))
    BY <1>1 DEF Speaks
  <2>2. /\ Holds(i, rest, s) \in BOOLEAN /\ Waiting(i, s) \in BOOLEAN /\ Due(i, s) \in BOOLEAN
        /\ Due(j, s) \in BOOLEAN /\ IsServer(i) \in BOOLEAN /\ Past(bound, s) \in BOOLEAN
        /\ Holds(j, rest, s) \in BOOLEAN
    BY Booleans
  <2>3. /\ Firmer(r.state, r2.state) /\ IsClosed(r2.state)
        /\ Waiting(i, s) => Past(bound, s) /\ IsReset(r2.state)
        /\ IsStored(r)
    BY <1>3
  <2> HIDE DEF r
  <2> QED
    BY <1>2, <1>3, <1>4, <1>5, <2>1, <2>2, <2>3, VoiceCleared
<1>7. Same(r2, j.streams[s])
  BY DEF r2
<1>8. Lawful(j, w, rest, last, bound)
  BY <1>3, <1>4, <1>6, <1>7, Booleans, OwnLawful
<1> QED
  BY <1>3, <1>7, <1>8 DEF Same, IsStored

\* send_reset
LEMMA ResetLawful ==
  ASSUME NEW i, NEW j, NEW w, NEW s \in Streams, NEW rest \in Nat, NEW last \in BOOLEAN,
         NEW bound \in Nat, Lawful(i, w, rest, last, bound), IsStored(i.streams[s]),
         Resets3(i, j, s)
  PROVE  Lawful(j, w, rest, last, bound) /\ IsStored(j.streams[s])
<1> DEFINE r == i.streams[s]
           st2 == SetReset("LocalReset")
           r1 == WithState(r, st2)
<1>1. i \in InnerRecord /\ Speaks(i, w, rest, last, bound, s)
  BY VoiceHere
<1>2. r \in StreamRecord /\ r.state \in States /\ r.queue \in Seq(Frames)
  BY <1>1, OwnFacts
<1>3. /\ Firmer(r.state, st2) /\ IsReset(st2) /\ ~IsScheduledReset(st2) /\ st2 \in States
      /\ IsClosed(st2)
  BY <1>2, EndingSpeech DEF Errors, LocalErrors, Calmer, Firmer
<1>4. /\ r1 \in StreamRecord /\ r1.state = st2 /\ r1.place = r.place /\ r1.queue = r.queue
      /\ r1.counted = r.counted
  BY <1>2, <1>3, WithStateFields, RecordTypes, ResetFrameIn
<1>5. st2 = SetReset("LocalReset") /\ r1 = WithState(r, st2)
  OBVIOUS
<1> HIDE DEF st2, r1
<1>6. CASE IsReset(r.state) /\ Quiet(i, j)
  BY <1>6, QuietLawful, QuietAround DEF Same, IsStored
<1>7. CASE Around(i, j, s) /\ Same(r1, j.streams[s])
  BY <1>3, <1>5, <1>7, StateLawful
<1>8. CASE /\ ~IsReset(r.state) /\ ~(IsClosed(r.state) /\ r.queue = <<>>)
           /\ Around(i, j, s) /\ Same(Queued(r1, ResetFrame), j.streams[s])
  <2> DEFINE r2 == Queued(r1, ResetFrame)
  <2>1. /\ r2.state = st2 /\ r2.place = r.place /\ r2.queue = Append(r.queue, ResetFrame)
        /\ r2.counted = r.counted
    BY <1>4, QueuedFields
  <2> HIDE DEF r2
  <2>2. Voice(r2, w[s], Holds(i, rest, s), last, Waiting(i, s), Waiting(i, s), Due(j, s),
              IsServer(i), Past(bound, s))
    <3>1. Voice(r, w[s], Holds(i, rest, s), last, Waiting(i, s), Waiting(i, s), Due(i, s),
                IsServer(i), Past(bound, s))
      BY <1>1 DEF Speaks
    <3>2. /\ Holds(i, rest, s) \in BOOLEAN /\ Waiting(i, s) \in BOOLEAN /\ Due(i, s) \in BOOLEAN
          /\ Due(j, s) \in BOOLEAN /\ IsServer(i) \in BOOLEAN /\ Past(bound, s) \in BOOLEAN
      BY Booleans
    <3>3. /\ r2.state = SetReset("LocalReset") /\ IsStored(r)
          /\ ~IsReset(r.state) /\ ~(IsClosed(r.state) /\ r.queue = <<>>)
      BY <1>5, <1>8, <2>1
    <3> HIDE DEF r
    <3> QED
      BY <1>2, <2>1, <3>1, <3>2, <3>3, VoiceResetEarly
  <2>3. Holds(j, rest, s) => Holds(i, rest, s)
    BY <1>8, AroundHolds
  <2>4. Same(r2, j.streams[s])
    BY <1>8 DEF r2
  <2>5. Lawful(j, w, rest, last, bound)
    BY ZenonT(60), <1>8, <2>1, <2>2, <2>3, <2>4, Booleans, OwnLawful
  <2> QED
    BY <2>1, <2>4, <2>5 DEF Same, IsStored
<1>9. CASE /\ ~IsReset(r.state) /\ ~(IsClosed(r.state) /\ r.queue = <<>>)
           /\ ~Contains(i.openQ, s) /\ j.inFlight # s
           /\ Around(i, j, s) /\ Same(Queued(Cleared(r1), ResetFrame), j.streams[s])
  <2> DEFINE r2 == Queued(Cleared(r1), ResetFrame)
  <2>1. Cleared(r1) \in StreamRecord
    BY <1>4, ClearedType
  <2>2. /\ r2.state = st2 /\ r2.place = r.place /\ r2.queue = Append(<<>>, ResetFrame)
        /\ r2.counted = r.counted
    BY <1>4, <2>1, QueuedFields, ClearedFields
  <2> HIDE DEF r2
  <2>3. ~Waiting(i, s) /\ ~Holds(j, rest, s)
    BY <1>9, AroundHolds DEF Waiting
  <2>4. Voice(r2, w[s], Holds(j, rest, s), last, Waiting(i, s), Waiting(i, s), Due(j, s),
              IsServer(i), Past(bound, s))
    <3>1. /\ Holds(i, rest, s) \in BOOLEAN /\ Due(i, s) \in BOOLEAN /\ Due(j, s) \in BOOLEAN
          /\ IsServer(i) \in BOOLEAN /\ Past(bound, s) \in BOOLEAN
          /\ Waiting(i, s) \in BOOLEAN /\ Holds(j, rest, s) \in BOOLEAN
      BY Booleans
    <3>2. /\ r2.state = SetReset("LocalReset") /\ IsStored(r)
          /\ ~IsReset(r.state) /\ ~(IsClosed(r.state) /\ r.queue = <<>>)
      BY <1>5, <1>9, <2>2
    <3>3. Voice(r, w[s], Holds(i, rest, s), last, Waiting(i, s), Waiting(i, s), Due(i, s),
                IsServer(i), Past(bound, s))
      BY <1>1 DEF Speaks
    <3> HIDE DEF r
    <3> QED
      BY <1>2, <2>2, <2>3, <3>1, <3>2, <3>3, VoiceResetLate
  <2>5. Same(r2, j.streams[s])
    BY <1>9 DEF r2
  <2>6. Lawful(j, w, rest, last, bound)
    BY <1>9, <2>2, <2>4, <2>5, Booleans, OwnLawful
  <2> QED
    BY <2>2, <2>5, <2>6 DEF Same, IsStored
<1> QED
  BY <1>6, <1>7, <1>8, <1>9 DEF Resets3, r1, st2

\* schedule_implicit_reset
LEMMA ScheduledLawful ==
  ASSUME NEW i, NEW j, NEW w, NEW s \in Streams, NEW rest \in Nat, NEW last \in BOOLEAN,
         NEW bound \in Nat, Lawful(i, w, rest, last, bound), IsStored(i.streams[s]),
         NEW reason \in Reasons, IsServer(i) \/ reason # "NO_ERROR", Schedules3(i, j, s, reason)
  PROVE  Lawful(j, w, rest, last, bound) /\ IsStored(j.streams[s])
<1>1. i \in InnerRecord
  BY VoiceHere
<1>2. CASE Quiet(i, j)
  BY <1>2, QuietLawful, QuietAround DEF Same, IsStored
<1>3. CASE ~Quiet(i, j)
  <2> DEFINE st2 == SetScheduledReset(reason)
  <2>1. /\ ~IsClosed(i.streams[s].state)
        /\ Around(i, j, s)
        /\ Same(WithState(i.streams[s], st2), j.streams[s])
        /\ Contains(j.sendQ, s) \/ Contains(j.openQ, s)
    BY <1>3 DEF Schedules3
  <2>2. i.streams[s].state \in States
    BY <1>1, OwnFacts
  <2>3. /\ Firmer(i.streams[s].state, st2) /\ IsReset(st2)
        /\ reason # "NO_ERROR" => Discards(st2)
    BY <2>1, <2>2, ScheduledSpeech
  <2> HIDE DEF st2
  <2>4. Due(j, s)
    BY <2>1 DEF Due
  <2> QED
    BY <2>1, <2>3, <2>4, StateLawful
<1> QED
  BY <1>2, <1>3


----------------------------------------------------------------------------
(* The operations on a stream.                                             *)

\* The voice of a stream, whoever holds the rest of a DATA frame and while
\* a stream is opened.
Has(holder, s) == holder = s
Awaits(i, opening, s) == Contains(i.openQ, s) \/ opening = s

Utters(i, v, holder, last, bound, opening, s) ==
  Voice(i.streams[s], v, Has(holder, s), last, Awaits(i, opening, s), Waiting(i, s), Due(i, s),
        IsServer(i), Past(bound, s))

LEMMA MoreBooleans ==
  \A i, s, holder, opening : Has(holder, s) \in BOOLEAN /\ Awaits(i, opening, s) \in BOOLEAN
BY DEF Has, Awaits, Contains

LEMMA LegalAt ==
  ASSUME NEW i, NEW w, NEW holder, NEW last \in BOOLEAN, NEW bound, NEW opening,
         Legal(i, w, holder, last, bound, opening), NEW s \in Streams
  PROVE  /\ Utters(i, w[s], holder, last, bound, opening, s) /\ Apart(i, s)
         /\ i \in InnerRecord
         /\ ~IsServer(i) => InOrder(i, w, opening) /\ Balanced(i)
BY DEF Legal, VoiceAt, Utters, Apart, Has, Awaits, Waiting, Due, Past

LEMMA LegalFrom ==
  ASSUME NEW i \in InnerRecord, NEW w, NEW holder, NEW last \in BOOLEAN, NEW bound, NEW opening,
         \A t \in Streams : Utters(i, w[t], holder, last, bound, opening, t) /\ Apart(i, t),
         ~IsServer(i) => InOrder(i, w, opening) /\ Balanced(i)
  PROVE  Legal(i, w, holder, last, bound, opening)
BY DEF Legal, VoiceAt, Utters, Apart, Has, Awaits, Waiting, Due, Past

\* A stream that is as it was says what it said.
LEMMA UttersOn ==
  ASSUME NEW i, NEW j, NEW v, NEW holder, NEW holder2, NEW last \in BOOLEAN,
         NEW last2 \in BOOLEAN, NEW bound, NEW bound2, NEW opening, NEW opening2,
         NEW t \in Streams,
         Utters(i, v, holder, last, bound, opening, t), Same(i.streams[t], j.streams[t]),
         Waiting(j, t) <=> Waiting(i, t), Awaits(j, opening2, t) <=> Awaits(i, opening, t),
         Due(i, t) => Due(j, t),
         IsServer(j) <=> IsServer(i), Past(bound, t) => Past(bound2, t),
         Has(holder2, t) => Has(holder, t) /\ last2 = last
  PROVE  Utters(j, v, holder2, last2, bound2, opening2, t)
<1> DEFINE r == i.streams[t]
           r2 == j.streams[t]
<1>1. Voice(r, v, Has(holder, t), last, Awaits(i, opening, t), Waiting(i, t), Due(i, t),
            IsServer(i), Past(bound, t))
  BY DEF Utters
<1>2. /\ Has(holder, t) \in BOOLEAN /\ Waiting(i, t) \in BOOLEAN /\ Due(i, t) \in BOOLEAN
      /\ IsServer(i) \in BOOLEAN /\ Past(bound, t) \in BOOLEAN
      /\ Has(holder2, t) \in BOOLEAN /\ Waiting(j, t) \in BOOLEAN /\ Due(j, t) \in BOOLEAN
      /\ IsServer(j) \in BOOLEAN /\ Past(bound2, t) \in BOOLEAN
      /\ Awaits(i, opening, t) \in BOOLEAN /\ Awaits(j, opening2, t) \in BOOLEAN
  BY Booleans, MoreBooleans
<1>3. Same(r, r2)
  OBVIOUS
<1> HIDE DEF r, r2
<1>4. Voice(r2, v, Has(holder, t), last, Awaits(i, opening, t), Waiting(i, t), Due(i, t),
            IsServer(i), Past(bound, t))
  BY <1>1, <1>2, <1>3, VoiceSame
<1>5. Has(holder2, t) => Has(holder, t) /\ (last2 <=> last)
  OBVIOUS
<1>6. Voice(r2, v, Has(holder2, t), last2, Awaits(j, opening2, t), Waiting(j, t), Due(j, t),
            IsServer(j), Past(bound2, t))
  BY <1>2, <1>4, <1>5, VoiceAs
<1> QED
  BY <1>6 DEF Utters, r2

\* Counts::transition_after
LEMMA TransitionLegal ==
  ASSUME NEW i, NEW w, NEW s \in Streams, NEW holder, NEW last \in BOOLEAN,
         NEW bound, Legal(i, w, holder, last, bound, 0), IsStored(i.streams[s]),
         NEW wasReset \in BOOLEAN
  PROVE  LET j == TransitionAfter(i, s, wasReset)
         IN  /\ Legal(j, w, holder, last, bound, 0) /\ j \in InnerRecord
             /\ j.inFlight = i.inFlight /\ j.peer = i.peer /\ j.maxStreamId = i.maxStreamId
             /\ j.sendQ = i.sendQ
<1> DEFINE r == i.streams[s]
           j == TransitionAfter(i, s, wasReset)
           gives == GivesSlotBack(r)
<1>1. i \in InnerRecord /\ Utters(i, w[s], holder, last, bound, 0, s)
  BY LegalAt
<1>2. CASE ~IsFlushed(r)
  BY <1>1, <1>2, TransitionIdle
<1>3. CASE IsFlushed(r)
  <2>1. /\ j \in InnerRecord
        /\ j.sendQ = i.sendQ /\ j.openQ = i.openQ /\ j.peer = i.peer /\ j.inFlight = i.inFlight
        /\ j.maxStreamId = i.maxStreamId
        /\ j.numStreams = i.numStreams - IF gives THEN 1 ELSE 0
        /\ \/ j.streams = [i.streams EXCEPT ![s] = Left(i, s)]
           \/ j.streams = [i.streams EXCEPT ![s] = Removed(Left(i, s))] /\ ~InQueue(i, s)
    BY <1>1, <1>3, TransitionFields
  <2> HIDE DEF j
  <2>2. r \in StreamRecord
    BY <1>1, OwnFacts
  <2>3. LET r2 == Left(i, s)
        IN  /\ r2 \in StreamRecord /\ IsStored(r2)
            /\ r2.place \in {r.place, "unlinked"}
            /\ r2.state = r.state /\ r2.buffered = r.buffered /\ r2.queue = r.queue
            /\ Takes(r2) = Takes(r) - IF gives THEN 1 ELSE 0
    BY <1>1, LeftFields
  <2>4. Left(i, s).counted = (r.counted /\ ~gives)
    BY <2>2 DEF Left, StreamRecord
  <2>5. /\ IsServer(j) = IsServer(i)
        /\ \A t \in Streams : /\ Awaits(j, 0, t) = Awaits(i, 0, t)
                              /\ Waiting(j, t) = Waiting(i, t) /\ Due(j, t) = Due(i, t)
                              /\ Apart(j, t) = Apart(i, t)
    BY <2>1 DEF IsServer, Awaits, Waiting, Due, Apart
  <2>6. \A t \in Streams : t # s => j.streams[t] = i.streams[t]
    BY <1>1, <2>1 DEF InnerRecord
  <2>7. Voice(r, w[s], Has(holder, s), last, Awaits(i, 0, s), Waiting(i, s), Due(i, s),
              IsServer(i), Past(bound, s))
    BY <1>1 DEF Utters
  <2>8. /\ Has(holder, s) \in BOOLEAN /\ Waiting(i, s) \in BOOLEAN /\ Due(i, s) \in BOOLEAN
        /\ IsServer(i) \in BOOLEAN /\ Past(bound, s) \in BOOLEAN
        /\ Awaits(i, 0, s) \in BOOLEAN /\ (Awaits(i, 0, s) => Waiting(i, s))
    BY StreamsType, Booleans, MoreBooleans DEF Awaits, Waiting
  <2>9. /\ Voice(j.streams[s], w[s], Has(holder, s), last, Awaits(i, 0, s), Waiting(i, s),
                 Due(i, s), IsServer(i), Past(bound, s))
        /\ j.streams[s].place # "new"
        /\ ~IsServer(i) => Takes(j.streams[s]) = Takes(r) - IF gives THEN 1 ELSE 0
    <3>1. CASE j.streams = [i.streams EXCEPT ![s] = Left(i, s)]
      <4> DEFINE r2 == Left(i, s)
      <4>1. j.streams[s] = r2
        BY <1>1, <3>1 DEF InnerRecord
      <4>2. /\ r2.place \in {r.place, "unlinked"}
            /\ r2.state = r.state /\ r2.buffered = r.buffered /\ r2.queue = r.queue
            /\ r2.counted = (r.counted /\ ~GivesSlotBack(r))
            /\ IsStored(r)
        BY <2>3, <2>4
      <4> HIDE DEF r, r2
      <4>3. Voice(r2, w[s], Has(holder, s), last, Awaits(i, 0, s), Waiting(i, s), Due(i, s),
                  IsServer(i), Past(bound, s))
        BY <1>3, <2>7, <2>8, <4>2, VoiceLeft
      <4> QED
        BY <2>3, <4>1, <4>3 DEF r2, IsStored
    <3>2. CASE j.streams = [i.streams EXCEPT ![s] = Removed(Left(i, s))] /\ ~InQueue(i, s)
      <4> DEFINE r2 == Removed(Left(i, s))
      <4>1. j.streams[s] = r2
        BY <1>1, <3>2 DEF InnerRecord
      <4>2. r2.place = "removed" /\ r2.counted = FALSE
        BY <2>3, RemovedFields
      <4>3. r2.queue = <<>>
        BY DEF Removed, NewStream
      <4>4. ~IsServer(i) => ~IsScheduledReset(r.state)
        BY <2>7, <3>2 DEF Voice, Cancels, Due, InQueue
      <4>5. ~IsServer(i) => Takes(r2) = Takes(r) - IF gives THEN 1 ELSE 0
        BY <1>3, <4>2, <4>4 DEF Takes, GivesSlotBack
      <4>6. ~r2.counted /\ IsStored(r)
        BY <4>2
      <4> HIDE DEF r, r2
      <4>7. Voice(r2, w[s], Has(holder, s), last, Awaits(i, 0, s), Waiting(i, s), Due(i, s),
                  IsServer(i), Past(bound, s))
        BY <2>7, <2>8, <4>2, <4>3, <4>6, VoiceGone
      <4> QED
        BY <4>1, <4>2, <4>5, <4>7
    <3> QED
      BY <2>1, <3>1, <3>2
  <2>10. ASSUME NEW t \in Streams
         PROVE  Utters(j, w[t], holder, last, bound, 0, t) /\ Apart(j, t)
    <3>1. Utters(i, w[t], holder, last, bound, 0, t) /\ Apart(i, t)
      BY LegalAt
    <3>2. CASE t = s
      BY <2>5, <2>9, <3>1, <3>2 DEF Utters
    <3>3. CASE t # s
      BY <2>5, <2>6, <3>1, <3>3, UttersOn, SameRefl
    <3> QED
      BY <2>5, <3>1, <3>2, <3>3
  <2>11. ASSUME ~IsServer(j)
         PROVE  InOrder(j, w, 0) /\ Balanced(j)
    <3>1. InOrder(i, w, 0) /\ Balanced(i) /\ ~IsServer(i)
      BY <2>5, <2>11, LegalAt
    <3>2. r.place # "new"
      BY DEF IsStored
    <3>3. \A t \in Streams : j.streams[t].place = "new" <=> i.streams[t].place = "new"
      BY <2>6, <2>9, <3>2
    <3>4. Taken(j.streams) = Taken(i.streams) + Takes(j.streams[s]) - Takes(i.streams[s])
          /\ Taken(i.streams) \in Nat
      BY <2>6, TakenChange
    <3>5. Balanced(j)
      BY <2>1, <2>9, <3>1, <3>4 DEF Balanced, Takes
    <3> QED
      BY <2>1, <3>1, <3>3, <3>5, OrderKept
  <2>12. Legal(j, w, holder, last, bound, 0)
    BY <2>1, <2>10, <2>11, LegalFrom
  <2> QED
    BY <2>1, <2>12 DEF j
<1> QED
  BY <1>2, <1>3

LEMMA TransitionLawful ==
  ASSUME NEW i, NEW w, NEW s \in Streams, NEW rest \in Nat, NEW last \in BOOLEAN,
         NEW bound \in Nat, Lawful(i, w, rest, last, bound), IsStored(i.streams[s]),
         NEW wasReset \in BOOLEAN
  PROVE  LET j == TransitionAfter(i, s, wasReset)
         IN  Lawful(j, w, rest, last, bound) /\ j.maxStreamId = i.maxStreamId
BY TransitionLegal DEF Lawful, HolderOf


\* The operations that leave a stream where it is and its record known.
LEMMA AppendLawful ==
  ASSUME NEW i, NEW j, NEW w, NEW s \in Streams, NEW rest \in Nat, NEW last \in BOOLEAN,
         NEW bound \in Nat, Lawful(i, w, rest, last, bound), IsStored(i.streams[s]),
         NEW f \in Frames, IsSendStreaming(i.streams[s].state), f.kind \in {"data", "trailers"},
         Around(i, j, s),
         j.streams[s].place = i.streams[s].place, j.streams[s].counted = i.streams[s].counted,
         j.streams[s].queue = Append(i.streams[s].queue, f),
         f.eos => j.streams[s].state = SendClose(i.streams[s].state),
         ~f.eos => j.streams[s].state = i.streams[s].state
  PROVE  Lawful(j, w, rest, last, bound) /\ IsStored(j.streams[s])
<1> DEFINE r == i.streams[s]
           r2 == j.streams[s]
<1>1. i \in InnerRecord /\ Speaks(i, w, rest, last, bound, s)
  BY VoiceHere
<1>2. r.state \in States /\ r.queue \in Seq(Frames)
  BY <1>1, OwnFacts
<1>3. Voice(r, w[s], Holds(i, rest, s), last, Waiting(i, s), Waiting(i, s), Due(i, s),
            IsServer(i), Past(bound, s))
  BY <1>1 DEF Speaks
<1>4. /\ Holds(i, rest, s) \in BOOLEAN /\ Waiting(i, s) \in BOOLEAN /\ Due(i, s) \in BOOLEAN
      /\ Due(j, s) \in BOOLEAN /\ IsServer(i) \in BOOLEAN /\ Past(bound, s) \in BOOLEAN
  BY Booleans
<1>5. /\ IsStored(r) /\ r2.place = r.place /\ r2.counted = r.counted
      /\ r2.queue = Append(r.queue, f) /\ IsSendStreaming(r.state)
      /\ (f.eos => r2.state = SendClose(r.state)) /\ (~f.eos => r2.state = r.state)
      /\ f.kind \in {"data", "trailers"}
  OBVIOUS
<1>6. Voice(r2, w[s], Holds(i, rest, s), last, Waiting(i, s), Waiting(i, s), Due(j, s),
            IsServer(i), Past(bound, s))
  <2> HIDE DEF r, r2
  <2> QED
    BY <1>2, <1>3, <1>4, <1>5, VoiceAppend
<1>7. Holds(j, rest, s) => Holds(i, rest, s)
  BY AroundHolds
<1> QED
  BY ZenonT(60), <1>4, <1>5, <1>6, <1>7, AroundLawful DEF IsStored

LEMMA RespondLawful ==
  ASSUME NEW i, NEW j, NEW w, NEW s \in Streams, NEW rest \in Nat, NEW last \in BOOLEAN,
         NEW bound \in Nat, Lawful(i, w, rest, last, bound), IsStored(i.streams[s]),
         IsServer(i), NEW f \in Frames, CanSendOpen(i.streams[s].state), Around(i, j, s),
         j.streams[s].place = i.streams[s].place, j.streams[s].counted = i.streams[s].counted,
         j.streams[s].queue = Append(i.streams[s].queue, f),
         \/ f.kind = "headers" /\ j.streams[s].state = SendOpen(i.streams[s].state, f.eos)
         \/ f.kind = "informational" /\ ~f.eos /\ j.streams[s].state = i.streams[s].state
  PROVE  Lawful(j, w, rest, last, bound) /\ IsStored(j.streams[s])
<1> DEFINE r == i.streams[s]
           r2 == j.streams[s]
<1>1. i \in InnerRecord /\ Speaks(i, w, rest, last, bound, s)
  BY VoiceHere
<1>2. r.state \in States /\ r.queue \in Seq(Frames)
  BY <1>1, OwnFacts
<1>3. Voice(r, w[s], Holds(i, rest, s), last, Waiting(i, s), Waiting(i, s), Due(i, s),
            Always, Past(bound, s))
  BY <1>1, Booleans, Certainties, VoiceAs DEF Speaks
<1>4. /\ Holds(i, rest, s) \in BOOLEAN /\ Waiting(i, s) \in BOOLEAN /\ Due(i, s) \in BOOLEAN
      /\ Due(j, s) \in BOOLEAN /\ IsServer(i) \in BOOLEAN /\ Past(bound, s) \in BOOLEAN
  BY Booleans
<1>5. /\ IsStored(r) /\ r2.place = r.place /\ r2.counted = r.counted
      /\ r2.queue = Append(r.queue, f) /\ CanSendOpen(r.state)
      /\ \/ f.kind = "headers" /\ r2.state = SendOpen(r.state, f.eos)
         \/ f.kind = "informational" /\ ~f.eos /\ r2.state = r.state
  OBVIOUS
<1>6. Voice(r2, w[s], Holds(i, rest, s), last, Waiting(i, s), Waiting(i, s), Due(j, s),
            Always, Past(bound, s))
  <2> HIDE DEF r, r2
  <2> QED
    BY <1>2, <1>3, <1>4, <1>5, VoiceRespond
<1>7. Holds(j, rest, s) => Holds(i, rest, s)
  BY AroundHolds
<1>8. Voice(r2, w[s], Holds(i, rest, s), last, Waiting(i, s), Waiting(i, s), Due(j, s),
            IsServer(i), Past(bound, s))
  <2> HIDE DEF r2
  <2>1. IsServer(i) <=> Always
    BY Certainties
  <2> QED
    BY <1>4, <1>6, <2>1, Certainties, VoiceAs
<1> QED
  BY ZenonT(60), <1>4, <1>5, <1>7, <1>8, AroundLawful DEF IsStored

LEMMA FrameIn ==
  ASSUME NEW kind \in Kinds, NEW sz \in 0 .. MaxWindow, NEW eos \in BOOLEAN,
         kind = "data" \/ sz = 0
  PROVE  /\ Frame(kind, sz, eos) \in Frames
         /\ Frame(kind, sz, eos).kind = kind /\ Frame(kind, sz, eos).eos = eos
BY DEF Frame, Frames

LEMMA WindowType == 0 \in 0 .. MaxWindow
BY MaxWindowAssumption

\* Prioritize::send_data
LEMMA ChunkLawful ==
  ASSUME NEW i, NEW w, NEW s \in Streams, NEW rest \in Nat, NEW last \in BOOLEAN,
         NEW bound \in Nat, Lawful(i, w, rest, last, bound), IsStored(i.streams[s]),
         IsSendStreaming(i.streams[s].state), NEW sz \in 0 .. MaxWindow, NEW eos \in BOOLEAN
  PROVE  LET j == SendChunk(i, s, sz, eos)
         IN  Lawful(j, w, rest, last, bound) /\ IsStored(j.streams[s])
<1> DEFINE j == SendChunk(i, s, sz, eos)
           f == Frame("data", sz, eos)
<1>1. i \in InnerRecord
  BY VoiceHere
<1>2. /\ Around(i, j, s)
      /\ j.streams[s].place = i.streams[s].place /\ j.streams[s].counted = i.streams[s].counted
      /\ j.streams[s].queue = Append(i.streams[s].queue, f)
      /\ j.streams[s].state = IF eos THEN SendClose(i.streams[s].state) ELSE i.streams[s].state
  BY <1>1, SendChunkAround
<1>3. f \in Frames /\ f.kind = "data" /\ f.eos = eos
  BY FrameIn DEF Kinds
<1> HIDE DEF j, f
<1>4. Lawful(j, w, rest, last, bound) /\ IsStored(j.streams[s])
  <2>1. /\ f.kind \in {"data", "trailers"}
        /\ f.eos => j.streams[s].state = SendClose(i.streams[s].state)
        /\ ~f.eos => j.streams[s].state = i.streams[s].state
    BY <1>2, <1>3
  <2> QED
    BY <1>2, <1>3, <2>1, AppendLawful
<1> QED
  BY <1>4 DEF j

\* Send::send_trailers
LEMMA TrailersLawful ==
  ASSUME NEW i, NEW w, NEW s \in Streams, NEW rest \in Nat, NEW last \in BOOLEAN,
         NEW bound \in Nat, Lawful(i, w, rest, last, bound), IsStored(i.streams[s]),
         IsSendStreaming(i.streams[s].state)
  PROVE  LET j == SendTrailers(i, s)
         IN  Lawful(j, w, rest, last, bound) /\ IsStored(j.streams[s])
<1> DEFINE j == SendTrailers(i, s)
           f == Frame("trailers", 0, TRUE)
<1>1. i \in InnerRecord
  BY VoiceHere
<1>2. /\ Around(i, j, s)
      /\ j.streams[s].place = i.streams[s].place /\ j.streams[s].counted = i.streams[s].counted
      /\ j.streams[s].queue = Append(i.streams[s].queue, f)
      /\ j.streams[s].state = SendClose(i.streams[s].state)
  BY <1>1, SendTrailersAround
<1>3. f \in Frames /\ f.kind = "trailers" /\ f.eos = TRUE
  BY FrameIn, WindowType DEF Kinds
<1> HIDE DEF j, f
<1>4. Lawful(j, w, rest, last, bound) /\ IsStored(j.streams[s])
  <2>1. /\ f.kind \in {"data", "trailers"}
        /\ f.eos => j.streams[s].state = SendClose(i.streams[s].state)
        /\ ~f.eos => j.streams[s].state = i.streams[s].state
    BY <1>2, <1>3
  <2> QED
    BY <1>2, <1>3, <2>1, AppendLawful
<1> QED
  BY <1>4 DEF j

\* Send::send_headers at a server
LEMMA HeadersLawful ==
  ASSUME NEW i, NEW w, NEW s \in Streams, NEW rest \in Nat, NEW last \in BOOLEAN,
         NEW bound \in Nat, Lawful(i, w, rest, last, bound), IsStored(i.streams[s]),
         IsServer(i), CanSendOpen(i.streams[s].state), NEW eos \in BOOLEAN
  PROVE  LET j == SendHeaders(i, s, eos)
         IN  /\ Lawful(j, w, rest, last, bound) /\ IsStored(j.streams[s])
             /\ j \in InnerRecord /\ IsServer(j)
<1> DEFINE j == SendHeaders(i, s, eos)
           f == Frame("headers", 0, eos)
           r == i.streams[s]
<1>1. i \in InnerRecord /\ r \in StreamRecord /\ r.state \in States
  BY VoiceHere, OwnFacts
<1>2. /\ Around(i, j, s)
      /\ j.streams[s] = Queued(WithState(r, SendOpen(r.state, eos)), f)
  BY <1>1, SendHeadersAround
<1>3. f \in Frames /\ f.kind = "headers" /\ f.eos = eos
  BY FrameIn, WindowType DEF Kinds
<1>4. SendOpen(r.state, eos) \in States
  BY <1>1, SendOpenSpeech
<1> HIDE DEF f, j
<1>5. /\ j.streams[s].place = r.place /\ j.streams[s].counted = r.counted
      /\ j.streams[s].queue = Append(r.queue, f)
      /\ j.streams[s].state = SendOpen(r.state, eos)
  <2> DEFINE st2 == SendOpen(r.state, eos)
             r1 == WithState(r, st2)
  <2>1. /\ r1 \in StreamRecord /\ r1.state = st2 /\ r1.place = r.place /\ r1.counted = r.counted
        /\ r1.queue = r.queue
    BY <1>1, <1>3, <1>4, RecordTypes, WithStateFields
  <2>2. j.streams[s] = Queued(r1, f)
    BY <1>2
  <2> HIDE DEF r1, st2
  <2>3. /\ j.streams[s].place = r1.place /\ j.streams[s].counted = r1.counted
        /\ j.streams[s].queue = Append(r1.queue, f) /\ j.streams[s].state = r1.state
    BY <2>1, <2>2, QueuedFields
  <2> QED
    BY <2>1, <2>3 DEF st2
<1>6. Lawful(j, w, rest, last, bound) /\ IsStored(j.streams[s])
  <2>1. \/ f.kind = "headers" /\ j.streams[s].state = SendOpen(i.streams[s].state, f.eos)
        \/ f.kind = "informational" /\ ~f.eos /\ j.streams[s].state = i.streams[s].state
    BY <1>3, <1>5
  <2>2. /\ j.streams[s].place = i.streams[s].place /\ j.streams[s].counted = i.streams[s].counted
        /\ j.streams[s].queue = Append(i.streams[s].queue, f)
    BY <1>5
  <2> HIDE DEF r
  <2> QED
    BY SMTT(60), <1>2, <1>3, <2>1, <2>2, RespondLawful
<1>7. j \in InnerRecord /\ IsServer(j)
  BY <1>2 DEF Around, IsServer
<1> QED
  BY <1>6, <1>7 DEF j

LEMMA InformationalLawful ==
  ASSUME NEW i, NEW w, NEW s \in Streams, NEW rest \in Nat, NEW last \in BOOLEAN,
         NEW bound \in Nat, Lawful(i, w, rest, last, bound), IsStored(i.streams[s]),
         IsServer(i), CanSendOpen(i.streams[s].state)
  PROVE  LET j == QueueFrame(i, s, Frame("informational", 0, FALSE))
         IN  Lawful(j, w, rest, last, bound) /\ IsStored(j.streams[s])
<1> DEFINE f == Frame("informational", 0, FALSE)
           j == QueueFrame(i, s, f)
           r == i.streams[s]
<1>1. i \in InnerRecord /\ r \in StreamRecord
  BY VoiceHere, OwnFacts
<1>2. f \in Frames /\ f.kind = "informational" /\ f.eos = FALSE
  BY FrameIn, WindowType DEF Kinds
<1>3. /\ Around(i, j, s) /\ j.streams[s] = Queued(r, f)
  BY <1>1, <1>2, QueueFrameAround
<1> HIDE DEF f
<1>4. /\ j.streams[s].place = r.place /\ j.streams[s].counted = r.counted
      /\ j.streams[s].queue = Append(r.queue, f)
      /\ j.streams[s].state = r.state
  BY <1>1, <1>2, <1>3, QueuedFields
<1> HIDE DEF j
<1>5. Lawful(j, w, rest, last, bound) /\ IsStored(j.streams[s])
  BY ZenonT(60), <1>2, <1>3, <1>4, RespondLawful
<1> QED
  BY <1>5 DEF j, f

\* Actions::send_reset, without its transition
LEMMA ResetStreamLawful ==
  ASSUME NEW i, NEW w, NEW s \in Streams, NEW rest \in Nat, NEW last \in BOOLEAN,
         NEW bound \in Nat, Lawful(i, w, rest, last, bound), IsStored(i.streams[s])
  PROVE  LET j == ResetStream(i, s)
         IN  Lawful(j, w, rest, last, bound) /\ IsStored(j.streams[s])
<1>1. i \in InnerRecord
  BY VoiceHere
<1>2. Resets3(i, ResetStream(i, s), s)
  BY <1>1, ResetStreamAround
<1> QED
  BY <1>2, ResetLawful

LEMMA CancelLawful ==
  ASSUME NEW i, NEW w, NEW s \in Streams, NEW rest \in Nat, NEW last \in BOOLEAN,
         NEW bound \in Nat, Lawful(i, w, rest, last, bound), IsStored(i.streams[s])
  PROVE  LET j == MaybeCancel(i, s)
         IN  Lawful(j, w, rest, last, bound) /\ IsStored(j.streams[s])
<1>1. i \in InnerRecord
  BY VoiceHere
<1>2. PICK reason \in Reasons : /\ i.peer # "server" => reason # "NO_ERROR"
                                /\ Schedules3(i, MaybeCancel(i, s), s, reason)
  BY <1>1, MaybeCancelAround
<1>3. IsServer(i) \/ reason # "NO_ERROR"
  BY <1>2 DEF IsServer
<1> QED
  BY <1>2, <1>3, ScheduledLawful

\* The receiving half turns the state into st2.
LEMMA TurnLawful ==
  ASSUME NEW i, NEW w, NEW s \in Streams, NEW rest \in Nat, NEW last \in BOOLEAN,
         NEW bound \in Nat, Lawful(i, w, rest, last, bound), IsStored(i.streams[s]),
         NEW st2, Calmer(i.streams[s].state, st2),
         Waiting(i, s) => Unanswered(st2) \/ IsReset(st2)
  PROVE  LET j == [i EXCEPT !.streams[s].state = st2]
         IN  Lawful(j, w, rest, last, bound) /\ IsStored(j.streams[s])
<1> DEFINE j == [i EXCEPT !.streams[s].state = st2]
<1>1. i \in InnerRecord
  BY VoiceHere
<1>2. /\ Firmer(i.streams[s].state, st2) /\ st2 \in States
      /\ IsScheduledReset(st2) => st2 = i.streams[s].state
  BY DEF Calmer, Firmer
<1>3. Around(i, j, s) /\ Same(WithState(i.streams[s], st2), j.streams[s])
  BY <1>1, <1>2, StateAround, SameRefl
<1> HIDE DEF j
<1>4. Lawful(j, w, rest, last, bound) /\ IsStored(j.streams[s])
  BY <1>2, <1>3, StateLawful
<1> QED
  BY <1>4 DEF j

\* The stream fails: its queue is cleared.
LEMMA FailLawful ==
  ASSUME NEW i, NEW w, NEW s \in Streams, NEW rest \in Nat, NEW last \in BOOLEAN,
         NEW bound \in Nat, Lawful(i, w, rest, last, bound), IsStored(i.streams[s]),
         NEW st2, Calmer(i.streams[s].state, st2), IsClosed(st2),
         Waiting(i, s) => Past(bound, s) /\ IsReset(st2)
  PROVE  LET j == FailSending([i EXCEPT !.streams[s].state = st2], s)
         IN  Lawful(j, w, rest, last, bound) /\ IsStored(j.streams[s])
<1> DEFINE m == [i EXCEPT !.streams[s].state = st2]
           j == FailSending(m, s)
<1>1. i \in InnerRecord
  BY VoiceHere
<1>2. /\ Firmer(i.streams[s].state, st2) /\ st2 \in States
      /\ IsScheduledReset(st2) => st2 = i.streams[s].state
  BY DEF Calmer, Firmer
<1>3. Around(i, m, s) /\ m.streams[s] = WithState(i.streams[s], st2) /\ m \in InnerRecord
  BY <1>1, <1>2, StateAround DEF Around
<1> HIDE DEF m
<1>4. Around(m, j, s) /\ Same(Cleared(m.streams[s]), j.streams[s]) /\ j.inFlight # s
  BY <1>3, FailSendingAround
<1> HIDE DEF j
<1>5. Around(i, j, s)
  BY <1>3, <1>4, AroundTrans
<1>6. Same(Cleared(WithState(i.streams[s], st2)), j.streams[s])
  BY <1>3, <1>4
<1>7. Lawful(j, w, rest, last, bound) /\ IsStored(j.streams[s])
  BY <1>2, <1>4, <1>5, <1>6, ClearedLawful
<1> QED
  BY <1>7 DEF j, m


----------------------------------------------------------------------------
(* Writing: what is taken out of a queue turns the peer's view.            *)

\* The stream at the head of pending_send is told apart from the others: its
\* record becomes that of k, the peer's view of it v2.
Speaking(i, k, w, s, last, last2, bound, opening, v2, holder2, due) ==
  /\ last \in BOOLEAN /\ last2 \in BOOLEAN /\ opening \in {0, s} /\ holder2 \in {0, s}
  /\ k \in InnerRecord /\ s \in Streams
  /\ Legal(i, w, Nothing, last, bound, opening) /\ Contains(i.sendQ, s)
  /\ DOMAIN w = Streams
  /\ k.peer = i.peer /\ k.openQ = i.openQ /\ k.numStreams = i.numStreams
  /\ \A t \in Streams : t # s => Same(i.streams[t], k.streams[t])
  /\ \A t \in Streams : t # s =>
       /\ Contains(i.sendQ, t) => Contains(k.sendQ, t)
       /\ Contains(k.sendQ, t) => Contains(i.sendQ, t) \/ ~Contains(i.openQ, t)
  /\ IsStored(i.streams[s]) /\ k.streams[s].place = i.streams[s].place
  /\ k.streams[s].counted = i.streams[s].counted
  /\ due \in BOOLEAN /\ (due => Due(k, s))
  /\ Voice(k.streams[s], v2, Has(holder2, s), last2, Never, Never, due,
           IsServer(i), Past(bound, s))
  /\ IsServer(i) \/ opening = s \/ w[s] # "idle" \/ v2 = w[s]

LEMMA SpokenLegal ==
  ASSUME NEW i, NEW k, NEW w, NEW s, NEW last, NEW last2, NEW bound, NEW opening, NEW v2,
         NEW holder2, NEW due,
         Speaking(i, k, w, s, last, last2, bound, opening, v2, holder2, due)
  PROVE  Legal(k, [w EXCEPT ![s] = v2], holder2, last2, bound, 0)
<1> USE DEF Speaking
<1> DEFINE w2 == [w EXCEPT ![s] = v2]
<1>1. w2[s] = v2 /\ \A t \in Streams : t # s => w2[t] = w[t]
  OBVIOUS
<1>2. /\ IsServer(k) = IsServer(i)
      /\ \A t \in Streams : Waiting(k, t) = Waiting(i, t)
      /\ ~Waiting(i, s)
  BY LegalAt DEF IsServer, Waiting, Apart
<1>3. ~Awaits(k, 0, s)
  BY <1>2, StreamsType DEF Awaits, Waiting
<1>4. ASSUME NEW t \in Streams, t # s
      PROVE  Utters(k, w[t], holder2, last2, bound, 0, t) /\ Apart(k, t)
  <2>1. Utters(i, w[t], Nothing, last, bound, opening, t) /\ Apart(i, t)
    BY LegalAt
  <2>2. Waiting(k, t) <=> Waiting(i, t)
    BY <1>2
  <2>3. Awaits(k, 0, t) <=> Awaits(i, opening, t)
    BY <1>4, StreamsType DEF Awaits
  <2>4. Due(i, t) => Due(k, t)
    BY <1>4 DEF Due
  <2>5. ~Has(holder2, t)
    BY <1>4, StreamsType DEF Has
  <2>6. Same(i.streams[t], k.streams[t])
    BY <1>4
  <2>7. Utters(k, w[t], holder2, last2, bound, 0, t)
    BY <1>2, <2>1, <2>2, <2>3, <2>4, <2>5, <2>6, UttersOn
  <2>8. Apart(k, t)
    BY <1>4, <2>1 DEF Apart
  <2> QED
    BY <2>7, <2>8
<1>5. Utters(k, v2, holder2, last2, bound, 0, s) /\ Apart(k, s)
  <2> DEFINE r2 == k.streams[s]
  <2>1. Voice(r2, v2, Has(holder2, s), last2, Never, Never, due, IsServer(i), Past(bound, s))
    OBVIOUS
  <2>2. /\ Has(holder2, s) \in BOOLEAN /\ Waiting(k, s) \in BOOLEAN /\ Due(k, s) \in BOOLEAN
        /\ IsServer(i) \in BOOLEAN /\ Past(bound, s) \in BOOLEAN
        /\ IsServer(k) \in BOOLEAN /\ Awaits(k, 0, s) \in BOOLEAN
    BY Booleans, MoreBooleans
  <2>3. /\ Awaits(k, 0, s) <=> Never
        /\ Waiting(k, s) <=> Never
        /\ IsServer(k) <=> IsServer(i)
    BY <1>2, <1>3, Certainties
  <2> HIDE DEF r2
  <2>4. Voice(r2, v2, Has(holder2, s), last2, Awaits(k, 0, s), Waiting(k, s), Due(k, s),
              IsServer(k), Past(bound, s))
    BY <2>1, <2>2, <2>3, Certainties, VoiceAs
  <2> QED
    BY <1>2, <2>4 DEF Utters, Apart, Waiting, r2
<1>6. ASSUME ~IsServer(k)
      PROVE  InOrder(k, w2, 0) /\ Balanced(k)
  <2>1. InOrder(i, w, opening) /\ Balanced(i) /\ ~IsServer(i)
    BY <1>2, <1>6, LegalAt
  <2>2. \A t \in Streams : /\ k.streams[t].place = i.streams[t].place
                           /\ k.streams[t].counted = i.streams[t].counted
    BY DEF Same
  <2>3. ASSUME NEW a \in Streams, NEW t \in Streams, Contains(i.openQ, a), w2[t] # "idle"
        PROVE  t < a
    <3>1. CASE w[t] # "idle"
      BY <2>1, <2>3, <3>1 DEF InOrder
    <3>2. CASE w[t] = "idle"
      <4>1. t = s /\ opening = s
        BY <1>1, <2>1, <2>3, <3>2
      <4> QED
        BY <2>1, <2>3, <4>1 DEF InOrder
    <3> QED
      BY <3>1, <3>2
  <2>4. InOrder(k, w2, 0)
    BY <2>1, <2>2, <2>3, StreamsType DEF InOrder
  <2> QED
    BY <2>1, <2>2, <2>4, BalanceKept
<1>7. \A t \in Streams : Utters(k, w2[t], holder2, last2, bound, 0, t) /\ Apart(k, t)
  BY <1>1, <1>4, <1>5
<1> HIDE DEF w2
<1>8. Legal(k, w2, holder2, last2, bound, 0)
  BY <1>6, <1>7, LegalFrom
<1> QED
  BY <1>8 DEF w2

\* The facts about the stream at the head of pending_send.
LEMMA HeadAt ==
  ASSUME NEW i, NEW w, NEW s \in Streams, NEW last \in BOOLEAN, NEW bound, NEW opening,
         Legal(i, w, Nothing, last, bound, opening), Contains(i.sendQ, s)
  PROVE  LET r == i.streams[s]
         IN  /\ Voice(r, w[s], Never, last, Awaits(i, opening, s), Never, Due(i, s),
                      IsServer(i), Past(bound, s))
             /\ Awaits(i, opening, s) => opening = s
             /\ r \in StreamRecord /\ r.state \in States /\ r.queue \in Seq(Frames)
<1> DEFINE r == i.streams[s]
<1>1. /\ Utters(i, w[s], Nothing, last, bound, opening, s) /\ Apart(i, s)
      /\ i \in InnerRecord
  BY LegalAt
<1>2. ~Waiting(i, s)
  BY <1>1 DEF Apart, Waiting
<1>3. Awaits(i, opening, s) => opening = s
  BY <1>2 DEF Awaits, Waiting
<1>4. ~Has(Nothing, s)
  BY StreamsType DEF Has, Nothing
<1>5. Voice(r, w[s], Has(Nothing, s), last, Awaits(i, opening, s), Waiting(i, s), Due(i, s),
            IsServer(i), Past(bound, s))
  BY <1>1 DEF Utters
<1>6. /\ Has(Nothing, s) \in BOOLEAN /\ Waiting(i, s) \in BOOLEAN /\ Due(i, s) \in BOOLEAN
      /\ IsServer(i) \in BOOLEAN /\ Past(bound, s) \in BOOLEAN
      /\ Awaits(i, opening, s) \in BOOLEAN
  BY Booleans, MoreBooleans
<1>7. r \in StreamRecord /\ r.state \in States /\ r.queue \in Seq(Frames)
  BY <1>1, OwnFacts
<1>8. (Never => Has(Nothing, s) /\ (last <=> last)) /\ (Never <=> Waiting(i, s))
  BY <1>2, Certainties
<1> HIDE DEF r
<1>9. Voice(r, w[s], Never, last, Awaits(i, opening, s), Never, Due(i, s), IsServer(i),
            Past(bound, s))
  BY <1>5, <1>6, <1>8, Certainties, VoiceAs
<1> QED
  BY <1>3, <1>7, <1>9 DEF r


LEMMA LegalTypes ==
  ASSUME NEW i, NEW w, NEW holder, NEW last, NEW bound, NEW opening,
         Legal(i, w, holder, last, bound, opening)
  PROVE  /\ i \in InnerRecord /\ i.sendQ \in Seq(Streams) /\ i.openQ \in Seq(Streams)
         /\ i.streams \in [Streams -> StreamRecord] /\ i.numStreams \in Int
         /\ i.maxStreams \in Nat /\ i.maxStreamId \in Nat
<1>1. i \in InnerRecord
  BY DEF Legal
<1> QED
  BY <1>1 DEF InnerRecord

\* s is at the head of pending_send.
IsFirst(i, s) == i.sendQ # <<>> /\ s = Head(i.sendQ)

LEMMA FirstAt ==
  ASSUME NEW i, NEW s \in Streams, i.sendQ \in Seq(Streams), IsFirst(i, s)
  PROVE  /\ Contains(i.sendQ, s) /\ Tail(i.sendQ) \in Seq(Streams)
         /\ \A t \in Streams : Contains(Tail(i.sendQ), t) => Contains(i.sendQ, t)
         /\ \A t \in Streams : Contains(i.sendQ, t) => t = s \/ Contains(Tail(i.sendQ), t)
<1> DEFINE q == i.sendQ
<1>1. q \in Seq(Streams) /\ q # <<>> /\ Head(q) = s
  BY DEF IsFirst
<1> HIDE DEF q
<1>2. /\ Contains(q, Head(q)) /\ Tail(q) \in Seq(Streams)
      /\ \A t \in Streams : Contains(Tail(q), t) => Contains(q, t)
      /\ \A t \in Streams : Contains(q, t) => t = Head(q) \/ Contains(Tail(q), t)
  BY <1>1, TailQueue
<1> QED
  BY <1>1, <1>2 DEF q

LEMMA TakingCut ==
  ASSUME NEW r, NEW r2, NEW v, NEW last, NEW last2, NEW waits, NEW due, NEW server, NEW refused,
         NEW due2, NEW peer, Head(r.queue).kind = "data",
         Taking(r, r2, v, last, last2, waits, due, server, refused, due2, peer)
  PROVE  /\ v = "open"
         /\ Voice(r2, v, Always, Head(r.queue).eos, Never, Never, due2, server, refused)
BY VoiceCut DEF Taking

Popping(i, j, w, s, last, last2, bound, opening, v2, holder2, more) ==
  /\ last \in BOOLEAN /\ last2 \in BOOLEAN /\ opening \in {0, s} /\ holder2 \in {0, s}
  /\ j \in InnerRecord /\ s \in Streams
  /\ Legal(i, w, Nothing, last, bound, opening) /\ IsFirst(i, s)
  /\ DOMAIN w = Streams
  /\ j.sendQ = Tail(i.sendQ) /\ j.peer = i.peer /\ j.openQ = i.openQ
  /\ j.numStreams = i.numStreams /\ j.maxStreamId = i.maxStreamId
  /\ \A t \in Streams : t # s => j.streams[t] = i.streams[t]
  /\ IsStored(i.streams[s]) /\ j.streams[s].place = i.streams[s].place
  /\ j.streams[s].counted = i.streams[s].counted
  /\ more \in BOOLEAN
  /\ more <=> j.streams[s].queue # <<>> \/ IsScheduledReset(j.streams[s].state)
  /\ Voice(j.streams[s], v2, Has(holder2, s), last2, Never, Never, more,
           IsServer(i), Past(bound, s))
  /\ IsServer(i) \/ opening = s \/ w[s] # "idle" \/ v2 = w[s]

\* The end of pop_frame for the stream at the head of pending_send, whose
\* record became that of j.
LEMMA RequeueLegal ==
  ASSUME NEW i, NEW j, NEW w, NEW s, NEW last, NEW last2, NEW bound, NEW opening, NEW v2,
         NEW holder2, NEW more, Popping(i, j, w, s, last, last2, bound, opening, v2, holder2, more)
  PROVE  LET k == Requeue(j, s)
         IN  Legal(k, [w EXCEPT ![s] = v2], holder2, last2, bound, 0)
             /\ k.maxStreamId = i.maxStreamId
<1> DEFINE d == [j EXCEPT !.sendQ = Push(@, s)]
           c == IF more THEN d ELSE j
           wasReset == IsPendingReset(j, s)
           k == Requeue(j, s)
           w2 == [w EXCEPT ![s] = v2]
<1> USE DEF Popping
<1>1. i \in InnerRecord /\ i.sendQ \in Seq(Streams) /\ Apart(i, s)
  BY LegalTypes, LegalAt
<1>2. /\ Contains(i.sendQ, s) /\ Tail(i.sendQ) \in Seq(Streams)
      /\ \A t \in Streams : Contains(Tail(i.sendQ), t) => Contains(i.sendQ, t)
      /\ \A t \in Streams : Contains(i.sendQ, t) => t = s \/ Contains(Tail(i.sendQ), t)
  BY <1>1, FirstAt
<1>3. /\ Push(j.sendQ, s) \in Seq(Streams)
      /\ \A t \in Streams : Contains(Push(j.sendQ, s), t) <=> Contains(j.sendQ, t) \/ t = s
  <2>1. j.sendQ \in Seq(Streams)
    BY <1>2
  <2> QED
    BY <2>1, PushQueue
<1>4. /\ d \in InnerRecord /\ d.streams = j.streams /\ d.peer = j.peer /\ d.openQ = j.openQ
      /\ d.numStreams = j.numStreams /\ d.maxStreamId = j.maxStreamId
      /\ d.sendQ = Push(j.sendQ, s)
  BY <1>3 DEF InnerRecord
<1> HIDE DEF d
<1>5. /\ c \in InnerRecord /\ c.streams = j.streams /\ c.peer = i.peer /\ c.openQ = i.openQ
      /\ c.numStreams = i.numStreams /\ c.maxStreamId = i.maxStreamId
      /\ more => Contains(c.sendQ, s)
      /\ \A t \in Streams : t # s => (Contains(c.sendQ, t) <=> Contains(i.sendQ, t))
  BY <1>2, <1>3, <1>4
<1>6. k = TransitionAfter(c, s, wasReset)
  BY DEF Requeue, d
<1> HIDE DEF c
<1>7. more => Due(c, s)
  BY <1>5 DEF Due
<1>8. Voice(c.streams[s], v2, Has(holder2, s), last2, Never, Never, more,
            IsServer(i), Past(bound, s))
  BY <1>5
<1>9. \A t \in Streams : t # s => Same(i.streams[t], c.streams[t])
  BY <1>5 DEF Same
<1>10. c.streams[s].place = i.streams[s].place /\ c.streams[s].counted = i.streams[s].counted
  BY <1>5
<1> HIDE DEF w2
<1>11. Legal(c, w2, holder2, last2, bound, 0)
  <2>1. Speaking(i, c, w, s, last, last2, bound, opening, v2, holder2, more)
    BY <1>2, <1>5, <1>7, <1>8, <1>9, <1>10 DEF Speaking
  <2> QED
    BY <2>1, SpokenLegal DEF w2
<1>12. IsStored(c.streams[s]) /\ wasReset \in BOOLEAN
  BY <1>10 DEF IsStored, IsPendingReset, Contains
<1> HIDE DEF wasReset, k
<1>13. Legal(k, w2, holder2, last2, bound, 0) /\ k.maxStreamId = c.maxStreamId
  BY <1>6, <1>11, <1>12, TransitionLegal
<1> QED
  BY <1>5, <1>13 DEF k, w2

\* What pop_frame returns: the peer's view afterwards, and the stream to
\* which a part of the frame will return.
Voiced(w, p, peer) ==
  IF p.stream = Nothing THEN w
  ELSE [w EXCEPT ![p.stream] = AfterFrame(w[p.stream], p.frame, peer)]

Rests(p) == IF p.rest > 0 THEN p.stream ELSE Nothing

Spoken(i, w, p, bound) ==
  /\ Legal(p.inner, Voiced(w, p, i.peer), Rests(p), p.eos, bound, 0)
  /\ p.inner.maxStreamId = i.maxStreamId

\* A frame without octets, which is all of it.
LEMMA PopOtherLegal ==
  ASSUME NEW i, NEW w, NEW s \in Streams, NEW last \in BOOLEAN,
         NEW bound, NEW opening \in {0, s},
         Legal(i, w, Nothing, last, bound, opening), IsFirst(i, s),
         DOMAIN w = Streams, IsStored(i.streams[s]), i.streams[s].queue # <<>>
  PROVE  Spoken(i, w, PopOther([i EXCEPT !.sendQ = Tail(@)], s), bound)
<1> DEFINE r == i.streams[s]
           f == Head(r.queue)
           r2 == [r EXCEPT !.queue = Tail(@)]
           c == [i EXCEPT !.sendQ = Tail(@)]
           j == [c EXCEPT !.streams[s].queue = Tail(@)]
           k == Requeue(j, s)
           v2 == AfterFrame(w[s], f, i.peer)
           more == r2.queue # <<>> \/ IsScheduledReset(r2.state)
<1>1. i \in InnerRecord /\ i.sendQ \in Seq(Streams) /\ i.streams \in [Streams -> StreamRecord]
  BY LegalTypes
<1>2. Contains(i.sendQ, s) /\ Tail(i.sendQ) \in Seq(Streams)
  BY <1>1, FirstAt
<1>3. /\ Voice(r, w[s], Never, last, Awaits(i, opening, s), Never, Due(i, s),
               IsServer(i), Past(bound, s))
      /\ Awaits(i, opening, s) => opening = s
      /\ r \in StreamRecord /\ r.state \in States /\ r.queue \in Seq(Frames)
  BY <1>2, HeadAt
<1>4. Tail(r.queue) \in Seq(Frames)
  BY <1>3, TailAt
<1>5. /\ r2 \in StreamRecord /\ r2.queue = Tail(r.queue) /\ r2.place = r.place
      /\ r2.counted = r.counted /\ r2.state = r.state
  BY <1>3, <1>4 DEF StreamRecord
<1>6. /\ c \in InnerRecord /\ c.streams = i.streams /\ c.peer = i.peer /\ c.openQ = i.openQ
      /\ c.numStreams = i.numStreams /\ c.maxStreamId = i.maxStreamId
      /\ c.sendQ = Tail(i.sendQ)
  BY <1>1, <1>2 DEF InnerRecord
<1> HIDE DEF c
<1>7. j = [c EXCEPT !.streams = [c.streams EXCEPT ![s] = r2]]
  BY <1>1, <1>6 DEF InnerRecord
<1> HIDE DEF r2
<1>8. /\ j \in InnerRecord /\ j.streams[s] = r2 /\ j.peer = i.peer /\ j.openQ = i.openQ
      /\ j.numStreams = i.numStreams /\ j.maxStreamId = i.maxStreamId
      /\ j.sendQ = Tail(i.sendQ)
      /\ \A t \in Streams : t # s => j.streams[t] = i.streams[t]
  BY ZenonT(60), <1>1, <1>5, <1>6, <1>7 DEF InnerRecord
<1>9. PopOther(c, s) = Popped(k, s, f, 0, FALSE)
  BY <1>6 DEF PopOther
<1>10. IsServer(i) <=> i.peer = "server"
  BY DEF IsServer
<1>11. /\ Awaits(i, opening, s) \in BOOLEAN /\ Due(i, s) \in BOOLEAN
       /\ IsServer(i) \in BOOLEAN /\ Past(bound, s) \in BOOLEAN
  BY Booleans, MoreBooleans
<1>12. more \in BOOLEAN /\ FALSE \in BOOLEAN /\ (IsScheduledReset(r.state) => more)
  BY <1>5 DEF IsScheduledReset
<1> HIDE DEF more, j
<1>13. /\ Voice(r2, v2, Never, Never, Never, Never, more, IsServer(i), Past(bound, s))
       /\ IsServer(i) \/ Awaits(i, opening, s) \/ w[s] # "idle"
  <2> DEFINE peer == i.peer
             v == w[s]
  <2>1. Never \in BOOLEAN
    BY Certainties
  <2>2. r.queue # <<>> /\ IsStored(r) /\ (IsServer(i) <=> peer = "server")
    BY <1>10
  <2>3. v2 = AfterFrame(v, Head(r.queue), peer)
    OBVIOUS
  <2>4. Voice(r, v, Never, last, Awaits(i, opening, s), Never, Due(i, s),
              IsServer(i), Past(bound, s))
    BY <1>3
  <2> HIDE DEF r, peer, v, v2
  <2>5. Taking(r, r2, v, last, Never, Awaits(i, opening, s), Due(i, s), IsServer(i),
               Past(bound, s), more, peer)
    BY <1>3, <1>5, <1>11, <1>12, <2>1, <2>2, <2>4 DEF Taking
  <2>6. /\ Voice(r2, v2, Never, Never, Never, Never, more, IsServer(i), Past(bound, s))
        /\ IsServer(i) \/ Awaits(i, opening, s) \/ v # "idle"
    BY <2>3, <2>5, VoicePop
  <2> QED
    BY <2>6 DEF v
<1>14. Voice(j.streams[s], v2, Has(Nothing, s), Never, Never, Never, more,
             IsServer(i), Past(bound, s))
  <2>1. Has(Nothing, s) = FALSE /\ Never = FALSE
    BY StreamsType DEF Has, Nothing, Never
  <2> QED
    BY <1>8, <1>13, <2>1
<1>15. /\ more <=> j.streams[s].queue # <<>> \/ IsScheduledReset(j.streams[s].state)
       /\ j.streams[s].place = i.streams[s].place /\ j.streams[s].counted = i.streams[s].counted
       /\ Nothing \in {0, s} /\ Never \in BOOLEAN
  BY <1>5, <1>8, Certainties DEF more, Nothing
<1>16. IsServer(i) \/ opening = s \/ w[s] # "idle" \/ v2 = w[s]
  BY <1>3, <1>13
<1> HIDE DEF v2, k
<1>17. Legal(k, [w EXCEPT ![s] = v2], Nothing, Never, bound, 0) /\ k.maxStreamId = i.maxStreamId
  <2>1. Popping(i, j, w, s, last, Never, bound, opening, v2, Nothing, more)
    BY <1>3, <1>8, <1>12, <1>14, <1>15, <1>16 DEF Popping
  <2> QED
    BY <2>1, RequeueLegal DEF k
<1>18. s # Nothing
  BY StreamsType DEF Nothing
<1> DEFINE p == Popped(k, s, f, 0, FALSE)
<1>19. p.inner = k /\ p.stream = s /\ p.frame = f /\ p.rest = 0 /\ p.eos = Never
  BY DEF Popped, Never
<1> HIDE DEF p
<1>20. Voiced(w, p, i.peer) = [w EXCEPT ![s] = v2] /\ Rests(p) = Nothing
  BY <1>18, <1>19 DEF Voiced, Rests, v2
<1>21. Spoken(i, w, p, bound)
  BY <1>17, <1>19, <1>20 DEF Spoken
<1> QED
  BY <1>9, <1>21 DEF p, c


LEMMA PoppedSpoken ==
  ASSUME NEW i, NEW j, NEW w, NEW s \in Streams, NEW last, NEW eos, NEW bound, NEW opening,
         NEW holder2, NEW more, NEW frame, NEW rest,
         Popping(i, j, w, s, last, eos, bound, opening, AfterFrame(w[s], frame, i.peer),
                 holder2, more),
         rest > 0 => holder2 = s, ~(rest > 0) => holder2 = Nothing
  PROVE  Spoken(i, w, Popped(Requeue(j, s), s, frame, rest, eos), bound)
<1> DEFINE k == Requeue(j, s)
           v2 == AfterFrame(w[s], frame, i.peer)
           p == Popped(k, s, frame, rest, eos)
<1> HIDE DEF v2
<1>1. Legal(k, [w EXCEPT ![s] = v2], holder2, eos, bound, 0) /\ k.maxStreamId = i.maxStreamId
  BY RequeueLegal DEF v2
<1>2. s # Nothing
  BY StreamsType DEF Nothing
<1> HIDE DEF k
<1>3. p.inner = k /\ p.stream = s /\ p.frame = frame /\ p.rest = rest /\ p.eos = eos
  BY DEF Popped
<1> HIDE DEF p
<1>4. Voiced(w, p, i.peer) = [w EXCEPT ![s] = v2]
  BY <1>2, <1>3 DEF Voiced, v2
<1>5. Rests(p) = holder2
  BY <1>3 DEF Rests
<1>6. Spoken(i, w, p, bound)
  BY <1>1, <1>3, <1>4, <1>5 DEF Spoken
<1> QED
  BY <1>6 DEF p, k

\* The types, and the voice, of the stream that is popped; c is without it.
Poppable(i, c, r, v, s, last, bound, opening) ==
  /\ Voice(r, v, Never, last, Awaits(i, opening, s), Never, Due(i, s),
           IsServer(i), Past(bound, s))
  /\ Awaits(i, opening, s) => opening = s
  /\ r \in StreamRecord /\ r.state \in States /\ r.queue \in Seq(Frames)
  /\ r.queue # <<>> => Tail(r.queue) \in Seq(Frames)
  /\ i \in InnerRecord /\ i.streams \in [Streams -> StreamRecord]
  /\ c \in InnerRecord /\ c.streams = i.streams /\ c.peer = i.peer
  /\ c.openQ = i.openQ /\ c.flow = i.flow
  /\ c.numStreams = i.numStreams /\ c.maxStreamId = i.maxStreamId
  /\ c.sendQ = Tail(i.sendQ) /\ c.inFlight = i.inFlight
  /\ Contains(i.sendQ, s)

LEMMA PoppingAt ==
  ASSUME NEW i, NEW w, NEW s \in Streams, NEW last \in BOOLEAN, NEW bound, NEW opening \in {0, s},
         Legal(i, w, Nothing, last, bound, opening), IsFirst(i, s), DOMAIN w = Streams
  PROVE  Poppable(i, [i EXCEPT !.sendQ = Tail(@)], i.streams[s], w[s], s, last, bound, opening)
<1> DEFINE r == i.streams[s]
           c == [i EXCEPT !.sendQ = Tail(@)]
<1>1. i \in InnerRecord /\ i.sendQ \in Seq(Streams) /\ i.streams \in [Streams -> StreamRecord]
  BY LegalTypes
<1>2. Contains(i.sendQ, s) /\ Tail(i.sendQ) \in Seq(Streams)
  BY <1>1, FirstAt
<1>3. /\ Voice(r, w[s], Never, last, Awaits(i, opening, s), Never, Due(i, s),
               IsServer(i), Past(bound, s))
      /\ Awaits(i, opening, s) => opening = s
      /\ r \in StreamRecord /\ r.state \in States /\ r.queue \in Seq(Frames)
  <2> HIDE DEF c
  <2>1. Contains(i.sendQ, s)
    BY <1>2
  <2>2. /\ Voice(r, w[s], Never, last, Awaits(i, opening, s), Never, Due(i, s),
               IsServer(i), Past(bound, s))
        /\ Awaits(i, opening, s) => opening = s
    BY <2>1, HeadAt
  <2>3. r \in StreamRecord
    BY <1>1
  <2>4. r.state \in States /\ r.queue \in Seq(Frames)
    BY <2>3 DEF StreamRecord
  <2> QED
    BY <2>2, <2>3, <2>4
<1>4. r.queue # <<>> => Tail(r.queue) \in Seq(Frames)
  BY <1>3, TailAt
<1>5. /\ c \in InnerRecord /\ c.streams = i.streams /\ c.peer = i.peer /\ c.openQ = i.openQ
      /\ c.numStreams = i.numStreams /\ c.maxStreamId = i.maxStreamId /\ c.flow = i.flow
      /\ c.sendQ = Tail(i.sendQ) /\ c.inFlight = i.inFlight
  BY <1>1, <1>2 DEF InnerRecord
<1> QED
  BY <1>1, <1>2, <1>3, <1>4, <1>5 DEF Poppable

\* What charging a DATA frame to c changes.
Bills(c, j, s, len) ==
  /\ j \in InnerRecord /\ j.streams[s] = Paid(c.streams[s], len)
  /\ \A t \in Streams : t # s => j.streams[t] = c.streams[t]
  /\ j.peer = c.peer /\ j.openQ = c.openQ /\ j.numStreams = c.numStreams
  /\ j.maxStreamId = c.maxStreamId /\ j.sendQ = c.sendQ

LEMMA ChargedFields ==
  ASSUME NEW c \in InnerRecord, NEW s \in Streams, NEW len \in Nat, c.streams[s].queue # <<>>
  PROVE  Bills(c, Charged(c, s, len), s, len)
<1> DEFINE r == c.streams[s]
           r2 == Paid(r, len)
           strs == [c.streams EXCEPT ![s] = r2]
           a == AssignCapacity(c.flow, len)
           flow == SendData(a, len)
           j == Charged(c, s, len)
<1>1. r \in StreamRecord /\ c.streams \in [Streams -> StreamRecord] /\ c.flow \in Flow
  BY DEF InnerRecord
<1>2. j = [c EXCEPT !.streams = strs, !.flow = flow]
  BY ChargeAs
<1> HIDE DEF j
<1>3. len \in Int
  OBVIOUS
<1>4. a \in Flow
  BY <1>1, <1>3, CapacityTypes
<1> HIDE DEF a
<1>5. a.window \in Int /\ a.available \in Int /\ a.window - len \in Int /\ a.available - len \in Int
  BY <1>3, <1>4 DEF Flow
<1>6. flow \in Flow
  BY <1>4, <1>5 DEF Flow, SendData
<1>7. r2 \in StreamRecord
  BY <1>1, <1>3, PaidFields
<1> HIDE DEF flow, r2
<1>8. /\ strs \in [Streams -> StreamRecord] /\ strs[s] = r2
      /\ \A t \in Streams : t # s => strs[t] = c.streams[t]
  BY <1>1, <1>7
<1> HIDE DEF strs
<1>9. /\ j \in InnerRecord /\ j.streams = strs
      /\ j.peer = c.peer /\ j.openQ = c.openQ /\ j.numStreams = c.numStreams
      /\ j.maxStreamId = c.maxStreamId /\ j.sendQ = c.sendQ
  BY <1>2, <1>6, <1>8 DEF InnerRecord
<1> QED
  BY <1>8, <1>9 DEF Bills, j, r2

\* A DATA frame, or as much of it as there is capacity for.
LEMMA PopDataLegal ==
  ASSUME NEW i, NEW w, NEW s \in Streams, NEW last \in BOOLEAN, NEW low,
         NEW bound, NEW opening \in {0, s},
         Legal(i, w, Nothing, last, bound, opening), IsFirst(i, s),
         Sound(i, Behind(Nothing, 0), low, 0),
         DOMAIN w = Streams, IsStored(i.streams[s]), i.streams[s].queue # <<>>,
         Head(i.streams[s].queue).kind = "data", ~IsBlocked(i.streams[s])
  PROVE  Spoken(i, w, PopData([i EXCEPT !.sendQ = Tail(@)], s), bound)
<1> DEFINE r == i.streams[s]
           f == Head(r.queue)
           len == DataLength(r)
           r2 == Paid(r, len)
           c == [i EXCEPT !.sendQ = Tail(@)]
           j == Charged(c, s, len)
           peer == i.peer
           frame == Frame("data", len, f.eos /\ f.sz = len)
           rest == f.sz - len
           v == w[s]
           v2 == AfterFrame(v, frame, peer)
           more == r2.queue # <<>> \/ IsScheduledReset(r2.state)
<1>1. /\ Voice(r, v, Never, last, Awaits(i, opening, s), Never, Due(i, s),
               IsServer(i), Past(bound, s))
      /\ Awaits(i, opening, s) => opening = s
      /\ r \in StreamRecord /\ r.state \in States /\ r.queue \in Seq(Frames)
      /\ Tail(r.queue) \in Seq(Frames)
      /\ i \in InnerRecord /\ i.streams \in [Streams -> StreamRecord]
      /\ c \in InnerRecord /\ c.streams = i.streams /\ c.peer = i.peer
      /\ c.openQ = i.openQ /\ c.flow = i.flow
      /\ c.numStreams = i.numStreams /\ c.maxStreamId = i.maxStreamId
      /\ c.sendQ = Tail(i.sendQ)
  <2> HIDE DEF len, r2, j, frame, rest, v2, more, f
  <2>1. Poppable(i, c, r, v, s, last, bound, opening)
    BY PoppingAt
  <2> HIDE DEF c, v
  <2> QED
    BY <2>1 DEF Poppable
<1> HIDE DEF c
<1>2. /\ len \in Nat /\ len <= f.sz /\ f \in Frames /\ f.sz \in 0 .. MaxWindow
      /\ f.sz \in Nat
  <2> DEFINE none == Behind(Nothing, 0)
  <2>1. none[s] = 0 /\ 0 \in Nat
    BY DEF Behind
  <2> HIDE DEF none
  <2>2. StoredSound(r, none[s], low[s], IsServer(i))
    BY StoredAt DEF none
  <2>3. len \in Nat /\ len <= f.sz /\ f \in Frames /\ f.sz \in 0 .. MaxWindow
    BY <2>1, <2>2, LengthFits
  <2> QED
    BY <2>3, MaxWindowAssumption
<1>3. PopData(c, s) = Popped(Requeue(j, s), s, frame, rest, f.eos)
  BY <1>1 DEF PopData, Charged
<1> HIDE DEF len
<1>4. /\ r2 \in StreamRecord /\ r2.queue = Tail(r.queue) /\ r2.place = r.place
      /\ r2.counted = r.counted /\ r2.state = r.state
  BY <1>1, <1>2, PaidFields
<1> HIDE DEF r2, j
<1>7. /\ j \in InnerRecord /\ j.streams[s] = r2 /\ j.peer = i.peer /\ j.openQ = i.openQ
      /\ j.numStreams = i.numStreams /\ j.maxStreamId = i.maxStreamId
      /\ j.sendQ = Tail(i.sendQ)
      /\ \A t \in Streams : t # s => j.streams[t] = i.streams[t]
  <2>1. c \in InnerRecord /\ len \in Nat /\ c.streams[s].queue # <<>>
    BY <1>1, <1>2
  <2> HIDE DEF r
  <2>2. Bills(c, Charged(c, s, len), s, len)
    BY <2>1, ChargedFields
  <2>3. Bills(c, j, s, len) /\ r2 = Paid(r, len) /\ c.streams[s] = r
    BY <1>1, <2>2 DEF j, r2, r
  <2> QED
    BY <1>1, <2>3 DEF Bills
<1>8. IsServer(i) <=> i.peer = "server"
  BY DEF IsServer
<1>9. /\ Awaits(i, opening, s) \in BOOLEAN /\ Due(i, s) \in BOOLEAN
       /\ IsServer(i) \in BOOLEAN /\ Past(bound, s) \in BOOLEAN
  BY Booleans, MoreBooleans
<1>10. more \in BOOLEAN /\ f.eos \in BOOLEAN /\ (IsScheduledReset(r.state) => more)
  BY <1>2, <1>4 DEF IsScheduledReset, Frames
<1>11. r.queue # <<>> /\ IsStored(r) /\ f.kind = "data"
  OBVIOUS
<1>12. /\ more <=> j.streams[s].queue # <<>> \/ IsScheduledReset(j.streams[s].state)
       /\ j.streams[s].place = i.streams[s].place /\ j.streams[s].counted = i.streams[s].counted
       /\ Nothing \in {0, s} /\ s \in {0, s}
  BY <1>4, <1>7 DEF Nothing
<1> HIDE DEF more
<1>13. Taking(r, r2, v, last, f.eos, Awaits(i, opening, s), Due(i, s), IsServer(i),
              Past(bound, s), more, peer)
  <2> HIDE DEF r, f
  <2> QED
    BY <1>1, <1>4, <1>8, <1>9, <1>10, <1>11 DEF Taking
<1>14. /\ v = "open"
       /\ Voice(r2, v, Always, f.eos, Never, Never, more, IsServer(i), Past(bound, s))
       /\ Voice(r2, AfterFrame(v, f, peer), Never, f.eos, Never, Never, more,
                IsServer(i), Past(bound, s))
  <2> HIDE DEF r, r2, v
  <2>1. Head(r.queue).kind = "data"
    BY <1>11
  <2>2. /\ v = "open"
        /\ Voice(r2, v, Always, f.eos, Never, Never, more, IsServer(i), Past(bound, s))
    BY <1>13, <2>1, TakingCut
  <2>3. Voice(r2, AfterFrame(v, f, peer), Never, f.eos, Never, Never, more,
              IsServer(i), Past(bound, s))
    BY <1>13, VoicePop
  <2> QED
    BY <2>2, <2>3
<1>15. /\ frame.kind = "data" /\ frame.eos = (f.eos /\ f.sz = len)
  BY DEF Frame
<1> HIDE DEF frame
<1>16. IsServer(i) \/ opening = s \/ w[s] # "idle" \/ v2 = w[s]
  BY <1>14
<1>17. CASE f.sz = len
  <2>1. frame.eos = f.eos
    BY <1>10, <1>15, <1>17
  <2>2. v2 = AfterFrame(v, f, peer)
    BY <1>11, <1>15, <2>1 DEF AfterFrame
  <2>3. Voice(j.streams[s], v2, Has(Nothing, s), f.eos, Never, Never, more,
              IsServer(i), Past(bound, s))
    <3>1. Has(Nothing, s) = FALSE /\ Never = FALSE
      BY StreamsType DEF Has, Nothing, Never
    <3> QED
      BY <1>7, <1>14, <2>2, <3>1
  <2> HIDE DEF v2
  <2>4. Popping(i, j, w, s, last, f.eos, bound, opening, v2, Nothing, more)
    BY <1>7, <1>10, <1>12, <1>16, <2>3 DEF Popping
  <2>5. ~(rest > 0)
    BY <1>2, <1>17
  <2> QED
    BY <1>3, <2>4, <2>5, PoppedSpoken DEF v2, c
<1>18. CASE f.sz # len
  <2>1. frame.eos = FALSE
    BY <1>15, <1>18
  <2>2. v2 = v
    BY <1>14, <1>15, <2>1 DEF AfterFrame
  <2>3. Voice(j.streams[s], v2, Has(s, s), f.eos, Never, Never, more,
              IsServer(i), Past(bound, s))
    <3>1. Has(s, s) = TRUE /\ Always = TRUE
      BY DEF Has, Always
    <3> QED
      BY <1>7, <1>14, <2>2, <3>1
  <2> HIDE DEF v2
  <2>4. Popping(i, j, w, s, last, f.eos, bound, opening, v2, s, more)
    BY <1>7, <1>10, <1>12, <1>16, <2>3 DEF Popping
  <2>5. rest > 0
    BY <1>2, <1>18
  <2> QED
    BY <1>3, <2>4, <2>5, PoppedSpoken DEF v2, c
<1> QED
  BY <1>17, <1>18


LEMMA NothingSpoken ==
  ASSUME NEW i, NEW k, NEW w, NEW bound, Legal(k, w, Nothing, Never, bound, 0),
         k.maxStreamId = i.maxStreamId
  PROVE  Spoken(i, w, NothingPopped(k), bound)
<1> DEFINE p == NothingPopped(k)
<1>1. p.inner = k /\ p.stream = Nothing /\ p.rest = 0 /\ p.eos = Never
  BY DEF NothingPopped, Popped, Never
<1> HIDE DEF p
<1>2. Voiced(w, p, i.peer) = w /\ Rests(p) = Nothing
  BY <1>1 DEF Voiced, Rests
<1>3. Spoken(i, w, p, bound)
  BY <1>1, <1>2 DEF Spoken
<1> QED
  BY <1>3 DEF p

\* While no part of a frame is to return, "last" says nothing.
LEMMA RestlessLegal ==
  ASSUME NEW i, NEW w, NEW last \in BOOLEAN, NEW last2 \in BOOLEAN, NEW bound, NEW opening,
         Legal(i, w, Nothing, last, bound, opening)
  PROVE  Legal(i, w, Nothing, last2, bound, opening)
<1>1. i \in InnerRecord /\ (~IsServer(i) => InOrder(i, w, opening) /\ Balanced(i))
  BY DEF Legal
<1>2. ASSUME NEW t \in Streams
      PROVE  Utters(i, w[t], Nothing, last2, bound, opening, t) /\ Apart(i, t)
  <2>1. Utters(i, w[t], Nothing, last, bound, opening, t) /\ Apart(i, t)
    BY LegalAt
  <2>2. ~Has(Nothing, t)
    BY StreamsType DEF Has, Nothing
  <2>3. Utters(i, w[t], Nothing, last2, bound, opening, t)
    BY <2>1, <2>2, UttersOn, SameRefl
  <2> QED
    BY <2>1, <2>3
<1> QED
  BY <1>1, <1>2, LegalFrom

LEMMA SameView ==
  ASSUME NEW w \in [Streams -> Views], NEW s \in Streams
  PROVE  [w EXCEPT ![s] = w[s]] = w
OBVIOUS

\* DATA can only follow HEADERS that were written.
LEMMA DataOpen ==
  ASSUME NEW r, NEW v, NEW more, NEW last, NEW waits, NEW pending, NEW due, NEW server,
         NEW refused, Voice(r, v, more, last, waits, pending, due, server, refused),
         IsStored(r), r.queue \in Seq(Frames), r.queue # <<>>, Head(r.queue).kind = "data"
  PROVE  v = "open" /\ ~waits
<1>1. Says(r, v, more, last, waits, server)
  BY DEF Voice
<1>2. 1 \in 1 .. Len(r.queue) /\ r.queue[1].kind = "data"
  BY TailAt
<1>3. Continues(v, r.queue, 0, r.queue[1], server)
  BY <1>1, <1>2 DEF Says, Script
<1>4. v = "open"
  BY <1>2, <1>3 DEF Continues
<1> QED
  BY <1>1, <1>4 DEF Says

\* No reset is scheduled that a client would have to write.
LEMMA VoiceStays ==
  ASSUME NEW r, NEW v, NEW more \in BOOLEAN, NEW last \in BOOLEAN, NEW waits \in BOOLEAN,
         NEW pending \in BOOLEAN, NEW due \in BOOLEAN, NEW server \in BOOLEAN,
         NEW refused \in BOOLEAN, NEW due2 \in BOOLEAN,
         Voice(r, v, more, last, waits, pending, due, server, refused), IsStored(r),
         ~Discards(r.state)
  PROVE  Voice(r, v, more, last, waits, pending, due2, server, refused)
<1>1. ~server => Cancels(r, due2)
  BY DEF Voice, Cancels
<1> QED
  BY <1>1 DEF Voice

\* The frames of a stream that was reset are discarded.
LEMMA PopDiscardedLegal ==
  ASSUME NEW i, NEW w \in [Streams -> Views], NEW s \in Streams, NEW last \in BOOLEAN,
         NEW bound, NEW opening \in {0, s},
         Legal(i, w, Nothing, last, bound, opening), IsFirst(i, s),
         IsStored(i.streams[s]), i.streams[s].queue # <<>>,
         Head(i.streams[s].queue).kind = "data", DiscardsData(i.streams[s])
  PROVE  LET c == [i EXCEPT !.sendQ = Tail(@)]
             k == [FailSending(c, s) EXCEPT !.sendQ = Push(@, s)]
         IN  Spoken(i, w, NothingPopped(k), bound)
<1> DEFINE c == [i EXCEPT !.sendQ = Tail(@)]
           r == i.streams[s]
           v == w[s]
           f == FailSending(c, s)
           k == [f EXCEPT !.sendQ = Push(@, s)]
           r2 == f.streams[s]
           waits == Awaits(i, opening, s)
<1>1. DOMAIN w = Streams
  OBVIOUS
<1>2. Poppable(i, c, r, v, s, last, bound, opening)
  <2> HIDE DEF f, k, r2
  <2> QED
    BY <1>1, PoppingAt
<1>3. /\ Voice(r, v, Never, last, waits, Never, Due(i, s), IsServer(i), Past(bound, s))
      /\ r \in StreamRecord /\ r.state \in States /\ r.queue \in Seq(Frames)
      /\ i \in InnerRecord
      /\ c \in InnerRecord /\ c.streams = i.streams /\ c.peer = i.peer
      /\ c.openQ = i.openQ
      /\ c.numStreams = i.numStreams /\ c.maxStreamId = i.maxStreamId
      /\ c.sendQ = Tail(i.sendQ) /\ Contains(i.sendQ, s)
  <2> HIDE DEF c, v
  <2> QED
    BY <1>2 DEF Poppable
<1>4. Around(c, f, s) /\ Same(Cleared(c.streams[s]), f.streams[s])
  BY <1>3, FailSendingAround
<1> HIDE DEF c, f
<1>5. /\ r2.place = r.place /\ r2.state = r.state /\ r2.queue = <<>>
      /\ r2.counted = r.counted /\ r2.buffered = 0
  <2>1. r \in StreamRecord /\ c.streams[s] = r
    BY <1>3
  <2> HIDE DEF r
  <2>2. Same(Cleared(r), r2)
    BY <1>4, <2>1
  <2> HIDE DEF r2
  <2> QED
    BY <2>1, <2>2, ClearedFields DEF Same
<1>6. IsStored(r) /\ r.queue # <<>> /\ Head(r.queue).kind = "data" /\ Discards(r.state)
  BY DEF DiscardsData, Discards
<1>7. waits \in BOOLEAN /\ Due(i, s) \in BOOLEAN /\ IsServer(i) \in BOOLEAN
      /\ Past(bound, s) \in BOOLEAN /\ Never \in BOOLEAN /\ Always \in BOOLEAN /\ ~Never /\ Always
  BY Booleans, MoreBooleans, Certainties
<1>8. Firmer(r.state, r2.state) /\ IsClosed(r2.state)
  <2>1. IsClosed(r.state)
    BY <1>3, <1>6, StateKinds
  <2> QED
    BY <1>3, <1>5, <2>1 DEF Firmer
<1>9. Cancels(r2, Always)
  BY <1>5, <1>6, <1>7 DEF Cancels
<1> HIDE DEF waits, v, r, r2
<1>10. ~waits
  BY <1>3, <1>6, DataOpen
<1>11. Voice(r2, v, Never, last, waits, Never, Always, IsServer(i), Past(bound, s))
  <2>1. waits => Past(bound, s) /\ IsReset(r2.state)
    BY <1>10
  <2>2. IsServer(i) \/ Cancels(r2, Always)
    BY <1>9
  <2> QED
    BY <1>3, <1>5, <1>6, <1>7, <1>8, <2>1, <2>2, VoiceCleared
<1>12. Voice(r2, v, Never, last, Never, Never, Always, IsServer(i), Past(bound, s))
  <2>1. Never <=> waits
    BY <1>7, <1>10
  <2> QED
    BY <1>7, <1>11, <2>1, VoiceAs
<1>13. /\ f \in InnerRecord /\ f.peer = i.peer /\ f.openQ = i.openQ /\ f.sendQ \in Seq(Streams)
       /\ f.numStreams = i.numStreams /\ f.maxStreamId = i.maxStreamId
       /\ \A t \in Streams : t # s => Same(c.streams[t], f.streams[t])
       /\ Schedules(c, f)
  BY <1>3, <1>4 DEF Around, InnerRecord
<1>14. /\ Push(f.sendQ, s) \in Seq(Streams)
       /\ \A t \in Streams : Contains(Push(f.sendQ, s), t) <=> Contains(f.sendQ, t) \/ t = s
  BY <1>13, PushQueue
<1>15. /\ k \in InnerRecord /\ k.streams = f.streams /\ k.peer = i.peer /\ k.openQ = i.openQ
       /\ k.numStreams = i.numStreams /\ k.maxStreamId = i.maxStreamId
       /\ k.sendQ = Push(f.sendQ, s)
  BY <1>13, <1>14 DEF InnerRecord
<1> HIDE DEF k
<1>16. \A t \in Streams : t # s =>
         /\ Contains(i.sendQ, t) => Contains(k.sendQ, t)
         /\ Contains(k.sendQ, t) => Contains(i.sendQ, t) \/ ~Contains(i.openQ, t)
  <2>1. /\ \A t \in Streams : Contains(Tail(i.sendQ), t) => Contains(i.sendQ, t)
        /\ \A t \in Streams : Contains(i.sendQ, t) => t = s \/ Contains(Tail(i.sendQ), t)
    <3>1. i.sendQ \in Seq(Streams)
      BY LegalTypes
    <3> QED
      BY <3>1, FirstAt
  <2> QED
    BY <1>3, <1>13, <1>14, <1>15, <2>1 DEF Schedules
<1>17. \A t \in Streams : t # s => Same(i.streams[t], k.streams[t])
  BY <1>3, <1>13, <1>15
<1>18. Due(k, s)
  BY <1>14, <1>15 DEF Due
<1>19. Has(Nothing, s) = FALSE /\ Never = FALSE /\ Nothing \in {0, s}
  BY StreamsType DEF Has, Nothing, Never
<1>20. Voice(k.streams[s], v, Has(Nothing, s), last, Never, Never, Always,
             IsServer(i), Past(bound, s))
  BY <1>12, <1>15, <1>19 DEF r2
<1>21. k.streams[s].place = i.streams[s].place /\ k.streams[s].counted = i.streams[s].counted
  BY <1>5, <1>15 DEF r2, r
<1>22. IsServer(i) \/ opening = s \/ w[s] # "idle" \/ v = w[s]
  BY DEF v
<1>23. Speaking(i, k, w, s, last, last, bound, opening, v, Nothing, Always)
  BY <1>1, <1>3, <1>7, <1>15, <1>16, <1>17, <1>18, <1>19, <1>20, <1>21, <1>22 DEF Speaking
<1>24. Legal(k, [w EXCEPT ![s] = v], Nothing, last, bound, 0)
  BY <1>23, SpokenLegal
<1>25. Legal(k, w, Nothing, last, bound, 0)
  BY <1>24, SameView DEF v
<1>26. Legal(k, w, Nothing, Never, bound, 0)
  BY <1>7, <1>25, RestlessLegal
<1> QED
  BY <1>15, <1>26, NothingSpoken DEF k, f, c


\* The reset that was scheduled is written.
LEMMA PopScheduledResetLegal ==
  ASSUME NEW i, NEW w, NEW s \in Streams, NEW last \in BOOLEAN, NEW bound,
         NEW opening \in {0, s}, Legal(i, w, Nothing, last, bound, opening), IsFirst(i, s),
         DOMAIN w = Streams, IsStored(i.streams[s]), i.streams[s].queue = <<>>,
         IsScheduledReset(i.streams[s].state)
  PROVE  Spoken(i, w, PopScheduledReset([i EXCEPT !.sendQ = Tail(@)], s), bound)
<1> DEFINE r == i.streams[s]
           st2 == SetReset("LocalReset")
           r2 == WithState(r, st2)
           c == [i EXCEPT !.sendQ = Tail(@)]
           j == [c EXCEPT !.streams[s].state = st2]
           v == w[s]
           peer == i.peer
           v2 == AfterFrame(v, ResetFrame, peer)
           waits == Awaits(i, opening, s)
           more == Never
<1>1. Poppable(i, c, r, v, s, last, bound, opening)
  <2> HIDE DEF j
  <2> QED
    BY PoppingAt
<1>2. /\ Voice(r, v, Never, last, waits, Never, Due(i, s), IsServer(i), Past(bound, s))
      /\ waits => opening = s
      /\ r \in StreamRecord /\ r.state \in States
      /\ i \in InnerRecord
      /\ c \in InnerRecord /\ c.streams = i.streams /\ c.peer = i.peer
      /\ c.openQ = i.openQ
      /\ c.numStreams = i.numStreams /\ c.maxStreamId = i.maxStreamId
      /\ c.sendQ = Tail(i.sendQ)
  <2> HIDE DEF c, v, j
  <2> QED
    BY <1>1 DEF Poppable
<1>3. st2 \in States /\ ~IsScheduledReset(st2)
  BY <1>2, EndingSpeech DEF Errors, LocalErrors, Calmer, Firmer
<1>4. PopScheduledReset(c, s) = Popped(Requeue(j, s), s, ResetFrame, 0, FALSE)
  BY DEF PopScheduledReset
<1> HIDE DEF c
<1>5. /\ r2 \in StreamRecord /\ r2.state = st2 /\ r2.place = r.place /\ r2.queue = r.queue
      /\ r2.counted = r.counted
  <2> HIDE DEF r, st2
  <2> QED
    BY <1>2, <1>3, WithStateFields, RecordTypes, ResetFrameIn
<1>6. st2 = SetReset("LocalReset")
  OBVIOUS
<1> HIDE DEF st2
<1>7. j = [c EXCEPT !.streams = [c.streams EXCEPT ![s] = r2]]
  BY <1>2 DEF InnerRecord, WithState
<1> HIDE DEF r2, j, r
<1>8. /\ j \in InnerRecord /\ j.streams[s] = r2 /\ j.peer = i.peer /\ j.openQ = i.openQ
      /\ j.numStreams = i.numStreams /\ j.maxStreamId = i.maxStreamId
      /\ j.sendQ = Tail(i.sendQ)
      /\ \A t \in Streams : t # s => j.streams[t] = i.streams[t]
  BY <1>2, <1>5, <1>7 DEF InnerRecord
<1>9. IsServer(i) <=> peer = "server"
  BY DEF IsServer
<1>10. r.queue = <<>> /\ IsScheduledReset(r.state) /\ IsStored(r) /\ v = w[s]
       /\ r2.queue = <<>>
  BY <1>5 DEF r
<1> HIDE DEF v, waits, peer
<1>11. /\ Voice(r2, v2, Never, Never, Never, Never, more, IsServer(i), Past(bound, s))
       /\ IsServer(i) \/ waits \/ v # "idle"
  <2>1. /\ IsServer(i) <=> peer = "server"
        /\ Voice(r, v, Never, last, waits, Never, Due(i, s), IsServer(i), Past(bound, s))
        /\ IsStored(r) /\ r.queue = <<>> /\ IsScheduledReset(r.state) /\ r.state \in States
        /\ r2.place = r.place /\ r2.queue = <<>> /\ r2.counted = r.counted
        /\ r2.state = SetReset("LocalReset")
    BY <1>2, <1>5, <1>6, <1>9, <1>10
  <2> HIDE DEF more
  <2>2. /\ Voice(r2, AfterFrame(v, ResetFrame, peer), Never, Never, Never, Never, more,
                 IsServer(i), Past(bound, s))
        /\ IsServer(i) \/ waits \/ v # "idle"
    BY <2>1, VoiceCancel, SMTT(60)
  <2> QED
    BY <2>2
<1> HIDE DEF v2
<1>12. Voice(j.streams[s], v2, Has(Nothing, s), Never, Never, Never, more,
             IsServer(i), Past(bound, s))
  <2>1. Has(Nothing, s) = FALSE /\ Never = FALSE
    BY StreamsType DEF Has, Nothing, Never
  <2> QED
    BY <1>8, <1>11, <2>1
<1>13. /\ more <=> j.streams[s].queue # <<>> \/ IsScheduledReset(j.streams[s].state)
       /\ more \in BOOLEAN /\ Nothing \in {0, s} /\ Never \in BOOLEAN
  BY <1>3, <1>5, <1>8, <1>10, Certainties DEF Nothing
<1>14. j.streams[s].place = i.streams[s].place /\ j.streams[s].counted = i.streams[s].counted
  BY <1>5, <1>8 DEF r
<1>15. IsServer(i) \/ opening = s \/ w[s] # "idle" \/ v2 = w[s]
  BY <1>2, <1>10, <1>11
<1>16. Popping(i, j, w, s, last, Never, bound, opening, v2, Nothing, more)
  BY <1>2, <1>8, <1>12, <1>13, <1>14, <1>15 DEF Popping
<1>17. Popping(i, j, w, s, last, Never, bound, opening, AfterFrame(w[s], ResetFrame, i.peer),
               Nothing, more)
  BY <1>16 DEF v2, v, peer
<1>18. Spoken(i, w, Popped(Requeue(j, s), s, ResetFrame, 0, Never), bound)
  BY <1>17, PoppedSpoken
<1> QED
  BY <1>4, <1>18 DEF c, Never

\* The stream leaves pending_send, and nothing else changes.
LEMMA LeaveSendLegal ==
  ASSUME NEW i, NEW w \in [Streams -> Views], NEW s \in Streams, NEW last \in BOOLEAN,
         NEW bound, NEW opening \in {0, s},
         Legal(i, w, Nothing, last, bound, opening), IsFirst(i, s), IsStored(i.streams[s]),
         NEW last2 \in BOOLEAN,
         Voice(i.streams[s], w[s], Never, last2, Never, Never, Never, IsServer(i), Past(bound, s))
  PROVE  LET c == [i EXCEPT !.sendQ = Tail(@)]
         IN  /\ Legal(c, w, Nothing, Never, bound, 0) /\ c.maxStreamId = i.maxStreamId
             /\ c.streams = i.streams
<1> DEFINE c == [i EXCEPT !.sendQ = Tail(@)]
           r == i.streams[s]
           v == w[s]
<1>1. DOMAIN w = Streams
  OBVIOUS
<1>2. Poppable(i, c, r, v, s, last, bound, opening)
  BY <1>1, PoppingAt
<1>3. /\ i \in InnerRecord
      /\ c \in InnerRecord /\ c.streams = i.streams /\ c.peer = i.peer
      /\ c.openQ = i.openQ
      /\ c.numStreams = i.numStreams /\ c.maxStreamId = i.maxStreamId
      /\ c.sendQ = Tail(i.sendQ) /\ Contains(i.sendQ, s)
  <2> HIDE DEF c, v, r
  <2> QED
    BY <1>2 DEF Poppable
<1> HIDE DEF c
<1>4. \A t \in Streams : t # s =>
         /\ Contains(i.sendQ, t) => Contains(c.sendQ, t)
         /\ Contains(c.sendQ, t) => Contains(i.sendQ, t) \/ ~Contains(i.openQ, t)
  <2>1. i.sendQ \in Seq(Streams)
    BY LegalTypes
  <2> QED
    BY <1>3, <2>1, FirstAt
<1>5. \A t \in Streams : t # s => Same(i.streams[t], c.streams[t])
  BY <1>3, SameRefl
<1>6. Has(Nothing, s) = FALSE /\ Never = FALSE /\ Nothing \in {0, s}
  BY StreamsType DEF Has, Nothing, Never
<1>7. Voice(c.streams[s], v, Has(Nothing, s), last2, Never, Never, Never,
            IsServer(i), Past(bound, s))
  BY <1>3, <1>6
<1>8. /\ c.streams[s].place = i.streams[s].place /\ c.streams[s].counted = i.streams[s].counted
      /\ IsServer(i) \/ opening = s \/ w[s] # "idle" \/ v = w[s]
      /\ Never \in BOOLEAN /\ ~Never
  BY <1>3, Certainties
<1> HIDE DEF v
<1>9. Speaking(i, c, w, s, last, last2, bound, opening, v, Nothing, Never)
  BY <1>1, <1>3, <1>4, <1>5, <1>6, <1>7, <1>8 DEF Speaking
<1>10. Legal(c, [w EXCEPT ![s] = v], Nothing, last2, bound, 0)
  BY <1>9, SpokenLegal
<1>11. Legal(c, w, Nothing, last2, bound, 0)
  BY <1>10, SameView DEF v
<1>12. Legal(c, w, Nothing, Never, bound, 0)
  BY <1>8, <1>11, RestlessLegal
<1> QED
  BY <1>3, <1>12 DEF c

\* DATA for which there is no capacity.
LEMMA PopBlockedLegal ==
  ASSUME NEW i, NEW w \in [Streams -> Views], NEW s \in Streams, NEW last \in BOOLEAN,
         NEW bound, NEW opening \in {0, s},
         Legal(i, w, Nothing, last, bound, opening), IsFirst(i, s), IsStored(i.streams[s]),
         i.streams[s].queue # <<>>, Head(i.streams[s].queue).kind = "data",
         ~DiscardsData(i.streams[s])
  PROVE  Spoken(i, w, NothingPopped([i EXCEPT !.sendQ = Tail(@)]), bound)
<1> DEFINE c == [i EXCEPT !.sendQ = Tail(@)]
           r == i.streams[s]
           v == w[s]
           waits == Awaits(i, opening, s)
<1>1. DOMAIN w = Streams
  OBVIOUS
<1>2. Poppable(i, c, r, v, s, last, bound, opening)
  BY <1>1, PoppingAt
<1>3. /\ Voice(r, v, Never, last, waits, Never, Due(i, s), IsServer(i), Past(bound, s))
      /\ r \in StreamRecord /\ r.queue \in Seq(Frames)
  <2> HIDE DEF c, v
  <2> QED
    BY <1>2 DEF Poppable
<1>4. IsStored(r) /\ r.queue # <<>> /\ Head(r.queue).kind = "data" /\ ~Discards(r.state)
  BY DEF DiscardsData, Discards
<1>5. waits \in BOOLEAN /\ Due(i, s) \in BOOLEAN /\ IsServer(i) \in BOOLEAN
      /\ Past(bound, s) \in BOOLEAN /\ Never \in BOOLEAN /\ ~Never
  BY Booleans, MoreBooleans, Certainties
<1> HIDE DEF r, v, waits, c
<1>6. ~waits
  BY <1>3, <1>4, DataOpen
<1>7. Voice(r, v, Never, last, waits, Never, Never, IsServer(i), Past(bound, s))
  BY <1>3, <1>4, <1>5, VoiceStays
<1>8. Voice(r, v, Never, last, Never, Never, Never, IsServer(i), Past(bound, s))
  <2>1. Never <=> waits
    BY <1>5, <1>6
  <2> QED
    BY <1>5, <1>7, <2>1, VoiceAs
<1>9. Legal(c, w, Nothing, Never, bound, 0) /\ c.maxStreamId = i.maxStreamId
  BY <1>8, LeaveSendLegal DEF c, r, v
<1> QED
  BY <1>9, NothingSpoken DEF c

\* A stream without frames.
LEMMA PopEmptyLegal ==
  ASSUME NEW i, NEW w \in [Streams -> Views], NEW s \in Streams, NEW last \in BOOLEAN,
         NEW bound, NEW opening \in {0, s},
         Legal(i, w, Nothing, last, bound, opening), IsFirst(i, s), IsStored(i.streams[s]),
         i.streams[s].queue = <<>>, ~IsScheduledReset(i.streams[s].state)
  PROVE  LET c == [i EXCEPT !.sendQ = Tail(@)]
         IN  Spoken(i, w, NothingPopped(TransitionAfter(c, s, IsPendingReset(c, s))), bound)
<1> DEFINE c == [i EXCEPT !.sendQ = Tail(@)]
           r == i.streams[s]
           v == w[s]
           waits == Awaits(i, opening, s)
           wasReset == IsPendingReset(c, s)
           k == TransitionAfter(c, s, wasReset)
<1>1. DOMAIN w = Streams
  OBVIOUS
<1>2. Poppable(i, c, r, v, s, last, bound, opening)
  <2> HIDE DEF k, wasReset
  <2> QED
    BY <1>1, PoppingAt
<1>3. Voice(r, v, Never, last, waits, Never, Due(i, s), IsServer(i), Past(bound, s))
  <2> HIDE DEF c, v
  <2> QED
    BY <1>2 DEF Poppable
<1>4. /\ IsStored(r) /\ r.queue = <<>> /\ (IsServer(i) \/ ~IsScheduledReset(r.state))
      /\ wasReset \in BOOLEAN /\ Never \in BOOLEAN
  BY Certainties DEF IsPendingReset, Contains
<1> HIDE DEF r, v, waits, c, wasReset, k
<1>5. Voice(r, v, Never, last, Never, Never, Never, IsServer(i), Past(bound, s))
  BY <1>3, <1>4, VoiceQuit
<1>6. /\ Legal(c, w, Nothing, Never, bound, 0) /\ c.maxStreamId = i.maxStreamId
      /\ c.streams = i.streams
  BY <1>5, LeaveSendLegal DEF c, r, v
<1>7. IsStored(c.streams[s])
  BY <1>6
<1>8. Legal(k, w, Nothing, Never, bound, 0) /\ k.maxStreamId = c.maxStreamId
  BY <1>4, <1>6, <1>7, TransitionLegal DEF k
<1>9. k.maxStreamId = i.maxStreamId
  BY <1>6, <1>8
<1> QED
  BY <1>8, <1>9, NothingSpoken DEF k, wasReset, c

\* One turn of pop_frame.
LEMMA PopNextLegal ==
  ASSUME NEW i, NEW w \in [Streams -> Views], NEW last \in BOOLEAN, NEW low,
         NEW bound, NEW opening, opening \in {0, Head(i.sendQ)},
         Legal(i, w, Nothing, last, bound, opening), i.sendQ # <<>>,
         Sound(i, Behind(Nothing, 0), low, 0)
  PROVE  Spoken(i, w, PopNext(i), bound)
<1>1. PICK s \in Streams : s = Head(i.sendQ) /\ IsStored(i.streams[s])
  BY PopSendSound
<1>2. IsFirst(i, s) /\ opening \in {0, s} /\ DOMAIN w = Streams
  BY <1>1 DEF IsFirst
<1> DEFINE r == i.streams[s]
           c == [i EXCEPT !.sendQ = Tail(@)]
           data == r.queue # <<>> /\ Head(r.queue).kind = "data"
<1>3. PopNext(i) =
        CASE data /\ DiscardsData(r) ->
               NothingPopped([FailSending(c, s) EXCEPT !.sendQ = Push(@, s)])
          [] data /\ ~DiscardsData(r) ->
               IF IsBlocked(r) THEN NothingPopped(c) ELSE PopData(c, s)
          [] ~data /\ r.queue # <<>> -> PopOther(c, s)
          [] r.queue = <<>> /\ IsScheduledReset(r.state) -> PopScheduledReset(c, s)
          [] OTHER -> NothingPopped(TransitionAfter(c, s, IsPendingReset(c, s)))
  BY <1>1 DEF PopNext
<1>4. IsStored(r)
  BY <1>1
<1>5. CASE data /\ DiscardsData(r)
  <2>1. PopNext(i) = NothingPopped([FailSending(c, s) EXCEPT !.sendQ = Push(@, s)])
    BY <1>3, <1>5
  <2>2. Spoken(i, w, NothingPopped([FailSending(c, s) EXCEPT !.sendQ = Push(@, s)]), bound)
    BY <1>2, <1>4, <1>5, PopDiscardedLegal, ZenonT(60)
  <2> QED
    BY <2>1, <2>2
<1>6. CASE data /\ ~DiscardsData(r) /\ IsBlocked(r)
  <2>1. PopNext(i) = NothingPopped(c)
    BY <1>3, <1>6
  <2>2. Spoken(i, w, NothingPopped(c), bound)
    BY <1>2, <1>4, <1>6, PopBlockedLegal, ZenonT(60)
  <2> QED
    BY <2>1, <2>2
<1>7. CASE data /\ ~DiscardsData(r) /\ ~IsBlocked(r)
  <2>1. PopNext(i) = PopData(c, s)
    BY <1>3, <1>7
  <2>2. Spoken(i, w, PopData(c, s), bound)
    BY <1>2, <1>4, <1>7, PopDataLegal, ZenonT(60)
  <2> QED
    BY <2>1, <2>2
<1>8. CASE ~data /\ r.queue # <<>>
  <2>1. PopNext(i) = PopOther(c, s)
    BY <1>3, <1>8
  <2>2. Spoken(i, w, PopOther(c, s), bound)
    BY <1>2, <1>4, <1>8, PopOtherLegal, ZenonT(60)
  <2> QED
    BY <2>1, <2>2
<1>9. CASE r.queue = <<>> /\ IsScheduledReset(r.state)
  <2>1. PopNext(i) = PopScheduledReset(c, s)
    BY <1>3, <1>9
  <2>2. Spoken(i, w, PopScheduledReset(c, s), bound)
    BY <1>2, <1>4, <1>9, PopScheduledResetLegal, ZenonT(60)
  <2> QED
    BY <2>1, <2>2
<1>10. CASE r.queue = <<>> /\ ~IsScheduledReset(r.state)
  <2>1. PopNext(i) = NothingPopped(TransitionAfter(c, s, IsPendingReset(c, s)))
    BY <1>3, <1>10
  <2>2. Spoken(i, w, NothingPopped(TransitionAfter(c, s, IsPendingReset(c, s))), bound)
    BY <1>2, <1>4, <1>10, PopEmptyLegal, ZenonT(60)
  <2> QED
    BY <2>1, <2>2
<1> QED
  BY <1>5, <1>6, <1>7, <1>8, <1>9, <1>10


----------------------------------------------------------------------------
(* Opening a stream of a client.                                           *)

\* The stream takes its slot.
LEMMA VoiceCounted ==
  ASSUME NEW r, NEW r2, NEW v, NEW more, NEW last, NEW waits, NEW pending, NEW due,
         NEW server, NEW refused, NEW due2,
         Voice(r, v, more, last, waits, pending, due, server, refused), IsStored(r), waits,
         due => due2, r2.place = r.place, r2.state = r.state, r2.queue = r.queue,
         r2.buffered = r.buffered, r2.counted
  PROVE  Voice(r2, v, more, last, waits, Never, due2, server, refused)
BY DEF Voice, Says, Opens, Cancels, IsStored, IsFlushed, Never

\* Capacity moves while a stream is opened.
LEMMA QuietLegal ==
  ASSUME NEW i, NEW j, NEW w, NEW holder, NEW last \in BOOLEAN, NEW bound, NEW opening,
         Legal(i, w, holder, last, bound, opening), Quiet(i, j)
  PROVE  Legal(j, w, holder, last, bound, opening)
<1>1. /\ j \in InnerRecord /\ j.openQ = i.openQ /\ j.numStreams = i.numStreams
      /\ IsServer(j) = IsServer(i)
      /\ \A t \in Streams : Same(i.streams[t], j.streams[t])
      /\ Schedules(i, j)
  BY DEF Quiet, IsServer
<1>2. ASSUME NEW t \in Streams
      PROVE  Utters(j, w[t], holder, last, bound, opening, t) /\ Apart(j, t)
  <2>1. Utters(i, w[t], holder, last, bound, opening, t) /\ Apart(i, t)
    BY LegalAt
  <2>2. /\ Waiting(j, t) <=> Waiting(i, t)
        /\ Awaits(j, opening, t) <=> Awaits(i, opening, t)
        /\ Due(i, t) => Due(j, t)
        /\ Apart(j, t)
    BY <1>1, <2>1 DEF Waiting, Awaits, Due, Schedules, Apart
  <2>3. Utters(j, w[t], holder, last, bound, opening, t)
    BY <1>1, <2>1, <2>2, UttersOn
  <2> QED
    BY <2>2, <2>3
<1>3. ~IsServer(j) => InOrder(j, w, opening) /\ Balanced(j)
  <2>1. ~IsServer(i) => InOrder(i, w, opening) /\ Balanced(i)
    BY DEF Legal
  <2>2. \A t \in Streams : /\ j.streams[t].place = i.streams[t].place
                           /\ j.streams[t].counted = i.streams[t].counted
    BY <1>1 DEF Same
  <2>3. InOrder(i, w, opening) => InOrder(j, w, opening)
    BY <1>1, <2>2 DEF InOrder
  <2> QED
    BY <1>1, <2>1, <2>2, <2>3, BalanceKept
<1> QED
  BY <1>1, <1>2, <1>3, LegalFrom

\* The first stream of pending_open becomes the first of pending_send.
LaunchedFrom(i, d, s) ==
  /\ d \in InnerRecord /\ s \in Streams
  /\ d.peer = i.peer /\ d.maxStreamId = i.maxStreamId /\ d.inFlight = i.inFlight
  /\ d.openQ = Tail(i.openQ) /\ d.numStreams = i.numStreams + 1
  /\ d.sendQ = PushFront(i.sendQ, s)
  /\ \A t \in Streams : t # s => d.streams[t] = i.streams[t]
  /\ LET r == i.streams[s]
         r2 == d.streams[s]
     IN  /\ r2.place = r.place /\ r2.state = r.state /\ r2.queue = r.queue
         /\ r2.buffered = r.buffered /\ r2.counted /\ Takes(r2) = 1

LEMMA LaunchFields ==
  ASSUME NEW i \in InnerRecord, NEW s \in Streams, i.openQ # <<>>
  PROVE  LaunchedFrom(i, [i EXCEPT !.openQ = Tail(@), !.numStreams = @ + 1,
                                   !.streams[s].counted = TRUE, !.sendQ = PushFront(@, s)], s)
<1> DEFINE r == i.streams[s]
           r2 == Counted(r)
           strs == [i.streams EXCEPT ![s] = r2]
           o == Tail(i.openQ)
           q == PushFront(i.sendQ, s)
           n == i.numStreams + 1
           d == [i EXCEPT !.openQ = Tail(@), !.numStreams = @ + 1,
                          !.streams[s].counted = TRUE, !.sendQ = PushFront(@, s)]
<1>1. /\ i.streams \in [Streams -> StreamRecord] /\ r \in StreamRecord
      /\ i.sendQ \in Seq(Streams) /\ i.openQ \in Seq(Streams) /\ i.numStreams \in Int
  BY DEF InnerRecord
<1>2. o \in Seq(Streams) /\ q \in Seq(Streams) /\ n \in Int
  <2> DEFINE iq == i.openQ
             sq == i.sendQ
  <2>1. iq \in Seq(Streams) /\ sq \in Seq(Streams) /\ iq # <<>>
    BY <1>1
  <2>2. n \in Int
    BY <1>1
  <2> HIDE DEF iq, sq
  <2>3. Tail(iq) \in Seq(Streams)
    BY <2>1
  <2>4. PushFront(sq, s) \in Seq(Streams)
    BY <2>1, PushFrontQueue
  <2> QED
    BY <2>2, <2>3, <2>4 DEF iq, sq
<1>3. /\ r2 \in StreamRecord /\ r2.place = r.place /\ r2.state = r.state /\ r2.queue = r.queue
      /\ r2.buffered = r.buffered /\ r2.counted /\ Takes(r2) = 1
  BY <1>1, CountedFields DEF Takes, Counted, StreamRecord
<1>4. d = [i EXCEPT !.openQ = o, !.numStreams = n, !.streams = strs, !.sendQ = q]
  BY DEF InnerRecord, Counted
<1> HIDE DEF d, r2
<1>5. strs \in [Streams -> StreamRecord] /\ strs[s] = r2
      /\ \A t \in Streams : t # s => strs[t] = i.streams[t]
  BY <1>1, <1>3
<1> HIDE DEF strs, o, q, n
<1>6. /\ d \in InnerRecord /\ d.peer = i.peer /\ d.maxStreamId = i.maxStreamId
      /\ d.inFlight = i.inFlight /\ d.openQ = o /\ d.numStreams = n /\ d.sendQ = q
      /\ d.streams = strs
  BY <1>2, <1>4, <1>5 DEF InnerRecord
<1>7. LaunchedFrom(i, d, s)
  <2> HIDE DEF r
  <2>1. /\ d.streams[s].place = r.place /\ d.streams[s].state = r.state
        /\ d.streams[s].queue = r.queue /\ d.streams[s].buffered = r.buffered
        /\ d.streams[s].counted /\ Takes(d.streams[s]) = 1
    BY <1>3, <1>5, <1>6
  <2> QED
    BY <1>5, <1>6, <2>1 DEF LaunchedFrom, o, q, n, r
<1> QED
  BY <1>7 DEF d

\* The stream that pending_open gives up next.
IsNextOpen(i, s) == i.openQ # <<>> /\ s = Head(i.openQ)
Shifted(i, d) ==
  /\ i.openQ \in Seq(Streams) /\ d.openQ = Tail(i.openQ)
  /\ \A t \in Streams : d.streams[t].place = i.streams[t].place

\* pending_open is in the order of the identifiers.
LEMMA InOrderTail ==
  ASSUME NEW i, NEW d, NEW w, NEW s, InOrder(i, w, 0),
         IsNextOpen(i, s), Shifted(i, d)
  PROVE  /\ InOrder(d, w, s) /\ ~Contains(d.openQ, s)
         /\ \A t \in Streams : t # s => (Contains(d.openQ, t) <=> Contains(i.openQ, t))
<1> DEFINE q == i.openQ
           p == d.openQ
<1>0. /\ q # <<>> /\ s = Head(q) /\ q \in Seq(Streams) /\ p = Tail(q)
      /\ \A t \in Streams : d.streams[t].place = i.streams[t].place
  BY DEF IsNextOpen, Shifted
<1>1. /\ p \in Seq(Streams) /\ Len(p) = Len(q) - 1 /\ Len(q) \in Nat \ {0}
      /\ \A k \in 1 .. Len(p) : p[k] = q[k + 1]
      /\ Head(q) = q[1] /\ s = q[1] /\ s \in Streams
  BY <1>0
<1>2. /\ Contains(q, s)
      /\ \A t \in Streams : Contains(p, t) => Contains(q, t)
      /\ \A t \in Streams : Contains(q, t) => t = s \/ Contains(p, t)
  <2>1. q \in Seq(Streams) /\ q # <<>> /\ s = Head(q) /\ p = Tail(q)
    BY <1>0
  <2> HIDE DEF p, q
  <2> QED
    BY <2>1, TailQueue
<1>3. \A k, l \in 1 .. Len(q) : k < l => q[k] < q[l]
  BY DEF InOrder
<1>4. \A k, l \in 1 .. Len(p) : k < l => p[k] < p[l]
  <2> SUFFICES ASSUME NEW k \in 1 .. Len(p), NEW l \in 1 .. Len(p), k < l
               PROVE  p[k] < p[l]
    OBVIOUS
  <2> HIDE DEF p, q
  <2>1. k + 1 \in 1 .. Len(q) /\ l + 1 \in 1 .. Len(q) /\ k + 1 < l + 1
    BY <1>1
  <2> QED
    BY <1>1, <1>3, <2>1
<1>5. \A t \in Streams : Contains(p, t) => s < t
  <2> SUFFICES ASSUME NEW t \in Streams, Contains(p, t) PROVE s < t
    OBVIOUS
  <2> HIDE DEF p, q
  <2>1. PICK k \in 1 .. Len(p) : p[k] = t
    BY DEF Contains
  <2>2. k + 1 \in 1 .. Len(q) /\ 1 \in 1 .. Len(q) /\ 1 < k + 1
    BY <1>1, <2>1
  <2> QED
    BY <1>1, <1>3, <2>1, <2>2
<1>6. ~Contains(p, s)
  BY <1>1, <1>5, StreamsType
<1>7. \A a, t \in Streams : Contains(p, a) \/ s = a => (w[t] # "idle" => t < a)
  <2>1. \A a, t \in Streams : Contains(q, a) \/ 0 = a => (w[t] # "idle" => t < a)
    BY DEF InOrder
  <2> HIDE DEF p, q
  <2> QED
    BY <1>2, <2>1
<1>8. \A a, t \in Streams : a < t /\ d.streams[a].place = "new" => d.streams[t].place = "new"
  BY <1>0 DEF InOrder
<1>9. InOrder(d, w, s)
  BY <1>4, <1>5, <1>7, <1>8 DEF InOrder
<1> QED
  BY <1>2, <1>6, <1>9

LEMMA LaunchLegal ==
  ASSUME NEW i, NEW d, NEW w, NEW s \in Streams, NEW last \in BOOLEAN, NEW bound,
         Legal(i, w, Nothing, last, bound, 0), IsNextOpen(i, s),
         ~IsServer(i), IsStored(i.streams[s]), LaunchedFrom(i, d, s)
  PROVE  /\ Legal(d, w, Nothing, last, bound, s)
         /\ d.sendQ # <<>> /\ Head(d.sendQ) = s /\ Contains(d.sendQ, s)
<1>1. /\ i \in InnerRecord /\ i.openQ \in Seq(Streams) /\ i.sendQ \in Seq(Streams)
      /\ i.numStreams \in Int
  BY LegalTypes
<1>2. /\ d \in InnerRecord /\ d.peer = i.peer /\ d.openQ = Tail(i.openQ)
      /\ d.numStreams = i.numStreams + 1 /\ d.sendQ = PushFront(i.sendQ, s)
      /\ \A t \in Streams : t # s => d.streams[t] = i.streams[t]
  BY DEF LaunchedFrom
<1> DEFINE r == i.streams[s]
           r2 == d.streams[s]
<1>3. /\ r2.place = r.place /\ r2.state = r.state /\ r2.queue = r.queue
      /\ r2.buffered = r.buffered /\ r2.counted /\ Takes(r2) = 1
  BY DEF LaunchedFrom
<1>4. Contains(i.openQ, s)
  <2>1. Contains(i.openQ, Head(i.openQ))
    BY <1>1, TailQueue DEF IsNextOpen
  <2> QED
    BY <2>1 DEF IsNextOpen
<1>5. ~IsServer(d) /\ InOrder(i, w, 0) /\ Balanced(i)
  BY <1>2, LegalAt DEF IsServer
<1>6. /\ InOrder(d, w, s) /\ ~Contains(d.openQ, s)
      /\ \A t \in Streams : t # s => (Contains(d.openQ, t) <=> Contains(i.openQ, t))
  <2>1. Shifted(i, d)
    BY <1>1, <1>2, <1>3 DEF Shifted
  <2> HIDE DEF r, r2
  <2> QED
    BY <1>5, <2>1, InOrderTail
<1>7. \A t \in Streams : Contains(d.sendQ, t) <=> Contains(i.sendQ, t) \/ t = s
  <2> DEFINE q == i.sendQ
  <2>1. q \in Seq(Streams) /\ d.sendQ = PushFront(q, s)
    BY <1>1, <1>2
  <2> HIDE DEF q, r, r2
  <2>2. \A t \in Streams : Contains(PushFront(q, s), t) <=> Contains(q, t) \/ t = s
    BY <2>1, PushFrontQueue
  <2> QED
    BY <2>1, <2>2 DEF q
<1>8. ~Contains(i.sendQ, s)
  BY <1>4, LegalAt DEF Apart
<1>9. d.sendQ # <<>> /\ Head(d.sendQ) = s
  <2>1. d.sendQ = <<s>> \o i.sendQ
    BY <1>2, <1>8 DEF PushFront
  <2> QED
    BY <1>1, <2>1
<1>10. ASSUME NEW t \in Streams, t # s
       PROVE  Utters(d, w[t], Nothing, last, bound, s, t) /\ Apart(d, t)
  <2>1. Utters(i, w[t], Nothing, last, bound, 0, t) /\ Apart(i, t)
    BY LegalAt
  <2>2. /\ Waiting(d, t) <=> Waiting(i, t)
        /\ Awaits(d, s, t) <=> Awaits(i, 0, t)
        /\ Due(i, t) => Due(d, t)
        /\ Apart(d, t)
    BY <1>6, <1>7, <1>10, <2>1, StreamsType DEF Waiting, Awaits, Due, Apart
  <2>3. Same(i.streams[t], d.streams[t]) /\ (IsServer(d) <=> IsServer(i))
    BY <1>2, <1>5, <1>10, SameRefl
  <2>4. Utters(d, w[t], Nothing, last, bound, s, t)
    BY <2>1, <2>2, <2>3, UttersOn
  <2> QED
    BY <2>2, <2>4
<1>11. Utters(d, w[s], Nothing, last, bound, s, s) /\ Apart(d, s)
  <2>1. Utters(i, w[s], Nothing, last, bound, 0, s)
    BY LegalAt
  <2>2. Voice(r, w[s], Has(Nothing, s), last, Awaits(i, 0, s), Waiting(i, s), Due(i, s),
              IsServer(i), Past(bound, s))
    BY <2>1 DEF Utters
  <2>3. Awaits(i, 0, s) /\ Due(d, s) /\ ~Waiting(d, s) /\ Awaits(d, s, s)
    BY <1>4, <1>6, <1>7 DEF Awaits, Due, Waiting
  <2>4. IsStored(r)
    OBVIOUS
  <2> HIDE DEF r, r2
  <2>5. Voice(r2, w[s], Has(Nothing, s), last, Awaits(i, 0, s), Never, Due(d, s),
              IsServer(i), Past(bound, s))
    BY <1>3, <2>2, <2>3, <2>4, VoiceCounted
  <2>6. /\ Has(Nothing, s) \in BOOLEAN /\ Waiting(d, s) \in BOOLEAN /\ Due(d, s) \in BOOLEAN
        /\ IsServer(i) \in BOOLEAN /\ Past(bound, s) \in BOOLEAN
        /\ IsServer(d) \in BOOLEAN /\ Awaits(d, s, s) \in BOOLEAN /\ Awaits(i, 0, s) \in BOOLEAN
        /\ Waiting(d, s) <=> Never
        /\ IsServer(d) <=> IsServer(i)
        /\ Awaits(d, s, s) <=> Awaits(i, 0, s)
    BY <1>5, <2>3, Booleans, MoreBooleans, Certainties
  <2>7. Voice(r2, w[s], Has(Nothing, s), last, Awaits(d, s, s), Waiting(d, s), Due(d, s),
              IsServer(d), Past(bound, s))
    BY <2>5, <2>6, VoiceAs
  <2> QED
    BY <1>6, <2>7 DEF Utters, Apart, r2
<1>12. Balanced(d)
  <2>1. ~r.counted
    <3>1. Utters(i, w[s], Nothing, last, bound, 0, s)
      BY LegalAt
    <3> QED
      BY <1>4, <3>1 DEF Utters, Voice, Opens, Waiting
  <2>2. Takes(r) = 0 /\ Takes(r2) = 1
    BY <1>3, <2>1 DEF Takes
  <2>3. Taken(d.streams) = Taken(i.streams) + Takes(d.streams[s]) - Takes(i.streams[s])
        /\ Taken(i.streams) \in Nat
    BY <1>2, TakenChange
  <2> QED
    BY <1>2, <1>5, <2>2, <2>3 DEF Balanced
<1>13. \A t \in Streams : Utters(d, w[t], Nothing, last, bound, s, t) /\ Apart(d, t)
  BY <1>10, <1>11
<1>14. Legal(d, w, Nothing, last, bound, s)
  BY <1>2, <1>5, <1>6, <1>12, <1>13, LegalFrom
<1> QED
  BY <1>7, <1>9, <1>14

\* pop_pending_open: the stream it opens had to be under the limit.
Opened(i, k, opening) ==
  \/ opening = 0
  \/ /\ k.sendQ # <<>> /\ opening = Head(k.sendQ)
     /\ ~IsServer(i) /\ i.numStreams < i.maxStreams

LEMMA PopPendingOpenLegal ==
  ASSUME NEW i, NEW w, NEW extra, NEW low, NEW last \in BOOLEAN, NEW bound,
         Legal(i, w, Nothing, last, bound, 0), Sound(i, extra, low, 0)
  PROVE  LET k == PopPendingOpen(i)
         IN  /\ k.maxStreamId = i.maxStreamId
             /\ \E opening : Opened(i, k, opening) /\ Legal(k, w, Nothing, last, bound, opening)
<1> DEFINE k == PopPendingOpen(i)
<1>1. CASE i.openQ = <<>> \/ i.numStreams >= i.maxStreams
  <2>1. k = i
    BY <1>1 DEF PopPendingOpen
  <2>2. Opened(i, k, 0) /\ Legal(k, w, Nothing, last, bound, 0)
    BY <2>1 DEF Opened
  <2> QED
    BY <2>1, <2>2
<1>2. CASE ~(i.openQ = <<>> \/ i.numStreams >= i.maxStreams)
  <2>1. PICK s \in Streams : s = Head(i.openQ) /\ IsStored(i.streams[s])
    BY <1>2, PopOpenSound
  <2> DEFINE d == [i EXCEPT !.openQ = Tail(@), !.numStreams = @ + 1,
                            !.streams[s].counted = TRUE, !.sendQ = PushFront(@, s)]
  <2>2. k = TryAssign(d, s)
    BY <1>2, <2>1 DEF PopPendingOpen
  <2>3. /\ i \in InnerRecord /\ i.numStreams \in Int /\ i.maxStreams \in Nat
    BY LegalTypes
  <2>4. LaunchedFrom(i, d, s)
    BY <1>2, <2>3, LaunchFields
  <2>5. ~IsServer(i) /\ i.numStreams < i.maxStreams
    BY <1>2, <2>3 DEF Sound, SoundBut
  <2> HIDE DEF d, k
  <2>6. /\ Legal(d, w, Nothing, last, bound, s)
        /\ d.sendQ # <<>> /\ Head(d.sendQ) = s /\ Contains(d.sendQ, s)
    <3>1. IsNextOpen(i, s)
      BY <1>2, <2>1 DEF IsNextOpen
    <3> QED
      BY <2>1, <2>4, <2>5, <3>1, LaunchLegal
  <2>7. d \in InnerRecord /\ d.maxStreamId = i.maxStreamId
    BY <2>4 DEF LaunchedFrom
  <2>8. /\ Quiet(d, k) /\ k.sendQ \in {d.sendQ, Push(d.sendQ, s)}
    BY <2>2, <2>7, TryAssignQuiet
  <2>9. k.sendQ = d.sendQ
    BY <2>6, <2>8 DEF Push
  <2>10. Legal(k, w, Nothing, last, bound, s)
    BY <2>6, <2>8, QuietLegal
  <2>11. Opened(i, k, s) /\ k.maxStreamId = i.maxStreamId
    BY <2>5, <2>6, <2>7, <2>8, <2>9 DEF Opened, Quiet
  <2> QED
    BY <2>10, <2>11 DEF k
<1> QED
  BY <1>1, <1>2

\* Only the stream that was opened shows itself open to the peer.
LEMMA PopNextOpens ==
  ASSUME NEW i, NEW w \in [Streams -> Views], NEW last \in BOOLEAN, NEW low,
         NEW bound, NEW opening,
         Legal(i, w, Nothing, last, bound, opening), i.sendQ # <<>>, ~IsServer(i),
         Sound(i, Behind(Nothing, 0), low, 0), NEW s \in Streams, w[s] = "idle",
         PopNext(i).stream = s, AfterFrame("idle", PopNext(i).frame, i.peer) = "open"
  PROVE  s = opening
<1> DEFINE h == Head(i.sendQ)
           r == i.streams[h]
           c == [i EXCEPT !.sendQ = Tail(@)]
           data == r.queue # <<>> /\ Head(r.queue).kind = "data"
           p == PopNext(i)
<1>1. h \in Streams /\ IsStored(r)
  BY PopSendSound
<1>2. p =
        CASE data /\ DiscardsData(r) ->
               NothingPopped([FailSending(c, h) EXCEPT !.sendQ = Push(@, h)])
          [] data /\ ~DiscardsData(r) ->
               IF IsBlocked(r) THEN NothingPopped(c) ELSE PopData(c, h)
          [] ~data /\ r.queue # <<>> -> PopOther(c, h)
          [] r.queue = <<>> /\ IsScheduledReset(r.state) -> PopScheduledReset(c, h)
          [] OTHER -> NothingPopped(TransitionAfter(c, h, IsPendingReset(c, h)))
  BY DEF PopNext
<1>3. i \in InnerRecord /\ c.streams[h] = r
  BY LegalTypes DEF InnerRecord
<1> HIDE DEF c, p, h
<1>4. p.frame.kind = "headers" /\ p.stream # Nothing
  <2>1. AfterFrame("idle", p.frame, i.peer) = "open" /\ p.stream \in Streams
    BY DEF p
  <2>2. i.peer # "server"
    BY DEF IsServer
  <2> QED
    BY <2>1, <2>2, StreamsType DEF AfterFrame, Nothing
<1>5. \A k : NothingPopped(k).stream = Nothing
  BY DEF NothingPopped, Popped
<1>6. PopData(c, h).frame.kind = "data"
  BY DEF PopData, Popped, Frame
<1>7. PopScheduledReset(c, h).frame.kind = "reset"
  BY DEF PopScheduledReset, Popped, ResetFrame, Frame
<1>8. /\ ~data /\ r.queue # <<>> /\ p = PopOther(c, h)
  <2>1. CASE data /\ DiscardsData(r)
    BY <1>2, <1>4, <1>5, <2>1
  <2>2. CASE data /\ ~DiscardsData(r)
    BY <1>2, <1>4, <1>5, <1>6, <2>2
  <2>3. CASE ~data /\ r.queue # <<>>
    BY <1>2, <2>3
  <2>4. CASE r.queue = <<>> /\ IsScheduledReset(r.state)
    BY <1>2, <1>4, <1>7, <2>4
  <2>5. CASE r.queue = <<>> /\ ~IsScheduledReset(r.state)
    BY <1>2, <1>4, <1>5, <2>5
  <2> QED
    BY <2>1, <2>2, <2>3, <2>4, <2>5
<1>9. p.stream = h /\ p.frame = Head(r.queue)
  BY <1>3, <1>8 DEF PopOther, Popped
<1>10. s = h
  BY <1>9 DEF p
<1>11. Contains(i.sendQ, h)
  <2>1. i.sendQ \in Seq(Streams)
    BY LegalTypes
  <2> QED
    BY <2>1, TailQueue DEF h
<1>12. /\ Utters(i, w[h], Nothing, last, bound, opening, h) /\ Apart(i, h)
       /\ r.queue \in Seq(Frames)
  BY <1>1, <1>3, LegalAt, OwnFacts
<1>13. Heads(r.queue)
  BY <1>4, <1>8, <1>9, <1>12, TailKinds
<1>14. Awaits(i, opening, h)
  BY <1>1, <1>12, <1>13 DEF Utters, Voice, Opens
<1>15. opening = h
  BY <1>11, <1>12, <1>14 DEF Awaits, Apart
<1> QED
  BY <1>10, <1>15


----------------------------------------------------------------------------
(* pop_frame and the end of a turn of the loop of buffer_pending.          *)

\* A client opens no stream but the one it has just taken out of pending_open.
Opener(i, w, p, opening) ==
  ~IsServer(i) /\ p.stream # Nothing /\ w[p.stream] = "idle" /\
  AfterFrame("idle", p.frame, i.peer) = "open" => p.stream = opening

LEMMA OpenerAt ==
  ASSUME NEW i, NEW j, NEW w \in [Streams -> Views], NEW last \in BOOLEAN, NEW low,
         NEW bound, NEW opening, j.peer = i.peer,
         Legal(j, w, Nothing, last, bound, opening), j.sendQ # <<>>,
         Sound(j, Behind(Nothing, 0), low, 0), Result(j, PopNext(j), low)
  PROVE  Opener(i, w, PopNext(j), opening)
<1> DEFINE p == PopNext(j)
<1>1. p.stream \in Streams \cup {Nothing}
  BY DEF Result, PopResult
<1>2. ASSUME ~IsServer(i), p.stream # Nothing, w[p.stream] = "idle",
             AfterFrame("idle", p.frame, i.peer) = "open"
      PROVE  p.stream = opening
  <2>1. p.stream \in Streams /\ ~IsServer(j)
    BY <1>1, <1>2 DEF IsServer
  <2> QED
    BY <1>2, <2>1, PopNextOpens
<1> HIDE DEF p
<1>3. Opener(i, w, p, opening)
  BY <1>2 DEF Opener
<1> QED
  BY <1>3 DEF p

\* pop_frame
LEMMA PopFrameLegal ==
  ASSUME NEW i, NEW w \in [Streams -> Views], NEW last \in BOOLEAN, NEW low,
         NEW bound, NEW opening,
         opening = 0 \/ (i.sendQ # <<>> /\ opening = Head(i.sendQ)),
         Legal(i, w, Nothing, last, bound, opening), i.inFlight = Nothing,
         Sound(i, Behind(Nothing, 0), low, 0)
  PROVE  /\ Spoken(i, w, PopFrame(i), bound) /\ Result(i, PopFrame(i), low)
         /\ Opener(i, w, PopFrame(i), opening)
<1> DEFINE S == {p \in PopResult : /\ Result(i, p, low) /\ Spoken(i, w, p, bound)
                                     /\ Opener(i, w, p, opening)}
           x == NothingPopped(i)
           good == [k \in Nat |-> IF k = 0 THEN {x} ELSE S]
           step == [k \in Nat |-> [popped \in PopResult |-> PopTurn(popped)]]
<1>1. x \in good[0] /\ x \in PopResult /\ Result(i, x, low)
      /\ x.stream = Nothing /\ x.inner = i
  <2>1. Result(i, x, low)
    BY NothingResult
  <2> QED
    BY <2>1 DEF Result, NothingPopped, Popped
<1>2. PopTurn(x) \in S
  <2>1. CASE i.sendQ = <<>>
    <3>1. opening = 0
      BY <2>1
    <3>2. Legal(i, w, Nothing, Never, bound, 0)
      BY <3>1, Certainties, RestlessLegal
    <3>3. Spoken(i, w, x, bound)
      BY <3>2, NothingSpoken
    <3> HIDE DEF x
    <3>4. PopTurn(x) = x /\ Opener(i, w, x, opening)
      BY <1>1, <2>1 DEF PopTurn, Opener
    <3> QED
      BY <1>1, <3>3, <3>4
  <2>2. CASE i.sendQ # <<>>
    <3> HIDE DEF x
    <3>1. PopTurn(x) = PopNext(i)
      BY <1>1, <2>2 DEF PopTurn
    <3>2. Spoken(i, w, PopNext(i), bound)
      <4>1. opening \in {0, Head(i.sendQ)}
        OBVIOUS
      <4> QED
        BY <2>2, <4>1, PopNextLegal
    <3>3. Result(i, PopNext(i), low)
      BY <2>2, PopNextSound
    <3>4. Opener(i, w, PopNext(i), opening)
      BY <2>2, <3>3, OpenerAt
    <3> QED
      BY <3>1, <3>2, <3>3, <3>4 DEF Result
  <2> QED
    BY <2>1, <2>2
<1>3. ASSUME NEW p \in S
      PROVE  PopTurn(p) \in S
  <2>1. CASE p.stream # Nothing \/ p.inner.sendQ = <<>>
    BY <2>1 DEF PopTurn
  <2>2. CASE p.stream = Nothing /\ p.inner.sendQ # <<>>
    <3> DEFINE j == p.inner
    <3>1. PopTurn(p) = PopNext(j)
      BY <2>2 DEF PopTurn
    <3>2. /\ Sound(j, Behind(Nothing, 0), low, 0) /\ j.inFlight = Nothing
          /\ j.peer = i.peer /\ j.initWindow = i.initWindow /\ p.rest = 0
      BY <2>2 DEF Result
    <3>3. /\ Legal(j, w, Nothing, p.eos, bound, 0) /\ j.maxStreamId = i.maxStreamId
          /\ p.eos \in BOOLEAN
      BY <2>2, <3>2 DEF Spoken, Voiced, Rests, PopResult
    <3> HIDE DEF j
    <3>4. Spoken(j, w, PopNext(j), bound)
      BY <2>2, <3>2, <3>3, PopNextLegal DEF j
    <3>5. Result(j, PopNext(j), low)
      BY <2>2, <3>2, PopNextSound DEF j
    <3>6. Result(i, PopNext(j), low) /\ Spoken(i, w, PopNext(j), bound)
      BY <3>2, <3>3, <3>4, <3>5 DEF Result, Spoken
    <3>7. Opener(i, w, PopNext(j), opening)
      <4>1. Opener(i, w, PopNext(j), 0)
        BY <2>2, <3>2, <3>3, <3>5, OpenerAt DEF j
      <4>2. PopNext(j).stream # 0 \/ PopNext(j).stream = Nothing
        BY DEF Nothing
      <4> QED
        BY <4>1, <4>2 DEF Opener
    <3> QED
      BY <3>1, <3>6, <3>7 DEF Result
  <2> QED
    BY <2>1, <2>2
<1>4. MaxTurns \in Nat \ {0}
  <2>1. NStreams \in Nat \ {0}
    BY SendAssumption
  <2>2. MaxTurns = NStreams * (NStreams + 2)
    BY DEF MaxTurns
  <2> QED
    BY <2>1, <2>2
<1>5. PopFrame(i) = Loop(step, x, MaxTurns)
  BY DEF PopFrame
<1>6. Leads(step, good, MaxTurns)
  <2>1. ASSUME NEW k \in 1 .. MaxTurns, NEW p \in good[k - 1]
        PROVE  step[k][p] \in good[k]
    <3>1. k \in Nat /\ k # 0 /\ k - 1 \in Nat /\ p \in PopResult /\ PopTurn(p) \in S
      <4> HIDE DEF S, x
      <4>1. k \in Nat /\ k # 0 /\ k - 1 \in Nat
        BY <1>4
      <4>2. p = x \/ p \in S
        BY <2>1, <4>1
      <4> QED
        BY <1>1, <1>2, <1>3, <4>1, <4>2 DEF S
    <3> HIDE DEF S, x
    <3> QED
      BY <3>1
  <2> HIDE DEF step, good
  <2> QED
    BY <2>1 DEF Leads
<1> HIDE DEF step, x
<1>7. Loop(step, x, MaxTurns) \in good[MaxTurns]
  <2> HIDE DEF good
  <2> QED
    BY <1>1, <1>4, <1>6, LoopLeads
<1> QED
  BY <1>4, <1>5, <1>7

\* Which frame the codec holds says nothing about the streams.
LEMMA FlightLegal ==
  ASSUME NEW i, NEW w, NEW holder, NEW last \in BOOLEAN, NEW bound, NEW opening,
         NEW flight \in Streams \cup {Nothing, Drop},
         Legal(i, w, holder, last, bound, opening)
  PROVE  LET j == [i EXCEPT !.inFlight = flight]
         IN  /\ Legal(j, w, holder, last, bound, opening)
             /\ j.inFlight = flight /\ j.maxStreamId = i.maxStreamId
<1> DEFINE j == [i EXCEPT !.inFlight = flight]
<1>1. i \in InnerRecord /\ (~IsServer(i) => InOrder(i, w, opening) /\ Balanced(i))
  BY DEF Legal
<1>2. /\ j \in InnerRecord /\ j.streams = i.streams /\ j.peer = i.peer
      /\ j.openQ = i.openQ /\ j.sendQ = i.sendQ /\ j.numStreams = i.numStreams
      /\ j.inFlight = flight /\ j.maxStreamId = i.maxStreamId
  BY <1>1 DEF InnerRecord
<1> HIDE DEF j
<1>3. ASSUME NEW t \in Streams
      PROVE  Utters(j, w[t], holder, last, bound, opening, t) /\ Apart(j, t)
  <2>1. Utters(i, w[t], holder, last, bound, opening, t) /\ Apart(i, t)
    BY LegalAt
  <2> QED
    BY <1>2, <2>1 DEF Utters, Apart, Awaits, Waiting, Due, IsServer
<1>4. ~IsServer(j) => InOrder(j, w, opening) /\ Balanced(j)
  BY <1>1, <1>2 DEF IsServer, InOrder, Balanced
<1>5. Legal(j, w, holder, last, bound, opening)
  BY <1>2, <1>3, <1>4, LegalFrom
<1> QED
  BY <1>2, <1>5 DEF j

\* push_back_frame: the rest of a DATA frame is first again.
Returned(i, k, s, f) ==
  /\ k \in InnerRecord /\ f \in Frames
  /\ k.peer = i.peer /\ k.openQ = i.openQ /\ k.numStreams = i.numStreams
  /\ k.maxStreamId = i.maxStreamId /\ k.inFlight = i.inFlight
  /\ \A t \in Streams : t # s => k.streams[t] = i.streams[t]
  /\ k.streams[s] = [i.streams[s] EXCEPT !.queue = <<f>> \o i.streams[s].queue]
  /\ k.sendQ = i.sendQ \/ k.sendQ = Push(i.sendQ, s)

LEMMA ReturnedFields ==
  ASSUME NEW i \in InnerRecord, NEW s \in Streams, NEW rest \in 0 .. MaxWindow, NEW eos \in BOOLEAN
  PROVE  Returned(i, PushBackFrame(i, s, rest, eos), s, Frame("data", rest, eos))
<1> DEFINE f == Frame("data", rest, eos)
           r == i.streams[s]
           p == <<f>> \o r.queue
           r2 == [r EXCEPT !.queue = p]
           j == With(i, s, r2)
           q == i.sendQ
           k == PushBackFrame(i, s, rest, eos)
<1>1. /\ i.streams \in [Streams -> StreamRecord] /\ r \in StreamRecord
      /\ q \in Seq(Streams) /\ r.queue \in Seq(Frames)
  BY DEF InnerRecord, StreamRecord
<1>2. f \in Frames
  BY FrameIn DEF Kinds
<1>3. [i EXCEPT !.streams[s].queue = <<f>> \o @] = j
  BY <1>1 DEF With, InnerRecord
<1>4. k = j \/ k = [j EXCEPT !.sendQ = Push(@, s)]
  BY <1>3 DEF PushBackFrame
<1> HIDE DEF f, k
<1>5. p \in Seq(Frames)
  <2> DEFINE a == r.queue
  <2>1. a \in Seq(Frames)
    BY <1>1
  <2> HIDE DEF a
  <2>2. <<f>> \o a \in Seq(Frames)
    BY <1>2, <2>1
  <2> QED
    BY <2>2 DEF a
<1> HIDE DEF p
<1>6. r2 \in StreamRecord
  BY <1>1, <1>5 DEF StreamRecord
<1> HIDE DEF r2, j
<1>7. /\ j \in InnerRecord /\ j.streams[s] = r2 /\ Elsewhere(i, j, s) /\ SameBooks(i, j)
      /\ j.sendQ = q
  BY <1>6, WithFields DEF j
<1>8. Push(q, s) \in Seq(Streams)
  <2> HIDE DEF q
  <2> QED
    BY <1>1, PushQueue
<1>9. /\ k \in InnerRecord /\ k.streams = j.streams /\ k.peer = j.peer /\ k.openQ = j.openQ
      /\ k.numStreams = j.numStreams /\ k.maxStreamId = j.maxStreamId
      /\ k.inFlight = j.inFlight /\ k.sendQ \in {q, Push(q, s)}
  <2>1. CASE k = j
    BY <1>7, <2>1
  <2>2. CASE k = [j EXCEPT !.sendQ = Push(@, s)]
    <3> DEFINE x == Push(q, s)
    <3>1. k = [j EXCEPT !.sendQ = x]
      BY <1>7, <2>2
    <3> HIDE DEF x, q
    <3> QED
      BY <1>7, <1>8, <3>1 DEF InnerRecord, x
  <2> QED
    BY <1>4, <2>1, <2>2
<1>10. Returned(i, k, s, f)
  BY <1>2, <1>7, <1>9 DEF Returned, Elsewhere, SameBooks, r2, p, r, q
<1> QED
  BY <1>10 DEF k, f

LEMMA FrontLegal ==
  ASSUME NEW i, NEW k, NEW w, NEW s \in Streams, NEW last \in BOOLEAN, NEW bound,
         NEW last2 \in BOOLEAN, NEW f,
         Legal(i, w, s, last, bound, 0), Returned(i, k, s, f), f.kind = "data", f.eos = last,
         IsStored(i.streams[s]), i.streams[s].place # "unlinked", i.streams[s].buffered # 0
  PROVE  Legal(k, w, Nothing, last2, bound, 0) /\ k.maxStreamId = i.maxStreamId
<1> DEFINE r == i.streams[s]
           r2 == k.streams[s]
<1>1. /\ k \in InnerRecord /\ k.peer = i.peer /\ k.openQ = i.openQ
      /\ k.numStreams = i.numStreams /\ k.maxStreamId = i.maxStreamId /\ f \in Frames
      /\ \A t \in Streams : t # s => k.streams[t] = i.streams[t]
      /\ k.sendQ = i.sendQ \/ k.sendQ = Push(i.sendQ, s)
  BY DEF Returned
<1>2. i \in InnerRecord /\ i.sendQ \in Seq(Streams) /\ i.streams \in [Streams -> StreamRecord]
  BY LegalTypes
<1>3. r \in StreamRecord /\ r.queue \in Seq(Frames)
  BY <1>2, OwnFacts
<1>4. /\ r2.place = r.place /\ r2.queue = <<f>> \o r.queue /\ r2.counted = r.counted
      /\ r2.state = r.state
  BY <1>3 DEF Returned, StreamRecord
<1>5. /\ IsServer(k) <=> IsServer(i)
      /\ ~IsServer(i) => InOrder(i, w, 0) /\ Balanced(i)
  BY <1>1 DEF Legal, IsServer
<1>6. Utters(i, w[s], s, last, bound, 0, s) /\ Apart(i, s)
  BY LegalAt
<1>7. Voice(r, w[s], Has(s, s), last, Awaits(i, 0, s), Waiting(i, s), Due(i, s),
            IsServer(i), Past(bound, s))
  BY <1>6 DEF Utters
<1>8. /\ Has(s, s) /\ (Has(s, s) <=> Always) /\ Has(s, s) \in BOOLEAN
      /\ Awaits(i, 0, s) \in BOOLEAN /\ Waiting(i, s) \in BOOLEAN
      /\ Due(i, s) \in BOOLEAN /\ Due(k, s) \in BOOLEAN /\ IsServer(i) \in BOOLEAN
      /\ IsServer(k) \in BOOLEAN /\ Past(bound, s) \in BOOLEAN
      /\ Always \in BOOLEAN /\ Never \in BOOLEAN /\ ~Never /\ Always
  BY Booleans, MoreBooleans, Certainties DEF Has
<1>9. /\ \A t \in Streams : Contains(k.sendQ, t) => Contains(i.sendQ, t) \/ t = s
      /\ \A t \in Streams : Contains(i.sendQ, t) => Contains(k.sendQ, t)
  <2> DEFINE q == i.sendQ
  <2>1. q \in Seq(Streams) /\ k.sendQ \in {q, Push(q, s)}
    BY <1>1, <1>2
  <2> HIDE DEF q
  <2>2. \A t \in Streams : Contains(Push(q, s), t) <=> Contains(q, t) \/ t = s
    BY <2>1, PushQueue
  <2> QED
    BY <2>1, <2>2 DEF q
<1>10. Due(i, s) => Due(k, s)
  BY <1>1, <1>9 DEF Due
<1> HIDE DEF r, r2
<1>11. Voice(r, w[s], Always, last, Awaits(i, 0, s), Waiting(i, s), Due(i, s),
             IsServer(i), Past(bound, s))
  BY <1>7, <1>8, VoiceAs
<1>12. ~Awaits(i, 0, s)
  <2>1. Says(r, w[s], Always, last, Awaits(i, 0, s), IsServer(i))
    BY <1>11 DEF Voice, r
  <2> QED
    BY <1>8, <2>1 DEF Says
<1>13. Voice(r2, w[s], Never, last2, Awaits(i, 0, s), Waiting(i, s), Due(k, s),
             IsServer(i), Past(bound, s))
  <2>1. IsStored(r) /\ r.place # "unlinked" /\ r.buffered # 0
    BY DEF r
  <2>2. f \in Frames /\ f.kind = "data" /\ f.eos = last /\ IsServer(i) \in BOOLEAN
    BY <1>1, <1>8
  <2> DEFINE waits == Awaits(i, 0, s)
             pending == Waiting(i, s)
             due == Due(i, s)
             due2 == Due(k, s)
             server == IsServer(i)
             refused == Past(bound, s)
             v == w[s]
  <2>3. Voice(r, v, Always, last, waits, pending, due, server, refused) /\ (due => due2)
    BY <1>10, <1>11
  <2>4. server \in BOOLEAN
    BY <2>2
  <2> HIDE DEF waits, pending, due, due2, server, refused, v
  <2>5. Voice(r2, v, Never, last2, waits, pending, due2, server, refused)
    <3>1. Fronting(r, r2, f, v, last, waits, pending, due, server, refused, due2)
      BY <1>3, <1>4, <2>1, <2>2, <2>3, <2>4 DEF Fronting
    <3> QED
      BY <3>1, VoiceFront
  <2> QED
    BY <2>5 DEF waits, pending, due2, server, refused, v
<1>14. ~Has(Nothing, s) /\ Has(Nothing, s) \in BOOLEAN
  BY StreamsType DEF Has, Nothing
<1>15. Utters(k, w[s], Nothing, last2, bound, 0, s) /\ Apart(k, s)
  <2>1. /\ Awaits(k, 0, s) <=> Awaits(i, 0, s)
        /\ Waiting(k, s) <=> Waiting(i, s)
        /\ Awaits(k, 0, s) \in BOOLEAN /\ Waiting(k, s) \in BOOLEAN
    BY <1>1, MoreBooleans, Booleans DEF Awaits, Waiting
  <2>2. Voice(r2, w[s], Has(Nothing, s), last2, Awaits(k, 0, s), Waiting(k, s), Due(k, s),
              IsServer(k), Past(bound, s))
    BY <1>5, <1>8, <1>13, <1>14, <2>1, VoiceAs
  <2> QED
    BY <1>1, <1>12, <2>2 DEF Utters, Apart, r2, Awaits
<1>16. ASSUME NEW t \in Streams, t # s
       PROVE  Utters(k, w[t], Nothing, last2, bound, 0, t) /\ Apart(k, t)
  <2>1. Utters(i, w[t], s, last, bound, 0, t) /\ Apart(i, t)
    BY LegalAt
  <2>2. /\ Waiting(k, t) <=> Waiting(i, t)
        /\ Awaits(k, 0, t) <=> Awaits(i, 0, t)
        /\ Due(i, t) => Due(k, t)
        /\ Apart(k, t)
    BY <1>1, <1>9, <1>16, <2>1 DEF Waiting, Awaits, Due, Apart
  <2>3. ~Has(Nothing, t) /\ Same(i.streams[t], k.streams[t])
    BY <1>1, <1>16, StreamsType, SameRefl DEF Has, Nothing
  <2>4. Utters(k, w[t], Nothing, last2, bound, 0, t)
    BY <1>5, <2>1, <2>2, <2>3, UttersOn
  <2> QED
    BY <2>2, <2>4
<1>17. ~IsServer(k) => InOrder(k, w, 0) /\ Balanced(k)
  <2>1. \A t \in Streams : /\ k.streams[t].place = i.streams[t].place
                           /\ k.streams[t].counted = i.streams[t].counted
    BY <1>1, <1>4 DEF r, r2
  <2> QED
    BY <1>1, <1>5, <2>1, OrderKept, BalanceKept
<1>18. \A t \in Streams : Utters(k, w[t], Nothing, last2, bound, 0, t) /\ Apart(k, t)
  BY <1>15, <1>16
<1>19. Legal(k, w, Nothing, last2, bound, 0)
  BY <1>1, <1>17, <1>18, LegalFrom
<1> QED
  BY <1>1, <1>19

============================================================================
