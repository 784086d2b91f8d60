-------------------------- MODULE RecvFlow_proofs --------------------------
(***************************************************************************)
(* Theorems about RecvFlow, for any set of streams, any window sizes and   *)
(* any arguments, and in the last part about RecvFlowPeer, for any wires   *)
(* and any order of steps.                                                 *)
(*                                                                         *)
(* The inductive invariant IInv is a conjunction about the connection's    *)
(* account (GoodConn), about each stream by itself (GoodStream) and about  *)
(* the sum that ties them together (Attributed).  All three are operators  *)
(* of the values they speak of, so that what a helper of RecvFlow does to  *)
(* a record is a lemma without primes.                                     *)
(***************************************************************************)
EXTENDS RecvFlowPeer, Recursion_proofs, FiniteSetTheorems, TLAPS

Absent == {"idle", "forgotten"}

GoodConn(c, t) ==
  /\ c \in [flow : FlowControls, inFlight : 0 .. MaxWindow]
  /\ c.flow.available + c.inFlight = t
  /\ c.flow.window >= 0
  /\ c.flow.window + c.inFlight <= MaxWindow

WindowBounded(r, init) ==
  /\ r.flow.window <= r.flow.available
  /\ r.flow.available + r.inFlight <= init
  /\ r.flow.window >= init - MaxWindow

\* What is known of the record of stream s.  Only a stream that has a handle
\* or waits for one can still receive, which is why one without holds nothing.
GoodStream(r, s, init) ==
  /\ r \in StreamRecord
  /\ r.state \notin Absent => WindowBounded(r, init)
  /\ r.state \in Absent => r.inFlight = 0
  /\ r.handle = "held" => r.state \notin Absent
  /\ r.handle = "dropped" => r.state \notin OpenState \cup {"idle"}
  /\ r.handle = "dropped" /\ s \notin Promised => r.inFlight = 0

GoodStreams(strs, init) ==
  /\ strs \in [Streams -> StreamRecord]
  /\ \A s \in Streams : GoodStream(strs[s], s, init)

Tokens(held) ==
  {o \in Streams \X (1 .. MaxWindow) : o[2] <= held[o[1]]}

Held(strs) == [s \in Streams |-> strs[s].inFlight]

Attributed(strs, c, lost) == c.inFlight = Cardinality(Tokens(Held(strs))) + lost

IInv ==
  /\ GoodConn(conn, target)
  /\ GoodStreams(streams, initWindowSz)
  /\ Attributed(streams, conn, orphaned)
  /\ initWindowSz \in 0 .. MaxWindow
  /\ target \in 0 .. MaxWindow
  /\ orphaned \in Nat
  /\ connErr \in BOOLEAN

----------------------------------------------------------------------------
(* Sums over the streams.                                                  *)

HeldFunctions == [Streams -> 0 .. MaxWindow]

\* The octets in flight are finitely many.
LEMMA TokensFinite ==
  ASSUME NEW held
  PROVE  IsFiniteSet(Tokens(held)) /\ Cardinality(Tokens(held)) \in Nat
<1>1. IsFiniteSet(1 .. MaxWindow)
  BY FS_Interval, MaxWindowAssumption
<1>2. IsFiniteSet(Streams \X (1 .. MaxWindow))
  BY <1>1, FS_Product, RecvAssumption
<1>3. Tokens(held) \in SUBSET (Streams \X (1 .. MaxWindow))
  BY DEF Tokens
<1>4. IsFiniteSet(Tokens(held))
  BY <1>2, <1>3, FS_Subset
<1> QED
  BY <1>4, FS_CardinalityType

\* A stream contributes as many tokens as it holds octets.
LEMMA TokensOfStream ==
  ASSUME NEW s, NEW n \in Nat
  PROVE  /\ IsFiniteSet({s} \X (1 .. n))
         /\ Cardinality({s} \X (1 .. n)) = n
<1>1. IsFiniteSet({s}) /\ Cardinality({s}) = 1
  BY FS_Singleton
<1>2. IsFiniteSet(1 .. n) /\ Cardinality(1 .. n) = n
  BY FS_Interval
<1>3. /\ IsFiniteSet({s} \X (1 .. n))
      /\ Cardinality({s} \X (1 .. n)) = Cardinality({s}) * Cardinality(1 .. n)
  BY <1>1, <1>2, FS_Product, Zenon
<1>4. 1 * n = n
  OBVIOUS
<1> QED
  BY <1>1, <1>2, <1>3, <1>4

\* The total is the stream's own share plus that of all others.
LEMMA TokensSplit ==
  ASSUME NEW held \in HeldFunctions, NEW s \in Streams
  PROVE  /\ Cardinality({o \in Tokens(held) : o[1] # s}) \in Nat
         /\ Cardinality(Tokens(held))
              = Cardinality({o \in Tokens(held) : o[1] # s}) + held[s]
<1> DEFINE others == {o \in Tokens(held) : o[1] # s}
           own == {s} \X (1 .. held[s])
<1>1. held[s] \in 0 .. MaxWindow /\ held[s] \in Nat
  BY MaxWindowAssumption DEF HeldFunctions
<1>2. IsFiniteSet(own) /\ Cardinality(own) = held[s]
  BY <1>1, TokensOfStream
<1>3. others \in SUBSET Tokens(held)
  OBVIOUS
<1>4. IsFiniteSet(others) /\ Cardinality(others) \in Nat
  BY <1>3, TokensFinite, FS_Subset, FS_CardinalityType
<1>5. Tokens(held) = others \cup own
  <2>1. ASSUME NEW o \in Tokens(held) PROVE o \in others \cup own
    <3>1. /\ o \in Streams \X (1 .. MaxWindow) /\ o[2] <= held[o[1]]
      BY DEF Tokens
    <3>2. CASE o[1] = s
      <4>1. o = <<s, o[2]>> /\ o[2] \in 1 .. held[s]
        BY <1>1, <3>1, <3>2, MaxWindowAssumption
      <4> QED
        BY <4>1
    <3> QED
      BY <3>2
  <2>2. ASSUME NEW o \in own PROVE o \in Tokens(held)
    <3>1. PICK i \in 1 .. held[s] : o = <<s, i>>
      OBVIOUS
    <3>2. i \in 1 .. MaxWindow /\ i <= held[s]
      BY <1>1, MaxWindowAssumption
    <3> QED
      BY <3>1, <3>2 DEF Tokens
  <2> QED
    BY <2>1, <2>2
<1>6. others \cap own = {}
  OBVIOUS
<1>7. Cardinality(others \cap own) = 0
  BY <1>6, FS_EmptySet
<1>8. Cardinality(others \cup own)
        = Cardinality(others) + Cardinality(own) - Cardinality(others \cap own)
  BY <1>2, <1>4, FS_Union
<1> QED
  <2>1. Cardinality(Tokens(held)) = Cardinality(others) + held[s] - 0
    BY <1>2, <1>5, <1>7, <1>8
  <2> QED
    BY <1>1, <1>4, <2>1

\* When one stream's share changes, the total changes by as much.
LEMMA TokensChange ==
  ASSUME NEW held \in HeldFunctions, NEW s \in Streams, NEW n \in 0 .. MaxWindow
  PROVE  Cardinality(Tokens([held EXCEPT ![s] = n]))
           = Cardinality(Tokens(held)) - held[s] + n
<1> DEFINE new == [held EXCEPT ![s] = n]
<1>1. new \in HeldFunctions /\ new[s] = n
  BY DEF HeldFunctions
<1>2. {o \in Tokens(new) : o[1] # s} = {o \in Tokens(held) : o[1] # s}
  <2>1. \A o \in Streams \X (1 .. MaxWindow) : o[1] # s => new[o[1]] = held[o[1]]
    BY DEF HeldFunctions
  <2> QED
    BY <2>1 DEF Tokens
<1>3. /\ Cardinality({o \in Tokens(held) : o[1] # s}) \in Nat
      /\ Cardinality(Tokens(held)) = Cardinality({o \in Tokens(held) : o[1] # s}) + held[s]
  BY TokensSplit
<1>4. Cardinality(Tokens(new)) = Cardinality({o \in Tokens(new) : o[1] # s}) + n
  BY <1>1, TokensSplit
<1>5. held[s] \in Int /\ n \in Int
  BY DEF HeldFunctions
<1>6. Cardinality(Tokens(new)) = Cardinality({o \in Tokens(held) : o[1] # s}) + n
  BY <1>2, <1>4
<1> HIDE DEF new
<1>7. Cardinality(Tokens(new)) = Cardinality(Tokens(held)) - held[s] + n
  BY <1>3, <1>5, <1>6
<1> QED
  BY <1>7 DEF new

----------------------------------------------------------------------------
(* The connection's account.                                               *)

LEMMA SendDataRecord ==
  ASSUME NEW fc \in FlowControls, NEW sz \in Int
  PROVE  SendData(fc, sz) = [window |-> fc.window - sz, available |-> fc.available - sz]
<1>1. PICK w \in Window, a \in Window : fc = [window |-> w, available |-> a]
  BY DEF FlowControls
<1>2. SendData(fc, sz) = [[fc EXCEPT !.window = w - sz] EXCEPT !.available = a - sz]
  BY <1>1 DEF SendData
<1> QED
  BY <1>1, <1>2

LEMMA DecRecvWindowRecord ==
  ASSUME NEW fc \in FlowControls, NEW sz \in Int
  PROVE  DecRecvWindow(fc, sz) = [window |-> fc.window - sz, available |-> fc.available - sz]
<1>1. SendData(fc, sz) = DecRecvWindow(fc, sz)
  BY DEF SendData, DecRecvWindow
<1> QED
  BY <1>1, SendDataRecord

\* Octets the window covers move from "available" to "in flight".
LEMMA ConsumeGood ==
  ASSUME NEW c, NEW t \in 0 .. MaxWindow, GoodConn(c, t),
         NEW sz \in Nat, WindowSize(c.flow) >= sz
  PROVE  /\ GoodConn(Consume(c, sz), t)
         /\ Consume(c, sz).inFlight = c.inFlight + sz
<1>1. /\ c.flow.window \in 0 .. MaxWindow /\ c.flow.available \in Window
      /\ c.inFlight \in 0 .. MaxWindow /\ c.flow \in FlowControls
  BY MaxWindowAssumption DEF GoodConn, FlowControls, Window
<1>2. c.flow.window - sz \in 0 .. MaxWindow
  BY <1>1, MaxWindowAssumption DEF WindowSize, AsSize
<1>3. /\ c.inFlight + sz \in 0 .. MaxWindow
      /\ c.flow.available - sz \in Window
      /\ c.flow.window - sz \in Window
  BY <1>1, <1>2, MaxWindowAssumption DEF GoodConn, Window, MinWindow
<1>4. Consume(c, sz) = [flow |-> [window |-> c.flow.window - sz,
                                  available |-> c.flow.available - sz],
                        inFlight |-> c.inFlight + sz]
  <2>1. SendData(c.flow, sz) = [window |-> c.flow.window - sz,
                                available |-> c.flow.available - sz]
    BY <1>1, SendDataRecord
  <2> QED
    BY <2>1 DEF Consume
<1>5. Consume(c, sz) \in [flow : FlowControls, inFlight : 0 .. MaxWindow]
  BY <1>3, <1>4 DEF FlowControls
<1> QED
  BY <1>1, <1>2, <1>3, <1>4, <1>5 DEF GoodConn, Window

\* Octets that are in flight can be given back: assign_capacity, whose result
\* release_connection_capacity ignores, succeeds.
LEMMA ReleaseGood ==
  ASSUME NEW c, NEW t \in 0 .. MaxWindow, GoodConn(c, t), NEW sz \in 0 .. c.inFlight
  PROVE  /\ GoodConn(Release(c, sz), t)
         /\ Release(c, sz).inFlight = c.inFlight - sz
<1>1. c.flow.available + sz <= MaxWindow /\ c.flow.available + sz >= MinWindow
  BY MaxWindowAssumption DEF GoodConn, FlowControls, Window, MinWindow
<1>2. Release(c, sz) = [flow |-> [c.flow EXCEPT !.available = @ + sz],
                        inFlight |-> c.inFlight - sz]
  BY <1>1 DEF Release, AssignCapacity, CanAssign
<1> QED
  BY <1>1, <1>2, MaxWindowAssumption
     DEF GoodConn, FlowControls, Window, MinWindow

----------------------------------------------------------------------------
(* The streams.                                                            *)

LEMMA HeldType ==
  ASSUME NEW strs \in [Streams -> StreamRecord]
  PROVE  Held(strs) \in HeldFunctions
BY DEF Held, HeldFunctions, StreamRecord

\* No stream holds more than the connection counts.
LEMMA HeldBounded ==
  ASSUME NEW strs, NEW init, GoodStreams(strs, init),
         NEW c, NEW lost \in Nat, Attributed(strs, c, lost),
         NEW s \in Streams
  PROVE  strs[s].inFlight \in 0 .. c.inFlight
<1> DEFINE n == Cardinality(Tokens(Held(strs)))
           m == Cardinality({o \in Tokens(Held(strs)) : o[1] # s})
<1>1. Held(strs) \in HeldFunctions /\ Held(strs)[s] = strs[s].inFlight
  BY HeldType DEF GoodStreams, Held
<1>2. m \in Nat /\ n = m + strs[s].inFlight
  BY <1>1, TokensSplit
<1>3. c.inFlight = n + lost
  BY DEF Attributed
<1>4. strs[s].inFlight \in Nat
  BY MaxWindowAssumption DEF GoodStreams, StreamRecord
<1> HIDE DEF n, m
<1> QED
  BY <1>2, <1>3, <1>4

\* One stream's record is replaced and the connection's total follows.
LEMMA UpdateStream ==
  ASSUME NEW strs, NEW init, GoodStreams(strs, init),
         NEW s \in Streams, NEW r, GoodStream(r, s, init),
         NEW c, NEW d, NEW lost \in Nat, Attributed(strs, c, lost),
         d.inFlight = c.inFlight + r.inFlight - strs[s].inFlight
  PROVE  /\ GoodStreams([strs EXCEPT ![s] = r], init)
         /\ Attributed([strs EXCEPT ![s] = r], d, lost)
<1> DEFINE new == [strs EXCEPT ![s] = r]
           n == Cardinality(Tokens(Held(strs)))
<1>1. GoodStreams(new, init)
  BY DEF GoodStreams, GoodStream
<1>2. Held(strs) \in HeldFunctions /\ Held(strs)[s] = strs[s].inFlight
  BY HeldType DEF GoodStreams, Held
<1>3. r.inFlight \in 0 .. MaxWindow
  BY DEF GoodStream, StreamRecord
<1>4. Held(new) = [Held(strs) EXCEPT ![s] = r.inFlight]
  BY DEF Held, GoodStreams
<1>5. Cardinality(Tokens(Held(new))) = n - strs[s].inFlight + r.inFlight
  BY <1>2, <1>3, <1>4, TokensChange
<1>6. c.inFlight = n + lost /\ n \in Nat
  BY TokensFinite DEF Attributed
<1>7. strs[s].inFlight \in Int /\ r.inFlight \in Int
  BY <1>3, MaxWindowAssumption DEF GoodStreams, StreamRecord
<1> HIDE DEF n
<1>8. Cardinality(Tokens(Held(new))) + lost = d.inFlight
  BY <1>5, <1>6, <1>7
<1> QED
  BY <1>1, <1>8 DEF Attributed

\* A connection error closes streams and leaves what they hold alone.
LEMMA HandleErrorGood ==
  ASSUME NEW strs, NEW init, GoodStreams(strs, init)
  PROVE  /\ GoodStreams(HandleError(strs), init)
         /\ Held(HandleError(strs)) = Held(strs)
<1>1. ASSUME NEW s \in Streams
      PROVE  /\ GoodStream(HandleError(strs)[s], s, init)
             /\ HandleError(strs)[s].inFlight = strs[s].inFlight
  <2>1. GoodStream(strs[s], s, init)
    BY DEF GoodStreams
  <2>2. CASE strs[s].state \in OpenState
    <3>1. HandleError(strs)[s] = [strs[s] EXCEPT !.state = "localReset"]
      BY <2>2 DEF HandleError
    <3> QED
      BY <2>1, <2>2, <3>1
         DEF GoodStream, StreamRecord, StreamState, OpenState, Absent, WindowBounded
  <2>3. CASE strs[s].state \notin OpenState
    BY <2>1, <2>3 DEF HandleError
  <2> QED
    BY <2>2, <2>3
<1>2. HandleError(strs) \in [Streams -> StreamRecord]
  <2>1. HandleError(strs) = [s \in Streams |-> HandleError(strs)[s]]
    BY DEF HandleError
  <2> QED
    BY <1>1, <2>1 DEF GoodStream
<1> QED
  BY <1>1, <1>2 DEF GoodStreams, Held

\* Octets of a frame the stream's window covers.
LEMMA TakenGood ==
  ASSUME NEW r, NEW s, NEW init \in 0 .. MaxWindow, GoodStream(r, s, init),
         r.state = "streaming", NEW sz \in Nat, WindowSize(r.flow) >= sz,
         NEW payload \in Nat, r.buffered + payload <= MaxBuffered
  PROVE  /\ GoodStream(Take(r, sz, payload), s, init)
         /\ Take(r, sz, payload).inFlight = r.inFlight + sz
         /\ Take(r, sz, payload).state = "streaming"
<1> DEFINE taken == Take(r, sz, payload)
<1>1. /\ r \in StreamRecord
      /\ WindowBounded(r, init)
      /\ r.handle # "dropped"
  BY DEF GoodStream, Absent, OpenState, StreamState
<1>2. /\ r.flow.window \in Window /\ r.flow.available \in Window
      /\ r.inFlight \in 0 .. MaxWindow
      /\ r.buffered \in 0 .. MaxBuffered
  BY <1>1 DEF StreamRecord, FlowControls
<1>3. /\ r.flow.window - sz \in Window
      /\ r.flow.available - sz \in Window
      /\ r.inFlight + sz \in 0 .. MaxWindow
      /\ r.flow.window - sz >= init - MaxWindow
      /\ r.buffered + payload \in 0 .. MaxBuffered
  BY <1>1, <1>2, MaxWindowAssumption, RecvAssumption
     DEF Window, MinWindow, WindowBounded, WindowSize, AsSize
<1>4. /\ taken.flow = [window |-> r.flow.window - sz, available |-> r.flow.available - sz]
      /\ taken.inFlight = r.inFlight + sz
      /\ taken.buffered = r.buffered + payload
      /\ taken.state = "streaming" /\ taken.handle = r.handle
  BY <1>1 DEF Take, SendData, StreamRecord, FlowControls
<1>5. taken \in StreamRecord
  BY <1>1, <1>3 DEF Take, StreamRecord, FlowControls, SendData
<1>6. WindowBounded(taken, init)
  BY <1>1, <1>2, <1>3, <1>4, MaxWindowAssumption DEF WindowBounded, Window, MinWindow
<1> HIDE DEF taken
<1>7. GoodStream(taken, s, init)
  BY <1>1, <1>4, <1>5, <1>6 DEF GoodStream, Absent, OpenState
<1> QED
  BY <1>4, <1>7 DEF taken

\* Octets given back on a stream.
LEMMA ReleaseStreamGood ==
  ASSUME NEW r, NEW s, NEW init \in 0 .. MaxWindow, GoodStream(r, s, init),
         r.state \notin Absent, NEW sz \in 0 .. r.inFlight
  PROVE  /\ GoodStream(ReleaseStream(r, sz), s, init)
         /\ ReleaseStream(r, sz).inFlight = r.inFlight - sz
         /\ ReleaseStream(r, sz).state = r.state
<1> DEFINE new == ReleaseStream(r, sz)
<1>1. r \in StreamRecord /\ WindowBounded(r, init)
  BY DEF GoodStream
<1>2. /\ r.flow.window \in Window /\ r.flow.available \in Window
      /\ r.inFlight \in 0 .. MaxWindow
      /\ r.flow.available + sz \in Window
      /\ r.inFlight - sz \in 0 .. MaxWindow
  BY <1>1, MaxWindowAssumption DEF StreamRecord, FlowControls, Window, MinWindow, WindowBounded
<1>3. AssignCapacity(r.flow, sz)
        = [window |-> r.flow.window, available |-> r.flow.available + sz]
  BY <1>1, <1>2 DEF AssignCapacity, CanAssign, StreamRecord, FlowControls, Window
<1>4. /\ new.flow = [window |-> r.flow.window, available |-> r.flow.available + sz]
      /\ new.inFlight = r.inFlight - sz
      /\ new.state = r.state /\ new.handle = r.handle
  BY <1>1, <1>3 DEF ReleaseStream, StreamRecord
<1>5. new \in StreamRecord
  <2>1. AssignCapacity(r.flow, sz) \in FlowControls
    BY <1>2, <1>3 DEF FlowControls
  <2>2. IsUnclaimed(AssignCapacity(r.flow, sz)) \in BOOLEAN
    BY DEF IsUnclaimed
  <2> QED
    BY <1>1, <1>2, <2>1, <2>2 DEF ReleaseStream, StreamRecord
<1>6. WindowBounded(new, init)
  BY <1>1, <1>2, <1>4, MaxWindowAssumption DEF WindowBounded, Window, MinWindow
<1> HIDE DEF new
<1>7. GoodStream(new, s, init)
  <2>1. r.handle = "dropped" /\ s \notin Promised => new.inFlight = 0
    BY <1>2, <1>4 DEF GoodStream
  <2> QED
    BY <1>1, <1>4, <1>5, <1>6, <2>1 DEF GoodStream
<1> QED
  BY <1>4, <1>7 DEF new

----------------------------------------------------------------------------
(* Steps.                                                                  *)

\* Steps that change one stream's record and the connection's account with
\* it, and may raise a connection error on top.
LEMMA StreamStep ==
  ASSUME IInv, NEW s \in Streams, NEW r, GoodStream(r, s, initWindowSz),
         GoodConn(conn', target),
         conn'.inFlight = conn.inFlight + r.inFlight - streams[s].inFlight,
         \/ streams' = [streams EXCEPT ![s] = r] /\ UNCHANGED connErr
         \/ FailConnection([streams EXCEPT ![s] = r]),
         UNCHANGED <<initWindowSz, target, orphaned>>
  PROVE  IInv'
<1> DEFINE new == [streams EXCEPT ![s] = r]
<1>1. GoodStreams(new, initWindowSz) /\ Attributed(new, conn', orphaned)
  BY UpdateStream DEF IInv
<1>2. GoodStreams(streams', initWindowSz) /\ Attributed(streams', conn', orphaned)
  <2>1. CASE streams' = new
    BY <1>1, <2>1
  <2>2. CASE streams' = HandleError(new)
    <3>1. GoodStreams(HandleError(new), initWindowSz) /\ Held(HandleError(new)) = Held(new)
      BY <1>1, HandleErrorGood
    <3> QED
      BY <1>1, <2>2, <3>1 DEF Attributed
  <2> QED
    BY <2>1, <2>2 DEF FailConnection
<1> QED
  BY <1>2 DEF IInv, FailConnection

\* Steps that leave every stream's octets in flight alone.
LEMMA KeepingStep ==
  ASSUME IInv, GoodStreams(streams', initWindowSz'),
         \A s \in Streams : streams'[s].inFlight = streams[s].inFlight,
         GoodConn(conn', target'), conn'.inFlight = conn.inFlight,
         initWindowSz' \in 0 .. MaxWindow, target' \in 0 .. MaxWindow,
         connErr' \in BOOLEAN, UNCHANGED orphaned
  PROVE  IInv'
<1>1. Held(streams') = Held(streams)
  BY DEF Held
<1>2. Attributed(streams', conn', orphaned')
  BY <1>1 DEF IInv, Attributed
<1> QED
  BY <1>2 DEF IInv

\* A frame whose octets are counted and given back at once.
LEMMA PassThrough ==
  ASSUME IInv, NEW sz \in 0 .. MaxFrame, WindowSize(conn.flow) >= sz
  PROVE  /\ GoodConn(Release(Consume(conn, sz), sz), target)
         /\ Release(Consume(conn, sz), sz).inFlight = conn.inFlight
<1>1. sz \in Nat /\ conn.inFlight \in Nat
  BY RecvAssumption, MaxWindowAssumption DEF IInv, GoodConn
<1>2. /\ GoodConn(Consume(conn, sz), target)
      /\ Consume(conn, sz).inFlight = conn.inFlight + sz
  BY <1>1, ConsumeGood DEF IInv
<1>3. sz \in 0 .. Consume(conn, sz).inFlight
  BY <1>1, <1>2
<1>4. /\ GoodConn(Release(Consume(conn, sz), sz), target)
      /\ Release(Consume(conn, sz), sz).inFlight = Consume(conn, sz).inFlight - sz
  BY <1>2, <1>3, ReleaseGood DEF IInv
<1> QED
  BY <1>1, <1>2, <1>4

\* A record may change in what the accounts do not look at.
LEMMA RelabelGood ==
  ASSUME NEW r, NEW s, NEW init, GoodStream(r, s, init),
         NEW q \in StreamRecord,
         q.flow = r.flow, q.inFlight = r.inFlight,
         r.state \notin Absent, q.state \notin Absent,
         q.handle = "dropped" => q.state \notin OpenState,
         q.handle = "dropped" /\ s \notin Promised => r.handle = "dropped"
  PROVE  GoodStream(q, s, init)
BY DEF GoodStream, WindowBounded, Absent

\* A new entry holds nothing and starts with the initial window.
LEMMA NewStreamGood ==
  ASSUME NEW s, NEW init \in 0 .. MaxWindow, NEW w \in {0, init},
         NEW st \in StreamState, NEW h \in Handle,
         st \in Absent => h # "held",
         h = "dropped" => st \notin OpenState \cup {"idle"}
  PROVE  GoodStream(NewStream(st, h, w), s, init) /\ NewStream(st, h, w).inFlight = 0
<1>1. w \in 0 .. MaxWindow /\ w <= init /\ w >= init - MaxWindow /\ 0 \in 0 .. MaxWindow
  BY MaxWindowAssumption
<1>2. 0 \in 0 .. MaxBuffered
  BY RecvAssumption
<1>3. NewFlow(w) \in FlowControls /\ NewFlow(w).window = w /\ NewFlow(w).available = w
  BY <1>1, MaxWindowAssumption DEF NewFlow, FlowControls, Window, MinWindow
<1>4. NewStream(st, h, w) \in StreamRecord
  BY <1>1, <1>2, <1>3 DEF NewStream, StreamRecord
<1>5. WindowBounded(NewStream(st, h, w), init)
  BY <1>1, <1>3 DEF WindowBounded, NewStream
<1>6. /\ NewStream(st, h, w).state = st /\ NewStream(st, h, w).handle = h
      /\ NewStream(st, h, w).inFlight = 0
  BY DEF NewStream
<1> QED
  BY <1>4, <1>5, <1>6 DEF GoodStream

----------------------------------------------------------------------------
(* DATA.                                                                   *)

LEMMA IgnoredStep ==
  ASSUME IInv, NEW s \in Streams, NEW sz \in 0 .. MaxFrame,
         \/ RecvDataOverConnWindow(s, sz) \/ RecvDataUnexpected(s)
         \/ RecvDataIgnored(s, sz)
  PROVE  IInv'
<1> DEFINE r == streams[s]
<1>1. GoodStream(r, s, initWindowSz) /\ [streams EXCEPT ![s] = r] = streams
  BY DEF IInv, GoodStreams
<1>2. conn'.inFlight = conn.inFlight + r.inFlight - streams[s].inFlight
      /\ GoodConn(conn', target)
  <2>1. conn.inFlight \in Int /\ r.inFlight \in Int
    BY <1>1, MaxWindowAssumption DEF IInv, GoodConn, GoodStream, StreamRecord
  <2>2. conn'.inFlight = conn.inFlight /\ GoodConn(conn', target)
    BY PassThrough
       DEF IInv, RecvDataOverConnWindow, RecvDataUnexpected, RecvDataIgnored
  <2> QED
    BY <2>1, <2>2
<1>3. \/ streams' = [streams EXCEPT ![s] = r] /\ UNCHANGED connErr
      \/ FailConnection([streams EXCEPT ![s] = r])
  BY <1>1 DEF RecvDataOverConnWindow, RecvDataUnexpected, RecvDataIgnored,
              RecordDataFrame
<1>4. UNCHANGED <<initWindowSz, target, orphaned>>
  BY DEF RecvDataOverConnWindow, RecvDataUnexpected, RecvDataIgnored
<1> QED
  BY <1>1, <1>2, <1>3, <1>4, StreamStep

LEMMA ForgottenStep ==
  ASSUME IInv, NEW s \in Streams, NEW sz \in 0 .. MaxFrame, RecvDataForgotten(s, sz)
  PROVE  IInv'
<1> DEFINE r == NewStream("localReset", "dropped", 0)
<1>1. GoodStream(r, s, initWindowSz) /\ r.inFlight = 0
  BY NewStreamGood DEF IInv, StreamState, OpenState, Handle, Absent
<1>2. GoodStream(streams[s], s, initWindowSz) /\ [streams EXCEPT ![s] = streams[s]] = streams
  BY DEF IInv, GoodStreams
<1>3. streams[s].inFlight = 0
  BY <1>2 DEF GoodStream, Absent, RecvDataForgotten
<1>4. conn'.inFlight = conn.inFlight /\ GoodConn(conn', target)
  BY PassThrough DEF RecvDataForgotten
<1>5. conn.inFlight \in Int
  BY MaxWindowAssumption DEF IInv, GoodConn
<1>6. UNCHANGED <<initWindowSz, target, orphaned>>
  BY DEF RecvDataForgotten
<1>7. CASE streams' = [streams EXCEPT ![s] = r] /\ UNCHANGED connErr
  <2>1. conn'.inFlight = conn.inFlight + r.inFlight - streams[s].inFlight
    BY <1>1, <1>3, <1>4, <1>5
  <2> HIDE DEF r
  <2> QED
    BY <1>1, <1>4, <1>6, <1>7, <2>1, StreamStep
<1>8. CASE FailConnection(streams)
  <2>1. FailConnection([streams EXCEPT ![s] = streams[s]])
    BY <1>2, <1>8
  <2>2. conn'.inFlight = conn.inFlight + streams[s].inFlight - streams[s].inFlight
    BY <1>3, <1>4, <1>5
  <2> QED
    BY <1>2, <1>4, <1>6, <2>1, <2>2, StreamStep
<1> QED
  BY <1>7, <1>8 DEF RecvDataForgotten

LEMMA StreamErrorStep ==
  ASSUME IInv, NEW s \in Streams, NEW sz \in 0 .. MaxFrame, RecvDataStreamError(s, sz)
  PROVE  IInv'
<1> DEFINE reset == [streams[s] EXCEPT !.state = "localReset"]
<1>1. GoodStream(streams[s], s, initWindowSz) /\ [streams EXCEPT ![s] = streams[s]] = streams
  BY DEF IInv, GoodStreams
<1>2. streams[s].state = "streaming"
  BY DEF RecvDataStreamError
<1>3. GoodStream(reset, s, initWindowSz) /\ reset.inFlight = streams[s].inFlight
  BY <1>1, <1>2 DEF GoodStream, StreamRecord, StreamState, WindowBounded, Absent, OpenState
<1>4. conn'.inFlight = conn.inFlight /\ GoodConn(conn', target)
  BY PassThrough DEF RecvDataStreamError
<1>5. conn.inFlight \in Int /\ streams[s].inFlight \in Int
  BY <1>1, MaxWindowAssumption DEF IInv, GoodConn, GoodStream, StreamRecord
<1>6. UNCHANGED <<initWindowSz, target, orphaned>>
  BY DEF RecvDataStreamError
<1>7. CASE streams' = [streams EXCEPT ![s].state = "localReset"] /\ UNCHANGED connErr
  <2>1. streams' = [streams EXCEPT ![s] = reset]
    BY <1>7
  <2>2. conn'.inFlight = conn.inFlight + reset.inFlight - streams[s].inFlight
    BY <1>3, <1>4, <1>5
  <2> QED
    BY <1>3, <1>4, <1>6, <1>7, <2>1, <2>2, StreamStep
<1>8. CASE FailConnection(streams)
  <2>1. FailConnection([streams EXCEPT ![s] = streams[s]])
    BY <1>1, <1>8
  <2>2. conn'.inFlight = conn.inFlight + streams[s].inFlight - streams[s].inFlight
    BY <1>4, <1>5
  <2> QED
    BY <1>1, <1>4, <1>6, <2>1, <2>2, StreamStep
<1> QED
  BY <1>7, <1>8 DEF RecvDataStreamError

LEMMA UncaredStep ==
  ASSUME IInv, NEW s \in Streams, NEW sz \in 0 .. MaxFrame, NEW eos \in BOOLEAN,
         RecvDataUncared(s, sz, eos)
  PROVE  IInv'
<1>1. PICK st \in AfterData(eos) :
        RecordDataFrame([streams EXCEPT ![s].state = st], eos)
  BY DEF RecvDataUncared
<1> DEFINE r == [streams[s] EXCEPT !.state = st]
<1>2. GoodStream(streams[s], s, initWindowSz) /\ streams[s].state = "streaming"
  BY DEF IInv, GoodStreams, RecvDataUncared
<1>3. st \in {"streaming", "ended", "closed"}
  BY DEF AfterData
<1>4. GoodStream(r, s, initWindowSz) /\ r.inFlight = streams[s].inFlight
  BY <1>2, <1>3 DEF GoodStream, StreamRecord, StreamState, WindowBounded, Absent, OpenState
<1>5. conn'.inFlight = conn.inFlight /\ GoodConn(conn', target)
  BY PassThrough DEF RecvDataUncared
<1>6. conn.inFlight \in Int /\ streams[s].inFlight \in Int
  BY <1>2, MaxWindowAssumption DEF IInv, GoodConn, GoodStream, StreamRecord
<1>7. conn'.inFlight = conn.inFlight + r.inFlight - streams[s].inFlight
  BY <1>4, <1>5, <1>6
<1>8. \/ streams' = [streams EXCEPT ![s] = r] /\ UNCHANGED connErr
      \/ FailConnection([streams EXCEPT ![s] = r])
  BY <1>1 DEF RecordDataFrame
<1>9. UNCHANGED <<initWindowSz, target, orphaned>>
  BY DEF RecvDataUncared
<1> QED
  BY <1>4, <1>5, <1>7, <1>8, <1>9, StreamStep

LEMMA AcceptedStep ==
  ASSUME IInv, NEW s \in Streams, NEW sz \in 0 .. MaxFrame, NEW eos \in BOOLEAN,
         NEW padding \in 0 .. sz, RecvDataAccepted(s, sz - padding, padding, eos)
  PROVE  IInv'
<1> DEFINE payload == sz - padding
           taken == Take(streams[s], sz, payload)
           kept == IF padding > 0 THEN ReleaseStream(taken, padding) ELSE taken
<1>1. /\ sz \in Nat /\ padding \in Nat /\ payload \in Nat /\ padding <= sz
      /\ payload + padding = sz
  BY RecvAssumption, MaxWindowAssumption
<1>2. /\ GoodStream(streams[s], s, initWindowSz) /\ streams[s].state = "streaming"
      /\ WindowSize(streams[s].flow) >= sz
      /\ WindowSize(conn.flow) >= sz
      /\ streams[s].buffered + payload <= MaxBuffered
      /\ conn' = Release(Consume(conn, sz), padding)
      /\ UNCHANGED <<initWindowSz, target, orphaned>>
  BY <1>1 DEF IInv, GoodStreams, RecvDataAccepted
<1>3. PICK st \in AfterData(eos) :
        RecordDataFrame([streams EXCEPT ![s] = [kept EXCEPT !.state = st]], eos)
  BY <1>1 DEF RecvDataAccepted
<1>4. initWindowSz \in 0 .. MaxWindow /\ target \in 0 .. MaxWindow /\ GoodConn(conn, target)
  BY DEF IInv
<1>5. conn.inFlight \in Nat /\ streams[s].inFlight \in Nat
  BY <1>2, MaxWindowAssumption DEF IInv, GoodConn, GoodStream, StreamRecord
<1>6. /\ GoodStream(taken, s, initWindowSz)
      /\ taken.inFlight = streams[s].inFlight + sz
      /\ taken.state = "streaming"
  BY <1>1, <1>2, <1>4, TakenGood
<1>7. /\ GoodStream(kept, s, initWindowSz)
      /\ kept.inFlight = streams[s].inFlight + sz - padding
      /\ kept.state = "streaming"
  <2>1. CASE padding > 0
    <3>1. padding \in 0 .. taken.inFlight
      BY <1>1, <1>5, <1>6
    <3>2. /\ GoodStream(ReleaseStream(taken, padding), s, initWindowSz)
          /\ ReleaseStream(taken, padding).inFlight = taken.inFlight - padding
          /\ ReleaseStream(taken, padding).state = taken.state
      BY <1>4, <1>6, <3>1, ReleaseStreamGood DEF Absent
    <3>3. kept = ReleaseStream(taken, padding)
      BY <2>1
    <3> HIDE DEF taken, kept
    <3>4. kept.inFlight = taken.inFlight - padding /\ kept.state = "streaming"
      BY <1>6, <3>2, <3>3
    <3>5. GoodStream(kept, s, initWindowSz)
      BY <3>2, <3>3
    <3> QED
      BY <1>1, <1>5, <1>6, <3>4, <3>5
  <2>2. CASE ~(padding > 0)
    <3>1. kept = taken /\ padding = 0
      BY <1>1, <2>2
    <3> HIDE DEF taken, kept
    <3> QED
      BY <1>1, <1>5, <1>6, <3>1
  <2> QED
    BY <2>1, <2>2
<1> HIDE DEF taken, kept
<1> DEFINE r == [kept EXCEPT !.state = st]
<1>8. st \in {"streaming", "ended", "closed"}
  BY DEF AfterData
<1>9. GoodStream(r, s, initWindowSz) /\ r.inFlight = kept.inFlight
  BY <1>7, <1>8 DEF GoodStream, StreamRecord, StreamState, WindowBounded, Absent, OpenState
<1>10. /\ GoodConn(Consume(conn, sz), target)
       /\ Consume(conn, sz).inFlight = conn.inFlight + sz
  BY <1>1, <1>2, <1>4, ConsumeGood
<1>11. padding \in 0 .. Consume(conn, sz).inFlight
  BY <1>1, <1>5, <1>10
<1>12. GoodConn(conn', target) /\ conn'.inFlight = conn.inFlight + sz - padding
  <2>1. /\ GoodConn(Release(Consume(conn, sz), padding), target)
        /\ Release(Consume(conn, sz), padding).inFlight = Consume(conn, sz).inFlight - padding
    BY <1>4, <1>10, <1>11, ReleaseGood
  <2>2. conn' = Release(Consume(conn, sz), padding)
    BY <1>2
  <2>3. GoodConn(conn', target) /\ conn'.inFlight = Consume(conn, sz).inFlight - padding
    BY <2>1, <2>2
  <2>4. conn'.inFlight = conn.inFlight + sz - padding
    BY <1>1, <1>5, <1>10, <2>3
  <2> QED
    BY <2>3, <2>4
<1> HIDE DEF r
<1>13. conn'.inFlight = conn.inFlight + r.inFlight - streams[s].inFlight
  BY <1>1, <1>5, <1>7, <1>9, <1>12
<1>14. \/ streams' = [streams EXCEPT ![s] = r] /\ UNCHANGED connErr
       \/ FailConnection([streams EXCEPT ![s] = r])
  BY <1>3 DEF RecordDataFrame, r
<1> QED
  BY <1>2, <1>9, <1>12, <1>13, <1>14, StreamStep

----------------------------------------------------------------------------
(* The life of a stream, and the user.                                     *)

\* One stream's record changes, the connection's account does not.
LEMMA RelabelStep ==
  ASSUME IInv, NEW s \in Streams, NEW r, GoodStream(r, s, initWindowSz),
         r.inFlight = streams[s].inFlight,
         streams' = [streams EXCEPT ![s] = r],
         UNCHANGED <<conn, initWindowSz, connErr, target, orphaned>>
  PROVE  IInv'
<1>1. conn.inFlight \in Int /\ r.inFlight \in Int
  BY MaxWindowAssumption DEF IInv, GoodConn, GoodStream, StreamRecord
<1>2. conn'.inFlight = conn.inFlight + r.inFlight - streams[s].inFlight
  BY <1>1
<1>3. GoodConn(conn', target)
  BY DEF IInv
<1> QED
  BY <1>2, <1>3, StreamStep

LEMMA LifeStep ==
  ASSUME IInv, NEW s \in Streams,
         \/ OpenStream(s) \/ RecvHeaders(s) \/ Accept(s) \/ SendSideCloses(s)
         \/ SendReset(s) \/ CancelPromise(s)
         \/ \E n \in 1 .. streams[s].buffered : PollData(s, n)
  PROVE  IInv'
<1>1. GoodStream(streams[s], s, initWindowSz) /\ initWindowSz \in 0 .. MaxWindow
  BY DEF IInv, GoodStreams
<1>2. streams[s] \in StreamRecord
  BY <1>1 DEF GoodStream
<1>3. CASE OpenStream(s)
  <2>1. PICK st \in {"awaiting", "streaming"}, h \in {"waiting", "held"} :
          streams' = [streams EXCEPT ![s] = NewStream(st, h, initWindowSz)]
    BY <1>3 DEF OpenStream
  <2>2. /\ GoodStream(NewStream(st, h, initWindowSz), s, initWindowSz)
        /\ NewStream(st, h, initWindowSz).inFlight = 0
    BY <1>1, NewStreamGood DEF StreamState, Handle, Absent, OpenState
  <2>3. streams[s].inFlight = 0
    BY <1>1, <1>3 DEF OpenStream, GoodStream, Absent
  <2> QED
    BY <1>3, <2>1, <2>2, <2>3, RelabelStep DEF OpenStream
<1>4. CASE RecvHeaders(s)
  <2>1. PICK st \in {"streaming", "ended", "closed"} :
          streams' = [streams EXCEPT ![s] = [streams[s] EXCEPT !.state = st]]
    BY <1>4 DEF RecvHeaders
  <2> DEFINE r == [streams[s] EXCEPT !.state = st]
  <2>2. GoodStream(r, s, initWindowSz) /\ r.inFlight = streams[s].inFlight
    BY <1>1, <1>2, <1>4
       DEF RecvHeaders, GoodStream, StreamRecord, StreamState, WindowBounded, Absent, OpenState
  <2> QED
    BY <1>4, <2>1, <2>2, RelabelStep DEF RecvHeaders
<1>5. CASE Accept(s)
  <2> DEFINE r == [streams[s] EXCEPT !.handle = "held"]
  <2>1. streams' = [streams EXCEPT ![s] = r]
    BY <1>5 DEF Accept
  <2>2. streams[s].state \notin Absent
    BY <1>5 DEF Accept, Stored, Absent
  <2>3. GoodStream(r, s, initWindowSz) /\ r.inFlight = streams[s].inFlight
    BY <1>1, <1>2, <2>2 DEF GoodStream, StreamRecord, Handle, WindowBounded
  <2> QED
    BY <1>5, <2>1, <2>3, RelabelStep DEF Accept
<1>6. CASE SendSideCloses(s)
  <2> DEFINE r == [streams[s] EXCEPT !.state = "closed"]
  <2>1. streams' = [streams EXCEPT ![s] = r] /\ streams[s].state = "ended"
    BY <1>6 DEF SendSideCloses
  <2>2. GoodStream(r, s, initWindowSz) /\ r.inFlight = streams[s].inFlight
    BY <1>1, <1>2, <2>1
       DEF GoodStream, StreamRecord, StreamState, WindowBounded, Absent, OpenState
  <2> QED
    BY <1>6, <2>1, <2>2, RelabelStep DEF SendSideCloses
<1>7. CASE SendReset(s)
  <2> DEFINE r == [streams[s] EXCEPT !.state = "localReset"]
  <2>1. streams' = [streams EXCEPT ![s] = r] /\ streams[s].state \notin Absent
    BY <1>7 DEF SendReset, Absent, OpenState
  <2>2. GoodStream(r, s, initWindowSz) /\ r.inFlight = streams[s].inFlight
    BY <1>1, <1>2, <2>1
       DEF GoodStream, StreamRecord, StreamState, WindowBounded, Absent, OpenState
  <2> QED
    BY <1>7, <2>1, <2>2, RelabelStep DEF SendReset
<1>8. CASE CancelPromise(s)
  <2> DEFINE cancelled == MaybeCancel(streams[s])
             r == [cancelled EXCEPT !.handle = "dropped"]
  <2>1. /\ streams' = [streams EXCEPT ![s] = r]
        /\ streams[s].state \notin Absent /\ s \in Promised
    BY <1>8 DEF CancelPromise, Stored, Absent
  <2>2. /\ cancelled \in StreamRecord /\ cancelled.flow = streams[s].flow
        /\ cancelled.inFlight = streams[s].inFlight
        /\ cancelled.state \notin OpenState \cup Absent
    BY <1>2, <2>1 DEF MaybeCancel, StreamRecord, StreamState, OpenState, Absent
  <2> HIDE DEF cancelled
  <2>3. /\ r \in StreamRecord /\ r.flow = streams[s].flow /\ r.handle = "dropped"
        /\ r.inFlight = streams[s].inFlight /\ r.state = cancelled.state
    BY <2>2 DEF StreamRecord, Handle
  <2> HIDE DEF r
  <2>4. GoodStream(r, s, initWindowSz)
    BY <1>1, <2>1, <2>2, <2>3, RelabelGood
  <2> QED
    BY <1>8, <2>1, <2>3, <2>4, RelabelStep DEF CancelPromise
<1>9. CASE \E n \in 1 .. streams[s].buffered : PollData(s, n)
  <2>1. PICK n \in 1 .. streams[s].buffered : PollData(s, n)
    BY <1>9
  <2> DEFINE r == [streams[s] EXCEPT !.buffered = @ - n]
  <2>2. streams' = [streams EXCEPT ![s] = r] /\ streams[s].state \notin Absent
    BY <1>1, <2>1 DEF PollData, GoodStream
  <2>3. streams[s].buffered - n \in 0 .. MaxBuffered
    BY <1>2, RecvAssumption DEF StreamRecord
  <2>4. GoodStream(r, s, initWindowSz) /\ r.inFlight = streams[s].inFlight
    BY <1>1, <1>2, <2>3 DEF GoodStream, StreamRecord, WindowBounded
  <2> QED
    BY <2>1, <2>2, <2>4, RelabelStep DEF PollData
<1> QED
  BY <1>3, <1>4, <1>5, <1>6, <1>7, <1>8, <1>9

\* A stream leaves the store with what it holds, which is history.
LEMMA RemoveStep ==
  ASSUME IInv, NEW s \in Streams, RemoveFromStore(s)
  PROVE  IInv'
<1> DEFINE r == NewStream("forgotten", "dropped", 0)
           held == streams[s].inFlight
           rest == [conn EXCEPT !.inFlight = @ - held]
<1>1. GoodStream(r, s, initWindowSz) /\ r.inFlight = 0
  BY NewStreamGood DEF IInv, StreamState, OpenState, Handle, Absent
<1>2. /\ held \in Nat /\ conn.inFlight \in Nat /\ orphaned \in Nat
      /\ rest.inFlight = conn.inFlight - held
  BY MaxWindowAssumption DEF IInv, GoodConn, GoodStreams, GoodStream, StreamRecord
<1> HIDE DEF r
<1>3. rest.inFlight = conn.inFlight + r.inFlight - streams[s].inFlight
  BY <1>1, <1>2
<1> HIDE DEF rest, held
<1>4. /\ GoodStreams([streams EXCEPT ![s] = r], initWindowSz)
      /\ Attributed([streams EXCEPT ![s] = r], rest, orphaned)
  BY <1>1, <1>3, UpdateStream DEF IInv
<1>5. /\ streams' = [streams EXCEPT ![s] = r]
      /\ orphaned' = orphaned + held
      /\ UNCHANGED <<conn, initWindowSz, connErr, target>>
  BY DEF RemoveFromStore, r, held
<1>6. conn'.inFlight = Cardinality(Tokens(Held(streams'))) + orphaned'
  <2>1. Cardinality(Tokens(Held(streams'))) \in Nat
    BY TokensFinite
  <2>2. rest.inFlight = Cardinality(Tokens(Held(streams'))) + orphaned
    BY <1>4, <1>5 DEF Attributed
  <2> QED
    BY <1>2, <1>5, <2>1, <2>2
<1> QED
  BY <1>2, <1>4, <1>5, <1>6 DEF IInv, Attributed

\* Part or all of what a stream holds is released, and the stream may be
\* relabelled on top.
LEMMA ReleasingStep ==
  ASSUME IInv, NEW s \in Streams, NEW r, GoodStream(r, s, initWindowSz),
         NEW sz \in 0 .. streams[s].inFlight,
         r.inFlight = streams[s].inFlight - sz,
         conn' = Release(conn, sz),
         streams' = [streams EXCEPT ![s] = r],
         UNCHANGED <<initWindowSz, connErr, target, orphaned>>
  PROVE  IInv'
<1>1. streams[s].inFlight \in 0 .. conn.inFlight
  BY HeldBounded DEF IInv
<1>2. conn.inFlight \in Nat
  BY MaxWindowAssumption DEF IInv, GoodConn
<1>3. sz \in 0 .. conn.inFlight
  BY <1>1, <1>2
<1>4. GoodConn(conn', target) /\ conn'.inFlight = conn.inFlight - sz
  BY <1>3, ReleaseGood DEF IInv
<1>5. conn'.inFlight = conn.inFlight + r.inFlight - streams[s].inFlight
  BY <1>1, <1>2, <1>3, <1>4
<1> QED
  BY <1>4, <1>5, StreamStep

LEMMA UserReleaseStep ==
  ASSUME IInv, NEW s \in Streams,
         \/ \E sz \in 1 .. streams[s].inFlight : ReleaseCapacity(s, sz)
         \/ DropRecvStream(s) \/ DropStreamRef(s)
  PROVE  IInv'
<1>1. GoodStream(streams[s], s, initWindowSz) /\ initWindowSz \in 0 .. MaxWindow
  BY DEF IInv, GoodStreams
<1>2. /\ streams[s] \in StreamRecord /\ streams[s].handle = "held"
      /\ streams[s].state \notin Absent
      /\ streams[s].inFlight \in 0 .. MaxWindow /\ streams[s].inFlight \in Nat
      /\ streams[s].buffered \in Nat
  BY <1>1, RecvAssumption, MaxWindowAssumption
     DEF GoodStream, StreamRecord, ReleaseCapacity, DropRecvStream, DropStreamRef
<1>3. CASE \E sz \in 1 .. streams[s].inFlight : ReleaseCapacity(s, sz)
  <2>1. PICK sz \in 1 .. streams[s].inFlight : ReleaseCapacity(s, sz)
    BY <1>3
  <2>2. sz \in 0 .. streams[s].inFlight
    BY <1>2
  <2>3. /\ GoodStream(ReleaseStream(streams[s], sz), s, initWindowSz)
        /\ ReleaseStream(streams[s], sz).inFlight = streams[s].inFlight - sz
    BY <1>1, <1>2, <2>2, ReleaseStreamGood
  <2>4. /\ conn' = Release(conn, sz)
        /\ streams' = [streams EXCEPT ![s] = ReleaseStream(streams[s], sz)]
        /\ UNCHANGED <<initWindowSz, connErr, target, orphaned>>
    BY <2>1 DEF ReleaseCapacity
  <2> QED
    BY <2>2, <2>3, <2>4, ReleasingStep
<1>4. CASE DropRecvStream(s)
  <2> DEFINE sz == Unread(streams[s])
             r == [streams[s] EXCEPT !.isRecv = FALSE, !.buffered = 0,
                                     !.inFlight = @ - sz]
  <2>1. sz \in 0 .. streams[s].inFlight
    BY <1>2 DEF Unread, Lesser
  <2>2. /\ conn' = Release(conn, sz)
        /\ streams' = [streams EXCEPT ![s] = r]
        /\ UNCHANGED <<initWindowSz, connErr, target, orphaned>>
    BY <1>4 DEF DropRecvStream
  <2>3. streams[s].inFlight - sz \in 0 .. MaxWindow /\ 0 \in 0 .. MaxBuffered
    BY <1>2, <2>1, RecvAssumption, MaxWindowAssumption
  <2>4. /\ r.inFlight = streams[s].inFlight - sz /\ r.flow = streams[s].flow
        /\ r.handle = "held" /\ r.state = streams[s].state
        /\ r \in StreamRecord
    BY <1>2, <2>3 DEF StreamRecord
  <2>5. WindowBounded(r, initWindowSz)
    <3>1. WindowBounded(streams[s], initWindowSz) /\ streams[s].flow.available \in Int
      BY <1>1, <1>2, MaxWindowAssumption
         DEF GoodStream, StreamRecord, FlowControls, Window, MinWindow
    <3> HIDE DEF r
    <3> QED
      BY <1>1, <1>2, <2>1, <2>3, <2>4, <3>1, MaxWindowAssumption DEF WindowBounded
  <2> HIDE DEF r, sz
  <2>6. GoodStream(r, s, initWindowSz)
    BY <1>2, <2>4, <2>5 DEF GoodStream, Absent
  <2> QED
    BY <2>1, <2>2, <2>4, <2>6, ReleasingStep
<1>5. CASE DropStreamRef(s)
  <2> DEFINE cancelled == MaybeCancel(streams[s])
             r == [cancelled EXCEPT !.handle = "dropped", !.inFlight = 0, !.buffered = 0]
             sz == streams[s].inFlight
  <2>1. /\ conn' = Release(conn, sz)
        /\ streams' = [streams EXCEPT ![s] = r]
        /\ UNCHANGED <<initWindowSz, connErr, target, orphaned>>
    BY <1>5 DEF DropStreamRef
  <2>2. /\ cancelled \in StreamRecord /\ cancelled.flow = streams[s].flow
        /\ cancelled.state \notin OpenState \cup Absent
    BY <1>2 DEF MaybeCancel, StreamRecord, StreamState, OpenState, Absent
  <2> HIDE DEF cancelled
  <2>3. 0 \in 0 .. MaxWindow /\ 0 \in 0 .. MaxBuffered
    BY RecvAssumption, MaxWindowAssumption
  <2>4. /\ r \in StreamRecord /\ r.flow = streams[s].flow /\ r.inFlight = 0
        /\ r.handle = "dropped" /\ r.state \notin OpenState \cup Absent
    BY <2>2, <2>3 DEF StreamRecord, Handle
  <2> HIDE DEF r
  <2>5. WindowBounded(r, initWindowSz)
    <3>1. WindowBounded(streams[s], initWindowSz) /\ streams[s].flow.available \in Int
      BY <1>1, <1>2, MaxWindowAssumption
         DEF GoodStream, StreamRecord, FlowControls, Window, MinWindow
    <3> QED
      BY <1>1, <1>2, <2>4, <3>1, MaxWindowAssumption DEF WindowBounded
  <2>6. GoodStream(r, s, initWindowSz)
    BY <2>4, <2>5 DEF GoodStream, Absent
  <2>7. sz \in 0 .. streams[s].inFlight /\ r.inFlight = streams[s].inFlight - sz
    BY <1>2, <2>4
  <2> QED
    BY <2>1, <2>6, <2>7, ReleasingStep
<1> QED
  BY <1>3, <1>4, <1>5

----------------------------------------------------------------------------
(* Resets, settings, targets and WINDOW_UPDATE frames.                     *)

LEMMA ResetStep ==
  ASSUME IInv, NEW s \in Streams, RecvReset(s)
  PROVE  IInv'
<1> DEFINE r == [streams[s] EXCEPT !.state = "remoteReset"]
<1>1. GoodStream(streams[s], s, initWindowSz) /\ streams[s] \in StreamRecord
  BY DEF IInv, GoodStreams, GoodStream
<1>2. CASE s \in Stored /\ streams' = [streams EXCEPT ![s] = r] /\ UNCHANGED connErr
  <2>1. streams[s].state \notin Absent
    BY <1>2 DEF Stored, Absent
  <2>2. GoodStream(r, s, initWindowSz) /\ r.inFlight = streams[s].inFlight
    BY <1>1, <2>1 DEF GoodStream, StreamRecord, StreamState, WindowBounded, Absent, OpenState
  <2> QED
    BY <1>2, <2>2, RelabelStep DEF RecvReset
<1>3. CASE FailConnection(streams)
  <2>1. [streams EXCEPT ![s] = streams[s]] = streams
    BY DEF IInv, GoodStreams
  <2>2. conn.inFlight \in Int /\ streams[s].inFlight \in Int
    BY <1>1, MaxWindowAssumption DEF IInv, GoodConn, StreamRecord
  <2>3. conn'.inFlight = conn.inFlight + streams[s].inFlight - streams[s].inFlight
    BY <2>2 DEF RecvReset
  <2>4. GoodConn(conn', target) /\ UNCHANGED <<initWindowSz, target, orphaned>>
    BY DEF RecvReset, IInv
  <2>5. FailConnection([streams EXCEPT ![s] = streams[s]])
    BY <1>3, <2>1
  <2> QED
    BY <1>1, <2>3, <2>4, <2>5, StreamStep
<1> QED
  BY <1>2, <1>3 DEF RecvReset

LEMMA StreamUpdateStep ==
  ASSUME IInv, NEW s \in Streams, SendStreamWindowUpdate(s)
  PROVE  IInv'
<1> DEFINE old == streams[s]
           flow == IncWindow(old.flow, StreamIncrement(old))
           r == [old EXCEPT !.pendingWU = FALSE, !.flow = flow]
<1>1. GoodStream(old, s, initWindowSz) /\ old \in StreamRecord
  BY DEF IInv, GoodStreams, GoodStream
<1>2. streams' = [streams EXCEPT ![s] = r]
  BY DEF SendStreamWindowUpdate
<1>3. flow \in FlowControls /\ flow.available = old.flow.available
      /\ (flow = old.flow \/ flow.window = old.flow.available)
  <2>1. old.flow.window \in Int /\ old.flow.available \in Window /\ old.flow \in FlowControls
    BY <1>1, MaxWindowAssumption DEF StreamRecord, FlowControls, Window, MinWindow
  <2>2. CASE old.state = "streaming" /\ IsUnclaimed(old.flow)
    <3>1. old.flow.window + Unclaimed(old.flow) = old.flow.available
      BY <2>1, MaxWindowAssumption DEF Unclaimed, Window, MinWindow
    <3>2. CanIncWindow(old.flow, Unclaimed(old.flow))
      BY <2>1, <3>1, MaxWindowAssumption DEF CanIncWindow, Window, MinWindow
    <3>3. flow = [old.flow EXCEPT !.window = old.flow.available]
      BY <2>2, <3>1, <3>2 DEF IncWindow, StreamIncrement
    <3> HIDE DEF flow, old
    <3> QED
      BY <2>1, <3>3 DEF FlowControls
  <2>3. CASE ~(old.state = "streaming" /\ IsUnclaimed(old.flow))
    <3>1. old.flow.window + 0 = old.flow.window
      BY <2>1
    <3>2. flow = old.flow
      BY <2>1, <2>3, <3>1 DEF IncWindow, StreamIncrement, FlowControls
    <3> QED
      BY <2>1, <3>2
  <2> QED
    BY <2>2, <2>3
<1> HIDE DEF flow
<1>4. /\ r \in StreamRecord /\ r.flow = flow /\ r.inFlight = old.inFlight
      /\ r.state = old.state /\ r.handle = old.handle
  BY <1>1, <1>3 DEF StreamRecord
<1>5. old.state \notin Absent => WindowBounded(r, initWindowSz)
  <2>1. SUFFICES ASSUME old.state \notin Absent PROVE WindowBounded(r, initWindowSz)
    OBVIOUS
  <2>2. WindowBounded(old, initWindowSz) /\ initWindowSz \in 0 .. MaxWindow
    BY <1>1, <2>1 DEF GoodStream, IInv
  <2>3. old.flow.window \in Int /\ old.flow.available \in Int
    BY <1>1, MaxWindowAssumption DEF StreamRecord, FlowControls, Window, MinWindow
  <2> HIDE DEF r, old
  <2> QED
    BY <1>3, <1>4, <2>2, <2>3, MaxWindowAssumption DEF WindowBounded
<1> HIDE DEF r
<1>6. GoodStream(r, s, initWindowSz)
  BY <1>1, <1>4, <1>5 DEF GoodStream
<1> QED
  BY <1>2, <1>4, <1>6, RelabelStep DEF SendStreamWindowUpdate

LEMMA ConnUpdateStep ==
  ASSUME IInv, SendConnectionWindowUpdate
  PROVE  /\ IInv'
         /\ conn'.flow.window = target - conn.inFlight
<1>1. /\ GoodConn(conn, target) /\ target \in 0 .. MaxWindow
      /\ conn.flow.window \in Int /\ conn.flow.available \in Window
      /\ conn.flow \in FlowControls /\ conn.inFlight \in 0 .. MaxWindow
      /\ conn.flow.window < conn.flow.available
  BY MaxWindowAssumption
     DEF IInv, GoodConn, FlowControls, Window, MinWindow,
         SendConnectionWindowUpdate, IsUnclaimed
<1>2. conn.flow.window + Unclaimed(conn.flow) = conn.flow.available
  BY <1>1, MaxWindowAssumption DEF Unclaimed, Window, MinWindow
<1>3. CanIncWindow(conn.flow, Unclaimed(conn.flow))
  BY <1>1, <1>2, MaxWindowAssumption DEF CanIncWindow, Window, MinWindow
<1>4. IncWindow(conn.flow, Unclaimed(conn.flow))
        = [window |-> conn.flow.available, available |-> conn.flow.available]
  BY <1>1, <1>2, <1>3 DEF IncWindow, FlowControls
<1>5. conn' = [flow |-> [window |-> conn.flow.available, available |-> conn.flow.available],
               inFlight |-> conn.inFlight]
  BY <1>1, <1>4 DEF SendConnectionWindowUpdate, GoodConn
<1>6. conn' \in [flow : FlowControls, inFlight : 0 .. MaxWindow]
  BY <1>1, <1>5 DEF FlowControls
<1>7. GoodConn(conn', target)
  BY <1>1, <1>5, <1>6, MaxWindowAssumption DEF GoodConn, Window, MinWindow
<1>8. conn'.inFlight = conn.inFlight
  BY <1>5
<1>9. IInv'
  BY <1>7, <1>8, KeepingStep DEF SendConnectionWindowUpdate, IInv
<1>10. conn'.flow.window = target - conn.inFlight
  BY <1>1, <1>5, MaxWindowAssumption DEF GoodConn, Window, MinWindow
<1> QED
  BY <1>9, <1>10

LEMMA TargetStep ==
  ASSUME IInv, NEW sz \in Targets, SetTargetConnectionWindow(sz)
  PROVE  /\ IInv'
         /\ conn'.flow.window = conn.flow.window
<1>1. /\ GoodConn(conn, target) /\ target \in 0 .. MaxWindow
      /\ conn.flow.window \in Window /\ conn.flow.available \in Window
      /\ conn.flow \in FlowControls /\ conn.inFlight \in 0 .. MaxWindow
      /\ sz \in 0 .. MaxWindow
  BY RecvAssumption DEF IInv, GoodConn, FlowControls
<1>2. CurrentTarget(conn) = target
  BY <1>1 DEF GoodConn, CurrentTarget
<1> DEFINE flow == [window |-> conn.flow.window, available |-> sz - conn.inFlight]
<1>3. sz - conn.inFlight \in Window
  BY <1>1, MaxWindowAssumption DEF Window, MinWindow
<1>4. conn' = [flow |-> flow, inFlight |-> conn.inFlight]
  <2>1. CASE sz > target
    <3>1. conn' = [conn EXCEPT !.flow = AssignCapacity(conn.flow, sz - target)]
      BY <1>2, <2>1 DEF SetTargetConnectionWindow
    <3>2. /\ conn.flow.available + (sz - target) = sz - conn.inFlight
          /\ conn.flow.available + (sz - target) <= MaxWindow
      BY <1>1, <1>3, MaxWindowAssumption DEF GoodConn, Window, MinWindow
    <3>3. AssignCapacity(conn.flow, sz - target) = flow
      BY <1>1, <3>2 DEF AssignCapacity, CanAssign, FlowControls
    <3> HIDE DEF flow
    <3> QED
      BY <1>1, <3>1, <3>3 DEF GoodConn
  <2>2. CASE ~(sz > target)
    <3>1. conn' = [conn EXCEPT !.flow = ClaimCapacity(conn.flow, target - sz)]
      BY <1>2, <2>2 DEF SetTargetConnectionWindow
    <3>2. /\ conn.flow.available - (target - sz) = sz - conn.inFlight
          /\ conn.flow.available - (target - sz) >= MinWindow
      BY <1>1, <1>3, MaxWindowAssumption DEF GoodConn, Window, MinWindow
    <3>3. ClaimCapacity(conn.flow, target - sz) = flow
      BY <1>1, <3>2 DEF ClaimCapacity, CanClaim, FlowControls
    <3> HIDE DEF flow
    <3> QED
      BY <1>1, <3>1, <3>3 DEF GoodConn
  <2> QED
    BY <2>1, <2>2
<1>5. conn' \in [flow : FlowControls, inFlight : 0 .. MaxWindow]
  BY <1>1, <1>3, <1>4 DEF FlowControls
<1>6. GoodConn(conn', sz)
  BY <1>1, <1>4, <1>5, MaxWindowAssumption DEF GoodConn
<1>7. target' = sz /\ UNCHANGED <<initWindowSz, streams, connErr, orphaned>>
  BY DEF SetTargetConnectionWindow
<1>8. conn'.inFlight = conn.inFlight /\ conn'.flow.window = conn.flow.window
  BY <1>4
<1>9. IInv'
  BY <1>1, <1>6, <1>7, <1>8, KeepingStep DEF IInv
<1> QED
  BY <1>8, <1>9

\* The windows of all streams shift by the change of the setting, and
\* dec_recv_window stays within i32 although it checks only one bound.
LEMMA SettingsStep ==
  ASSUME IInv, NEW sz \in InitWindows, ApplyLocalSettings(sz)
  PROVE  IInv'
<1>1. sz \in 0 .. MaxWindow /\ initWindowSz \in 0 .. MaxWindow
  BY RecvAssumption DEF IInv
<1> DEFINE delta == initWindowSz - sz
           shifted(s) == IF s \in Stored
                           THEN [streams[s] EXCEPT !.flow = DecRecvWindow(@, delta)]
                           ELSE streams[s]
<1>2. /\ streams' = [s \in Streams |-> shifted(s)]
      /\ initWindowSz' = sz
      /\ UNCHANGED <<conn, connErr, target, orphaned>>
  BY DEF ApplyLocalSettings
<1>3. ASSUME NEW s \in Streams
      PROVE  /\ GoodStream(shifted(s), s, sz)
             /\ shifted(s).inFlight = streams[s].inFlight
  <2>1. GoodStream(streams[s], s, initWindowSz) /\ streams[s] \in StreamRecord
    BY DEF IInv, GoodStreams, GoodStream
  <2>2. CASE s \in Stored
    <3> DEFINE old == streams[s]
               flow == DecRecvWindow(old.flow, delta)
               r == [old EXCEPT !.flow = flow]
    <3>1. old.state \notin Absent /\ WindowBounded(old, initWindowSz)
      BY <2>1, <2>2 DEF Stored, Absent, GoodStream
    <3>2. /\ old.flow.window \in Window /\ old.flow.available \in Window
          /\ old.inFlight \in 0 .. MaxWindow /\ old.flow \in FlowControls
      BY <2>1 DEF StreamRecord, FlowControls
    <3>3. flow = [window |-> old.flow.window - delta,
                  available |-> old.flow.available - delta]
      <4>1. delta \in Int
        BY <1>1
      <4> HIDE DEF delta
      <4> QED
        BY <3>2, <4>1, DecRecvWindowRecord
    <3>4. old.flow.window - delta \in Window /\ old.flow.available - delta \in Window
      BY <1>1, <3>1, <3>2, MaxWindowAssumption DEF WindowBounded, Window, MinWindow
    <3>5. /\ old.flow.window - delta <= old.flow.available - delta
          /\ old.flow.available - delta + old.inFlight <= sz
          /\ old.flow.window - delta >= sz - MaxWindow
      BY <1>1, <3>1, <3>2, MaxWindowAssumption DEF WindowBounded, Window, MinWindow
    <3>6. flow \in FlowControls
      BY <3>3, <3>4 DEF FlowControls
    <3> HIDE DEF flow, delta
    <3>7. /\ r \in StreamRecord /\ r.flow = flow /\ r.inFlight = old.inFlight
          /\ r.state = old.state /\ r.handle = old.handle
      BY <2>1, <3>6 DEF StreamRecord
    <3>8. WindowBounded(r, sz)
      BY <3>3, <3>5, <3>7 DEF WindowBounded
    <3>9. shifted(s) = r
      BY <2>2 DEF flow
    <3> HIDE DEF r, shifted
    <3>10. GoodStream(r, s, sz)
      BY <2>1, <3>1, <3>7, <3>8 DEF GoodStream
    <3> QED
      BY <3>7, <3>9, <3>10
  <2>3. CASE s \notin Stored
    <3>1. shifted(s) = streams[s] /\ streams[s].state \in Absent
      BY <2>1, <2>3 DEF Stored, Absent
    <3> QED
      BY <2>1, <3>1 DEF GoodStream
  <2> QED
    BY <2>2, <2>3
<1> HIDE DEF shifted, delta
<1>4. GoodStreams(streams', sz)
  BY <1>2, <1>3 DEF GoodStreams, GoodStream
<1>5. \A s \in Streams : streams'[s].inFlight = streams[s].inFlight
  BY <1>2, <1>3
<1>6. /\ GoodConn(conn', target') /\ conn'.inFlight = conn.inFlight
      /\ initWindowSz' \in 0 .. MaxWindow /\ target' \in 0 .. MaxWindow
      /\ connErr' \in BOOLEAN
  BY <1>1, <1>2 DEF IInv
<1>7. GoodStreams(streams', initWindowSz')
  BY <1>2, <1>4
<1> QED
  BY <1>2, <1>5, <1>6, <1>7, KeepingStep

LEMMA BeyondGoAwayStep ==
  ASSUME IInv, NEW sz \in 0 .. MaxFrame, RecvDataBeyondGoAway(sz)
  PROVE  IInv'
<1>1. GoodConn(conn', target) /\ conn'.inFlight = conn.inFlight
  BY PassThrough DEF RecvDataBeyondGoAway
<1> QED
  BY <1>1, KeepingStep DEF RecvDataBeyondGoAway, IInv

----------------------------------------------------------------------------
(* The theorems.                                                           *)

LEMMA InitIInv == Init => IInv
<1> SUFFICES ASSUME Init PROVE IInv
  OBVIOUS
<1> DEFINE idle == NewStream("idle", "waiting", 0)
<1>1. /\ conn = [flow |-> NewFlow(DefaultWindow), inFlight |-> 0]
      /\ initWindowSz = DefaultWindow /\ target = DefaultWindow
      /\ orphaned = 0 /\ connErr = FALSE
      /\ streams = [s \in Streams |-> idle]
  BY DEF Init
<1>2. DefaultWindow \in 0 .. MaxWindow
  BY RecvAssumption
<1>3. conn = [flow |-> [window |-> DefaultWindow, available |-> DefaultWindow], inFlight |-> 0]
  BY <1>1 DEF NewFlow
<1>4. GoodConn(conn, target)
  BY <1>1, <1>2, <1>3, MaxWindowAssumption
     DEF GoodConn, FlowControls, Window, MinWindow
<1>5. \A s \in Streams : GoodStream(idle, s, initWindowSz) /\ idle.inFlight = 0
  BY <1>1, <1>2, NewStreamGood DEF StreamState, Handle, Absent, OpenState
<1> HIDE DEF idle
<1>6. GoodStreams(streams, initWindowSz)
  BY <1>1, <1>5 DEF GoodStreams, GoodStream
<1>7. Attributed(streams, conn, orphaned)
  <2>1. Tokens(Held(streams)) = {}
    <3>1. ASSUME NEW o \in Tokens(Held(streams)) PROVE FALSE
      <4>1. o[1] \in Streams /\ o[2] \in 1 .. MaxWindow /\ o[2] <= Held(streams)[o[1]]
        BY DEF Tokens
      <4>2. Held(streams)[o[1]] = 0
        BY <1>1, <1>5, <4>1 DEF Held
      <4> QED
        BY <4>1, <4>2, MaxWindowAssumption
    <3> QED
      BY <3>1
  <2>2. Cardinality(Tokens(Held(streams))) = 0
    BY <2>1, FS_EmptySet
  <2> QED
    BY <1>1, <1>3, <2>2 DEF Attributed
<1> QED
  BY <1>1, <1>2, <1>4, <1>6, <1>7 DEF IInv

LEMMA NextIInv == IInv /\ [Next]_vars => IInv'
<1> SUFFICES ASSUME IInv, [Next]_vars PROVE IInv'
  OBVIOUS
<1>1. ASSUME NEW s \in Streams, Connection(s) PROVE IInv'
  <2>1. ASSUME RecvData(s) PROVE IInv'
    <3>1. CASE RecvDataUnexpected(s)
      <4>1. 0 \in 0 .. MaxFrame
        BY RecvAssumption, MaxWindowAssumption
      <4> QED
        BY <3>1, <4>1, IgnoredStep
    <3>2. ASSUME NEW sz \in 0 .. MaxFrame,
                 \/ RecvDataOverConnWindow(s, sz) \/ RecvDataIgnored(s, sz)
                 \/ RecvDataForgotten(s, sz) \/ RecvDataStreamError(s, sz)
          PROVE  IInv'
      BY <3>2, IgnoredStep, ForgottenStep, StreamErrorStep
    <3>3. ASSUME NEW sz \in 0 .. MaxFrame, NEW eos \in BOOLEAN,
                 \/ RecvDataUncared(s, sz, eos)
                 \/ \E padding \in 0 .. sz :
                      RecvDataAccepted(s, sz - padding, padding, eos)
          PROVE  IInv'
      BY <3>3, UncaredStep, AcceptedStep
    <3> QED
      BY <2>1, <3>1, <3>2, <3>3 DEF RecvData
  <2> QED
    BY <1>1, <2>1, LifeStep, ResetStep, RemoveStep, StreamUpdateStep DEF Connection
<1>2. ASSUME NEW s \in Streams, User(s) PROVE IInv'
  BY <1>2, LifeStep, UserReleaseStep DEF User
<1>3. CASE \E sz \in 0 .. MaxFrame : RecvDataBeyondGoAway(sz)
  BY <1>3, BeyondGoAwayStep
<1>4. CASE \E sz \in InitWindows : ApplyLocalSettings(sz)
  BY <1>4, SettingsStep
<1>5. CASE \E sz \in Targets : SetTargetConnectionWindow(sz)
  BY <1>5, TargetStep
<1>6. CASE SendConnectionWindowUpdate
  BY <1>6, ConnUpdateStep
<1>7. CASE UNCHANGED vars
  BY <1>7 DEF vars, IInv, Attributed, GoodConn, GoodStreams
<1> QED
  BY <1>1, <1>2, <1>3, <1>4, <1>5, <1>6, <1>7 DEF Next

\* IInv is an invariant of the receive side.
THEOREM Invariance == Spec => []IInv
<1>1. Init => IInv
  BY InitIInv
<1>2. IInv /\ [Next]_vars => IInv'
  BY NextIInv
<1> QED
  BY <1>1, <1>2, PTL DEF Spec

\* What the octets history counts is bounded by what is in flight.
LEMMA OrphansBounded == IInv => orphaned \in 0 .. MaxWindow
<1> SUFFICES ASSUME IInv PROVE orphaned \in 0 .. MaxWindow
  OBVIOUS
<1>1. conn.inFlight = Cardinality(Tokens(Held(streams))) + orphaned
  BY DEF IInv, Attributed
<1>2. Cardinality(Tokens(Held(streams))) \in Nat
  BY TokensFinite
<1>3. conn.inFlight \in 0 .. MaxWindow /\ orphaned \in Nat
  BY DEF IInv, GoodConn
<1> QED
  BY <1>1, <1>2, <1>3, MaxWindowAssumption

\* All checked arithmetic on windows stays in i32, for every peer and user.
THEOREM TypeCorrect == Spec => []TypeOK
<1>1. IInv => TypeOK
  BY OrphansBounded DEF IInv, TypeOK, GoodConn, GoodStreams
<1> QED
  BY <1>1, Invariance, PTL

\* Every octet of the target window is either available or in flight.
THEOREM LedgerAlwaysBalanced == Spec => []LedgerBalanced
<1>1. IInv => LedgerBalanced
  BY DEF IInv, GoodConn, LedgerBalanced
<1> QED
  BY <1>1, Invariance, PTL

\* The connection's in-flight total is the sum over its streams, and over
\* those that left the store.
THEOREM InFlightAlwaysAttributed == Spec => []InFlightAttributed
<1>1. Tokens(Held(streams)) = InFlightOctets
  BY DEF Tokens, Held, InFlightOctets
<1>2. IInv => InFlightAttributed
  BY <1>1 DEF IInv, Attributed, InFlightAttributed
<1> QED
  BY <1>2, Invariance, PTL

\* A stream without handles holds nothing, however late its DATA arrives.
THEOREM DroppedAlwaysHoldsNothing == Spec => []DroppedHoldsNothing
<1>1. IInv => DroppedHoldsNothing
  BY DEF IInv, GoodStreams, GoodStream, DroppedHoldsNothing
<1> QED
  BY <1>1, Invariance, PTL

\* The peer's allowance and what is in flight fit a window together.
THEOREM ExposureAlwaysBounded == Spec => []ConnExposureBounded
<1>1. IInv => ConnExposureBounded
  BY DEF IInv, GoodConn, ConnExposureBounded
<1> QED
  BY <1>1, Invariance, PTL

\* A stream's window never runs ahead of its room.
THEOREM StreamWindowAlwaysBounded == Spec => []StreamWindowBounded
<1>1. IInv => StreamWindowBounded
  BY DEF IInv, GoodStreams, GoodStream, WindowBounded, StreamWindowBounded,
         Stored, Absent
<1> QED
  BY <1>1, Invariance, PTL

\* Octets are lost to the connection only with promised streams: on a server,
\* and on a client that disabled push, nothing ever leaves the store with
\* octets in flight.
THEOREM NothingOrphanedWithoutPush ==
  ASSUME Promised = {}
  PROVE  Spec => []NothingOrphaned
<1> DEFINE None == orphaned = 0
<1>1. Init => None
  BY DEF Init
<1>2. IInv /\ None /\ [Next]_vars => None'
  <2> SUFFICES ASSUME IInv, None, [Next]_vars PROVE None'
    OBVIOUS
  <2>1. ASSUME NEW s \in Streams, RemoveFromStore(s) PROVE None'
    <3>1. streams[s].inFlight = 0
      BY <2>1 DEF RemoveFromStore, IInv, GoodStreams, GoodStream
    <3> QED
      BY <2>1, <3>1 DEF RemoveFromStore
  <2>2. ASSUME NEW s \in Streams, Connection(s), ~RemoveFromStore(s) PROVE None'
    <3>1. CASE RecvData(s)
      BY <3>1
         DEF RecvData, RecvDataUnexpected, RecvDataOverConnWindow, RecvDataIgnored,
             RecvDataForgotten, RecvDataStreamError, RecvDataUncared, RecvDataAccepted
    <3> QED
      BY <2>2, <3>1
         DEF Connection, OpenStream, RecvHeaders, RecvReset, SendSideCloses,
             SendStreamWindowUpdate
  <2>3. ASSUME NEW s \in Streams, User(s) PROVE None'
    BY <2>3 DEF User, Accept, SendReset, DropRecvStream, DropStreamRef, CancelPromise,
                PollData, ReleaseCapacity
  <2> QED
    BY <2>1, <2>2, <2>3
       DEF Next, vars, RecvDataBeyondGoAway, ApplyLocalSettings,
           SetTargetConnectionWindow, SendConnectionWindowUpdate
<1>3. None => NothingOrphaned
  BY DEF NothingOrphaned
<1> QED
  BY <1>1, <1>2, <1>3, Invariance, PTL DEF Spec

\* Charging and releasing octets never widens the peer's window.
LEMMA AccountNarrows ==
  ASSUME NEW c, NEW t \in 0 .. MaxWindow, GoodConn(c, t), NEW sz \in Nat,
         WindowSize(c.flow) >= sz, NEW back \in 0 .. sz
  PROVE  Release(Consume(c, sz), back).flow.window <= c.flow.window
<1>1. GoodConn(Consume(c, sz), t) /\ Consume(c, sz).inFlight = c.inFlight + sz
  BY ConsumeGood
<1>2. c.flow \in FlowControls /\ c.flow.window \in Int
  BY MaxWindowAssumption DEF GoodConn, FlowControls, Window, MinWindow
<1>3. Consume(c, sz).flow.window = c.flow.window - sz
  BY <1>2, SendDataRecord DEF Consume
<1>4. Consume(c, sz).flow \in FlowControls
  BY <1>1 DEF GoodConn
<1>5. Release(Consume(c, sz), back).flow.window = Consume(c, sz).flow.window
  BY <1>4 DEF Release, AssignCapacity, FlowControls
<1> QED
  BY <1>2, <1>3, <1>5

LEMMA ReleaseKeepsWindow ==
  ASSUME NEW c, NEW t, GoodConn(c, t), NEW sz
  PROVE  Release(c, sz).flow.window = c.flow.window
BY DEF GoodConn, Release, AssignCapacity, FlowControls

\* The peer is only ever told of what is free under the current target.
THEOREM AlwaysAdvertisesOnlyFree == Spec => AdvertisesOnlyFree
<1>1. IInv /\ [Next]_vars =>
        [conn.flow.window' > conn.flow.window =>
           conn.flow.window' = target - conn.inFlight]_vars
  <2> SUFFICES ASSUME IInv, Next, ~SendConnectionWindowUpdate
               PROVE  conn'.flow.window <= conn.flow.window
    <3>1. IInv /\ SendConnectionWindowUpdate
            => conn'.flow.window = target - conn.inFlight
      BY ConnUpdateStep
    <3>2. IInv => conn.flow.window \in Int
      BY MaxWindowAssumption DEF IInv, GoodConn, FlowControls, Window, MinWindow
    <3>3. IInv /\ Next => conn'.flow.window \in Int
      BY NextIInv, MaxWindowAssumption DEF IInv, GoodConn, FlowControls, Window, MinWindow
    <3> QED
      BY <3>1, <3>2, <3>3
  <2>1. /\ GoodConn(conn, target) /\ target \in 0 .. MaxWindow
        /\ conn.flow.window \in Int
    BY MaxWindowAssumption DEF IInv, GoodConn, FlowControls, Window, MinWindow
  <2>2. 0 .. MaxFrame \subseteq Nat
    BY RecvAssumption, MaxWindowAssumption
  <2>3. ASSUME NEW s \in Streams, RecvData(s)
        PROVE  conn'.flow.window <= conn.flow.window
    <3>1. ASSUME NEW sz \in 0 .. MaxFrame,
                 \/ RecvDataIgnored(s, sz) \/ RecvDataForgotten(s, sz)
                 \/ RecvDataStreamError(s, sz)
                 \/ \E eos \in BOOLEAN : RecvDataUncared(s, sz, eos)
          PROVE  conn'.flow.window <= conn.flow.window
      <4>1. /\ conn' = Release(Consume(conn, sz), sz)
            /\ WindowSize(conn.flow) >= sz
        BY <3>1 DEF RecvDataIgnored, RecvDataForgotten, RecvDataStreamError,
                    RecvDataUncared
      <4>2. sz \in Nat /\ sz \in 0 .. sz
        BY <2>2
      <4> QED
        BY <2>1, <4>1, <4>2, AccountNarrows
    <3>2. ASSUME NEW sz \in 0 .. MaxFrame, NEW eos \in BOOLEAN, NEW padding \in 0 .. sz,
                 RecvDataAccepted(s, sz - padding, padding, eos)
          PROVE  conn'.flow.window <= conn.flow.window
      <4>1. sz \in Nat /\ sz - padding + padding = sz
        BY <2>2
      <4>2. /\ conn' = Release(Consume(conn, sz), padding)
            /\ WindowSize(conn.flow) >= sz
        BY <3>2, <4>1 DEF RecvDataAccepted
      <4> QED
        BY <2>1, <4>1, <4>2, AccountNarrows
    <3>3. ASSUME \/ RecvDataUnexpected(s)
                 \/ \E sz \in 0 .. MaxFrame : RecvDataOverConnWindow(s, sz)
          PROVE  conn'.flow.window <= conn.flow.window
      BY <2>1, <3>3 DEF RecvDataUnexpected, RecvDataOverConnWindow
    <3> QED
      BY <2>3, <3>1, <3>2, <3>3 DEF RecvData
  <2>4. ASSUME NEW s \in Streams, Connection(s)
        PROVE  conn'.flow.window <= conn.flow.window
    BY <2>1, <2>3, <2>4
       DEF Connection, OpenStream, RecvHeaders, RecvReset, SendSideCloses,
           RemoveFromStore, SendStreamWindowUpdate
  <2>5. ASSUME NEW s \in Streams, User(s)
        PROVE  conn'.flow.window <= conn.flow.window
    <3>1. ASSUME NEW sz, conn' = Release(conn, sz)
          PROVE  conn'.flow.window <= conn.flow.window
      BY <2>1, <3>1, ReleaseKeepsWindow
    <3>2. ASSUME conn' = conn PROVE conn'.flow.window <= conn.flow.window
      BY <2>1, <3>2
    <3>3. CASE \E sz \in 1 .. streams[s].inFlight : ReleaseCapacity(s, sz)
      BY <3>1, <3>3 DEF ReleaseCapacity
    <3>4. CASE DropRecvStream(s) \/ DropStreamRef(s)
      BY <3>1, <3>4 DEF DropRecvStream, DropStreamRef
    <3> QED
      BY <2>5, <3>2, <3>3, <3>4
         DEF User, Accept, SendReset, CancelPromise, PollData
  <2>6. ASSUME NEW sz \in 0 .. MaxFrame, RecvDataBeyondGoAway(sz)
        PROVE  conn'.flow.window <= conn.flow.window
    <3>1. sz \in Nat /\ sz \in 0 .. sz
      BY <2>2
    <3> QED
      BY <2>1, <2>6, <3>1, AccountNarrows DEF RecvDataBeyondGoAway
  <2>7. ASSUME NEW sz \in Targets, SetTargetConnectionWindow(sz)
        PROVE  conn'.flow.window <= conn.flow.window
    BY <2>1, <2>7, TargetStep
  <2>8. CASE \E sz \in InitWindows : ApplyLocalSettings(sz)
    BY <2>1, <2>8 DEF ApplyLocalSettings
  <2> QED
    BY <2>4, <2>5, <2>6, <2>7, <2>8 DEF Next
<1> QED
  BY <1>1, Invariance, PTL DEF Spec, AdvertisesOnlyFree

----------------------------------------------------------------------------
(* RecvFlow implements Ledger.                                             *)

\* Charging sz octets and giving some back at once is what Receive says.
LEMMA ConsumeReceives ==
  ASSUME NEW c, NEW t \in 0 .. MaxWindow, GoodConn(c, t), NEW sz \in Nat,
         WindowSize(c.flow) >= sz, NEW back \in 0 .. sz
  PROVE  /\ sz \in 0 .. c.flow.window
         /\ Release(Consume(c, sz), back).flow.window = c.flow.window - sz
         /\ Release(Consume(c, sz), back).inFlight = c.inFlight + sz - back
<1>1. /\ GoodConn(Consume(c, sz), t)
      /\ Consume(c, sz).inFlight = c.inFlight + sz
  BY ConsumeGood
<1>2. c.flow \in FlowControls /\ c.flow.window \in 0 .. MaxWindow /\ c.inFlight \in Nat
  BY MaxWindowAssumption DEF GoodConn, FlowControls, Window, MinWindow
<1>3. Consume(c, sz).flow.window = c.flow.window - sz
  BY <1>2, SendDataRecord, MaxWindowAssumption DEF Consume
<1>4. Release(Consume(c, sz), back).flow.window = Consume(c, sz).flow.window
  BY <1>1, ReleaseKeepsWindow
<1>5. Release(Consume(c, sz), back).inFlight = Consume(c, sz).inFlight - back
  BY DEF Release
<1>6. sz \in 0 .. c.flow.window
  BY <1>2, MaxWindowAssumption DEF WindowSize, AsSize
<1> QED
  BY <1>1, <1>2, <1>3, <1>4, <1>5, <1>6

\* The frame of every step that changes the account by DATA or by a release.
LEMMA AccountReceives ==
  ASSUME IInv, NEW sz \in Nat, NEW back \in 0 .. sz, WindowSize(conn.flow) >= sz,
         conn' = Release(Consume(conn, sz), back), target' = target
  PROVE  Account!Next
<1>1. /\ sz \in 0 .. conn.flow.window
      /\ conn'.flow.window = conn.flow.window - sz
      /\ conn'.inFlight = conn.inFlight + sz - back
  BY ConsumeReceives DEF IInv
<1>2. Account!Receive(sz, back)
  BY <1>1 DEF Account!Receive
<1> QED
  BY <1>1, <1>2 DEF Account!Next

LEMMA AccountGivesBack ==
  ASSUME IInv, NEW sz \in 0 .. conn.inFlight, conn' = Release(conn, sz), target' = target
  PROVE  Account!Next
<1>1. conn'.flow.window = conn.flow.window
  BY ReleaseKeepsWindow DEF IInv
<1>2. conn'.inFlight = conn.inFlight - sz
  BY DEF Release
<1>3. Account!GiveBack(sz)
  BY <1>1, <1>2 DEF Account!GiveBack
<1> QED
  BY <1>3 DEF Account!Next

\* A step that leaves the connection's account alone stutters.
LEMMA AccountStutters ==
  ASSUME conn' = conn, target' = target
  PROVE  UNCHANGED Account!account
BY DEF Account!account

LEMMA AccountData ==
  ASSUME IInv, NEW s \in Streams, RecvData(s)
  PROVE  [Account!Next]_(Account!account)
<1>1. 0 .. MaxFrame \subseteq Nat
  BY RecvAssumption, MaxWindowAssumption
<1>2. ASSUME NEW sz \in 0 .. MaxFrame,
             \/ RecvDataIgnored(s, sz) \/ RecvDataForgotten(s, sz)
             \/ RecvDataStreamError(s, sz)
             \/ \E eos \in BOOLEAN : RecvDataUncared(s, sz, eos)
      PROVE  Account!Next
  <2>1. /\ conn' = Release(Consume(conn, sz), sz) /\ target' = target
        /\ WindowSize(conn.flow) >= sz
    BY <1>2 DEF RecvDataIgnored, RecvDataForgotten, RecvDataStreamError, RecvDataUncared
  <2>2. sz \in Nat /\ sz \in 0 .. sz
    BY <1>1
  <2> QED
    BY <2>1, <2>2, AccountReceives
<1>3. ASSUME NEW sz \in 0 .. MaxFrame, NEW eos \in BOOLEAN, NEW padding \in 0 .. sz,
             RecvDataAccepted(s, sz - padding, padding, eos)
      PROVE  Account!Next
  <2>1. sz \in Nat /\ sz - padding + padding = sz
    BY <1>1
  <2>2. /\ conn' = Release(Consume(conn, sz), padding) /\ target' = target
        /\ WindowSize(conn.flow) >= sz
    BY <1>3, <2>1 DEF RecvDataAccepted
  <2> QED
    BY <2>1, <2>2, AccountReceives
<1>4. ASSUME \/ RecvDataUnexpected(s)
             \/ \E sz \in 0 .. MaxFrame : RecvDataOverConnWindow(s, sz)
      PROVE  UNCHANGED Account!account
  <2>1. conn' = conn /\ target' = target
    BY <1>4 DEF RecvDataUnexpected, RecvDataOverConnWindow
  <2> QED
    BY <2>1, AccountStutters
<1> QED
  BY <1>2, <1>3, <1>4 DEF RecvData

LEMMA AccountUser ==
  ASSUME IInv, NEW s \in Streams, User(s)
  PROVE  [Account!Next]_(Account!account)
<1>1. /\ streams[s].inFlight \in 0 .. conn.inFlight
      /\ streams[s].inFlight \in Nat /\ streams[s].buffered \in Nat
      /\ conn.inFlight \in Nat
  <2>1. streams[s].inFlight \in 0 .. conn.inFlight
    BY HeldBounded DEF IInv
  <2>2. streams[s] \in StreamRecord /\ conn.inFlight \in Nat
    BY MaxWindowAssumption DEF IInv, GoodStreams, GoodConn
  <2> QED
    BY <2>1, <2>2, MaxWindowAssumption, RecvAssumption DEF StreamRecord
<1>2. Unread(streams[s]) \in 0 .. conn.inFlight
  BY <1>1 DEF Unread, Lesser
<1>3. CASE \E sz \in 1 .. streams[s].inFlight : ReleaseCapacity(s, sz)
  <2>1. PICK sz \in 1 .. streams[s].inFlight : ReleaseCapacity(s, sz)
    BY <1>3
  <2>2. conn' = Release(conn, sz) /\ target' = target /\ sz \in 0 .. conn.inFlight
    BY <1>1, <2>1 DEF ReleaseCapacity
  <2> QED
    BY <2>2, AccountGivesBack
<1>4. CASE DropRecvStream(s)
  <2>1. conn' = Release(conn, Unread(streams[s])) /\ target' = target
    BY <1>4 DEF DropRecvStream
  <2> QED
    BY <1>2, <2>1, AccountGivesBack
<1>5. CASE DropStreamRef(s)
  <2>1. conn' = Release(conn, streams[s].inFlight) /\ target' = target
    BY <1>5 DEF DropStreamRef
  <2> QED
    BY <1>1, <2>1, AccountGivesBack
<1>6. ASSUME \/ Accept(s) \/ SendReset(s) \/ CancelPromise(s)
             \/ \E n \in 1 .. streams[s].buffered : PollData(s, n)
      PROVE  UNCHANGED Account!account
  <2>1. conn' = conn /\ target' = target
    BY <1>6 DEF Accept, SendReset, CancelPromise, PollData
  <2> QED
    BY <2>1, AccountStutters
<1> QED
  BY <1>3, <1>4, <1>5, <1>6 DEF User

\* A new target moves capacity only: nothing is advertised or taken back.
LEMMA AccountRetargets ==
  ASSUME IInv, NEW sz \in Targets, SetTargetConnectionWindow(sz)
  PROVE  Account!Next
<1>1. conn.flow \in FlowControls
  BY DEF IInv, GoodConn
<1>2. \A n : /\ AssignCapacity(conn.flow, n).window = conn.flow.window
             /\ ClaimCapacity(conn.flow, n).window = conn.flow.window
  BY <1>1 DEF AssignCapacity, ClaimCapacity, FlowControls
<1>3. conn \in [flow : FlowControls, inFlight : 0 .. MaxWindow]
  BY DEF IInv, GoodConn
<1>4. conn'.flow.window = conn.flow.window /\ conn'.inFlight = conn.inFlight
  BY <1>2, <1>3 DEF SetTargetConnectionWindow
<1>5. target' = sz /\ sz \in 0 .. MaxWindow
  BY RecvAssumption DEF SetTargetConnectionWindow
<1>6. Account!Retarget(sz)
  BY <1>4, <1>5 DEF Account!Retarget
<1> QED
  BY <1>5, <1>6 DEF Account!Next

\* A connection WINDOW_UPDATE advertises what the ledger has free.
LEMMA AccountAdvertises ==
  ASSUME IInv, SendConnectionWindowUpdate
  PROVE  Account!Next
<1>1. conn'.flow.window = target - conn.inFlight
  BY ConnUpdateStep
<1>2. conn \in [flow : FlowControls, inFlight : 0 .. MaxWindow]
  BY DEF IInv, GoodConn
<1>3. conn'.inFlight = conn.inFlight /\ target' = target
  BY <1>2 DEF SendConnectionWindowUpdate
<1>4. conn.flow.window < target - conn.inFlight
  <2>1. conn.flow.window < conn.flow.available
    BY DEF SendConnectionWindowUpdate, IsUnclaimed
  <2>2. conn.flow.available + conn.inFlight = target
    BY DEF IInv, GoodConn
  <2>3. /\ conn.flow.available \in Int /\ conn.flow.window \in Int
        /\ conn.inFlight \in Int /\ target \in Int
    BY <1>2, MaxWindowAssumption DEF IInv, FlowControls, Window, MinWindow
  <2> QED
    BY <2>1, <2>2, <2>3
<1>5. Account!Advertise
  BY <1>1, <1>3, <1>4 DEF Account!Advertise
<1> QED
  BY <1>5 DEF Account!Next

\* Every step of the receive side is a step of the ledger, or none.
LEMMA StepKeepsLedger ==
  IInv /\ [Next]_vars => [Account!Next]_(Account!account)
<1> SUFFICES ASSUME IInv, [Next]_vars PROVE [Account!Next]_(Account!account)
  OBVIOUS
<1>1. ASSUME NEW s \in Streams, Connection(s)
      PROVE  [Account!Next]_(Account!account)
  <2>1. CASE RecvData(s)
    BY <2>1, AccountData
  <2>2. ASSUME \/ OpenStream(s) \/ RecvHeaders(s) \/ RecvReset(s)
               \/ SendSideCloses(s) \/ RemoveFromStore(s) \/ SendStreamWindowUpdate(s)
        PROVE  UNCHANGED Account!account
    <3>1. conn' = conn /\ target' = target
      BY <2>2 DEF OpenStream, RecvHeaders, RecvReset, SendSideCloses, RemoveFromStore,
                  SendStreamWindowUpdate
    <3> QED
      BY <3>1, AccountStutters
  <2> QED
    BY <1>1, <2>1, <2>2 DEF Connection
<1>2. ASSUME NEW sz \in 0 .. MaxFrame, RecvDataBeyondGoAway(sz)
      PROVE  Account!Next
  <2>1. sz \in Nat /\ sz \in 0 .. sz
    BY RecvAssumption, MaxWindowAssumption
  <2> QED
    BY <1>2, <2>1, AccountReceives DEF RecvDataBeyondGoAway
<1>3. ASSUME \/ \E sz \in InitWindows : ApplyLocalSettings(sz)
             \/ UNCHANGED vars
      PROVE  UNCHANGED Account!account
  <2>1. conn' = conn /\ target' = target
    BY <1>3 DEF ApplyLocalSettings, vars
  <2> QED
    BY <2>1, AccountStutters
<1> QED
  BY <1>1, <1>2, <1>3, AccountUser, AccountRetargets, AccountAdvertises DEF Next

\* The connection's window, as the peer sees it, is the account of Ledger.
THEOREM ImplementsLedger == Spec => KeepsLedger
<1>1. Init => Account!Init
  BY DEF Init, Account!Init, NewFlow
<1>2. IInv /\ [Next]_vars => [Account!Next]_(Account!account)
  BY StepKeepsLedger
<1> QED
  BY <1>1, <1>2, Invariance, PTL DEF Spec, KeepsLedger, Account!Spec

----------------------------------------------------------------------------
(***************************************************************************)
(* The composition with a peer: the two accounts of every window agree.    *)
(*                                                                         *)
(* Every step is one of RecvFlow or leaves its variables alone, so that    *)
(* IInv holds.  PInv adds what ties the peer's account to this             *)
(* endpoint's: what is under way on the wires (Wires), where the settings  *)
(* are (Handshake), the connection's window (ConnAccount) and the windows  *)
(* of each stream (StreamAccount).                                         *)
(***************************************************************************)

DataFrames ==
  {f \in [type : {"data"}, stream : Streams, sz : 0 .. MaxFrame,
          payload : 0 .. MaxFrame, padding : 0 .. MaxFrame, eos : BOOLEAN] :
     f.sz = f.payload + f.padding}

FramesFromPeer ==
  DataFrames \cup [type : {"headers", "reset"}, stream : Streams, sz : {0}]
             \cup [type : {"ack"}]

FramesToPeer ==
  [type : {"connUpdate"}, sz : Nat] \cup [type : {"settings"}, sz : InitWindows]
  \cup [type : {"streamUpdate", "headers"}, stream : Streams, sz : Nat]

\* What is under way; HEADERS only for a request the peer does not know.
Wires(tp, fp, p) ==
  /\ tp \in Seq(FramesToPeer) /\ fp \in Seq(FramesFromPeer)
  /\ \A i \in 1 .. Len(tp) :
       tp[i].type = "headers" => tp[i].stream \in Requests /\ p.state[tp[i].stream] = "none"
  /\ \A i, j \in 1 .. Len(tp) :
       tp[i].type = "headers" /\ tp[j].type = "headers" /\ tp[i].stream = tp[j].stream => i = j

PeerTypes(p) ==
  /\ p \in [conn : Int, init : 0 .. MaxWindow, stream : [Streams -> Int],
            state : [Streams -> {"none", "open", "done"}]]
  /\ p.conn >= 0

Acked(fp) == \E i \in 1 .. Len(fp) : fp[i].type = "ack"

\* A change of the settings is under way to the peer, or its acknowledgement
\* is on the way back, or neither.
Handshake(pending, init, tp, fp, p) ==
  /\ pending \in SUBSET InitWindows
  /\ \A v \in pending : v # init /\ pending = {v}
  /\ \A i \in 1 .. Len(tp) : tp[i].type = "settings" => pending = {tp[i].sz} /\ ~Acked(fp)
  /\ \A i, j \in 1 .. Len(tp) : tp[i].type = "settings" /\ tp[j].type = "settings" => i = j
  /\ \A i, j \in 1 .. Len(fp) : fp[i].type = "ack" /\ fp[j].type = "ack" => i = j
  /\ IF Acked(fp) THEN pending = {p.init} ELSE p.init = init

ConnAccount(c, err, tp, fp, p) ==
  LET known == p.conn + Octets(fp, "data") + Octets(tp, "connUpdate")
  IN  known <= c.flow.window /\ (err \/ known = c.flow.window)

StreamOctets(wire, type, s) ==
  [i \in DOMAIN wire |->
     IF wire[i].type = type /\ wire[i].stream = s THEN wire[i].sz ELSE 0]

Data(fp, s, n) == Total(StreamOctets(fp, "data", s), n)

Updates(tp, s) == Total(StreamOctets(tp, "streamUpdate", s), Len(tp))

\* The window s has, or will have when it is opened.
WindowOf(strs, init, s) ==
  IF strs[s].state = "idle" THEN init ELSE strs[s].flow.window

Receiving(strs, err, s) == ~err /\ strs[s].state \in {"idle", "awaiting", "streaming"}

\* What the peer knows of the window w of a stream: nothing as long as it has
\* not heard of the stream.  Data sent after the acknowledgement is covered
\* by the new window, data sent before it by the old one.
Covered(s, w, init, tp, fp, p) ==
  /\ p.state[s] = "none" => w >= init
  /\ p.state[s] # "none" =>
       p.stream[s] + Data(fp, s, Len(fp)) + Updates(tp, s) <= w + p.init - init
  /\ \A a \in 1 .. Len(fp) :
       fp[a].type = "ack" =>
         /\ Data(fp, s, a) <= AsSize(w)
         /\ Data(fp, s, Len(fp)) > Data(fp, s, a) => p.stream[s] >= 0
  /\ ~Acked(fp) /\ Data(fp, s, Len(fp)) > 0 => p.stream[s] >= 0

StreamAccount(s, w, receiving, init, tp, fp, p) ==
  /\ p.state[s] = "none" =>
       p.stream[s] = 0 /\ Data(fp, s, Len(fp)) = 0 /\ Updates(tp, s) = 0
  /\ p.state[s] # "none" => p.stream[s] + Updates(tp, s) <= p.init
  /\ receiving => Covered(s, w, init, tp, fp, p)

StreamAccounts(strs, err, init, tp, fp, p) ==
  \A s \in Streams :
    StreamAccount(s, WindowOf(strs, init, s), Receiving(strs, err, s), init, tp, fp, p)

PInv ==
  /\ Wires(toPeer, fromPeer, peer)
  /\ PeerTypes(peer)
  /\ Handshake(pendingSettings, initWindowSz, toPeer, fromPeer, peer)
  /\ ConnAccount(conn, connErr, toPeer, fromPeer, peer)
  /\ StreamAccounts(streams, connErr, initWindowSz, toPeer, fromPeer, peer)

----------------------------------------------------------------------------
(* What is under way, frame by frame.                                      *)

Frames == FramesFromPeer \cup FramesToPeer

LEMMA FrameSize ==
  ASSUME NEW f \in Frames, f.type # "ack"
  PROVE  f.sz \in Nat
<1>1. 0 .. MaxFrame \subseteq Nat /\ InitWindows \subseteq Nat
  BY RecvAssumption, MaxWindowAssumption
<1>2. CASE f \in DataFrames
  BY <1>1, <1>2 DEF DataFrames
<1>3. CASE f \in [type : {"headers", "reset"}, stream : Streams, sz : {0}]
  BY <1>3
<1>4. CASE f \in [type : {"ack"}]
  BY <1>4
<1>5. CASE f \in FramesToPeer
  BY <1>1, <1>5 DEF FramesToPeer
<1> QED
  BY <1>2, <1>3, <1>4, <1>5 DEF Frames, FramesFromPeer

LEMMA WiresAreOfFrames ==
  /\ \A wire \in Seq(FramesFromPeer) : wire \in Seq(Frames)
  /\ \A wire \in Seq(FramesToPeer) : wire \in Seq(Frames)
BY DEF Frames

LEMMA AppendedWire ==
  ASSUME NEW X, NEW wire \in Seq(X), NEW f \in X
  PROVE  /\ Append(wire, f) \in Seq(X)
         /\ Len(Append(wire, f)) = Len(wire) + 1
         /\ DOMAIN Append(wire, f) = 1 .. Len(wire) + 1
         /\ \A i \in 1 .. Len(wire) : Append(wire, f)[i] = wire[i]
         /\ Append(wire, f)[Len(wire) + 1] = f
OBVIOUS

LEMMA TailOfWire ==
  ASSUME NEW X, NEW wire \in Seq(X), wire # <<>>
  PROVE  /\ Tail(wire) \in Seq(X)
         /\ Len(wire) \in Nat /\ Len(wire) >= 1
         /\ Len(Tail(wire)) = Len(wire) - 1
         /\ DOMAIN Tail(wire) = 1 .. Len(wire) - 1
         /\ \A i \in 1 .. Len(wire) - 1 : Tail(wire)[i] = wire[i + 1]
         /\ Head(wire) = wire[1] /\ Head(wire) \in X
OBVIOUS

\* What a frame adds to the octets of its type, and to those of its stream.
Weight(f, type) == IF f.type = type THEN f.sz ELSE 0
StreamWeight(f, type, s) == IF f.type = type /\ f.stream = s THEN f.sz ELSE 0

LEMMA WeightsAreNatural ==
  ASSUME NEW wire \in Seq(Frames), NEW type, type # "ack"
  PROVE  /\ \A i \in 1 .. Len(wire) : FrameOctets(wire, type)[i] = Weight(wire[i], type)
         /\ \A i \in 1 .. Len(wire) : FrameOctets(wire, type)[i] \in Nat
<1>1. \A i \in 1 .. Len(wire) : wire[i].type = type => wire[i].sz \in Nat
  <2>1. \A i \in 1 .. Len(wire) : wire[i] \in Frames
    OBVIOUS
  <2> QED
    BY <2>1, FrameSize
<1> QED
  BY <1>1 DEF FrameOctets, Weight

LEMMA StreamWeightsAreNatural ==
  ASSUME NEW wire \in Seq(Frames), NEW type, type # "ack", NEW s
  PROVE  /\ \A i \in 1 .. Len(wire) : StreamOctets(wire, type, s)[i] = StreamWeight(wire[i], type, s)
         /\ \A i \in 1 .. Len(wire) : StreamOctets(wire, type, s)[i] \in Nat
<1>1. \A i \in 1 .. Len(wire) : wire[i].type = type => wire[i].sz \in Nat
  <2>1. \A i \in 1 .. Len(wire) : wire[i] \in Frames
    OBVIOUS
  <2> QED
    BY <2>1, FrameSize
<1> QED
  BY <1>1 DEF StreamOctets, StreamWeight

LEMMA WeightType ==
  ASSUME NEW f \in Frames, NEW type, type # "ack", NEW s
  PROVE  Weight(f, type) \in Nat /\ StreamWeight(f, type, s) \in Nat
BY FrameSize DEF Weight, StreamWeight

LEMMA OctetsType ==
  ASSUME NEW wire \in Seq(Frames), NEW type, type # "ack", NEW s, NEW n \in 0 .. Len(wire)
  PROVE  /\ Octets(wire, type) \in Nat
         /\ \A i \in 1 .. Len(wire) : Weight(wire[i], type) <= Octets(wire, type)
         /\ Total(StreamOctets(wire, type, s), n) \in Nat
         /\ \A i \in 1 .. n : StreamWeight(wire[i], type, s) <= Total(StreamOctets(wire, type, s), n)
<1>1. Len(wire) \in Nat /\ n \in Nat
  OBVIOUS
<1>2. \A i \in 1 .. n : StreamOctets(wire, type, s)[i] \in Nat
  <2>1. \A i \in 1 .. Len(wire) : StreamOctets(wire, type, s)[i] \in Nat
    BY StreamWeightsAreNatural
  <2>2. \A i \in 1 .. n : i \in 1 .. Len(wire)
    OBVIOUS
  <2> QED
    BY <2>1, <2>2
<1>3. /\ Octets(wire, type) \in Nat
      /\ \A i \in 1 .. Len(wire) : FrameOctets(wire, type)[i] <= Octets(wire, type)
  BY <1>1, WeightsAreNatural, TotalOfNaturals DEF Octets
<1>4. /\ Total(StreamOctets(wire, type, s), n) \in Nat
      /\ \A i \in 1 .. n : StreamOctets(wire, type, s)[i] <= Total(StreamOctets(wire, type, s), n)
  BY <1>1, <1>2, TotalOfNaturals
<1>5. \A i \in 1 .. n : i \in 1 .. Len(wire)
  OBVIOUS
<1> QED
  BY <1>3, <1>4, <1>5, WeightsAreNatural, StreamWeightsAreNatural

LEMMA OctetsOfAppend ==
  ASSUME NEW wire \in Seq(Frames), NEW f \in Frames, NEW type, type # "ack"
  PROVE  Octets(Append(wire, f), type) = Octets(wire, type) + Weight(f, type)
<1> DEFINE longer == Append(wire, f)
<1>1. longer \in Seq(Frames) /\ Len(longer) = Len(wire) + 1 /\ Len(wire) \in Nat
  BY AppendedWire
<1>2. \A i \in 1 .. Len(wire) : i \in 1 .. Len(longer) /\ longer[i] = wire[i]
  BY <1>1, AppendedWire
<1>3. longer[Len(wire) + 1] = f /\ Len(wire) + 1 \in 1 .. Len(longer)
  BY <1>1, AppendedWire
<1>4. Summable(FrameOctets(wire, type), Len(wire))
  BY WeightsAreNatural DEF Summable
<1>5. FrameOctets(longer, type)[Len(wire) + 1] = Weight(f, type)
  <2> HIDE DEF longer
  <2> QED BY <1>1, <1>3, WeightsAreNatural
<1>6. Agree(FrameOctets(wire, type), FrameOctets(longer, type), Len(wire))
  <2> HIDE DEF longer
  <2>1. \A i \in 1 .. Len(longer) : FrameOctets(longer, type)[i] = Weight(longer[i], type)
    BY <1>1, WeightsAreNatural
  <2>2. \A i \in 1 .. Len(wire) : FrameOctets(wire, type)[i] = Weight(wire[i], type)
    BY WeightsAreNatural
  <2> QED
    BY <1>2, <2>1, <2>2 DEF Agree
<1>7. Weight(f, type) \in Int
  BY WeightType
<1>8. Total(FrameOctets(longer, type), Len(wire) + 1)
        = Total(FrameOctets(wire, type), Len(wire)) + Weight(f, type)
  <2> HIDE DEF longer
  <2> QED BY <1>1, <1>4, <1>5, <1>6, <1>7, TotalOfLonger
<1> QED
  BY <1>1, <1>8 DEF Octets

LEMMA OctetsOfTail ==
  ASSUME NEW wire \in Seq(Frames), wire # <<>>, NEW type, type # "ack"
  PROVE  Octets(wire, type) = Weight(Head(wire), type) + Octets(Tail(wire), type)
<1> DEFINE rest == Tail(wire)
           n == Len(rest)
<1>1. rest \in Seq(Frames) /\ Len(wire) = n + 1 /\ n \in Nat /\ Head(wire) = wire[1]
  BY TailOfWire
<1>2. \A i \in 1 .. n : rest[i] = wire[i + 1] /\ i + 1 \in 1 .. Len(wire)
  BY TailOfWire
<1> HIDE DEF rest
<1>3. Summable(FrameOctets(wire, type), n + 1)
  BY <1>1, WeightsAreNatural DEF Summable
<1>4. \A i \in 1 .. n : FrameOctets(rest, type)[i] = FrameOctets(wire, type)[i + 1]
  <2>1. \A i \in 1 .. n : FrameOctets(rest, type)[i] = Weight(rest[i], type)
    BY <1>1, WeightsAreNatural
  <2>2. \A i \in 1 .. Len(wire) : FrameOctets(wire, type)[i] = Weight(wire[i], type)
    BY WeightsAreNatural
  <2> QED
    BY <1>2, <2>1, <2>2
<1>5. Total(FrameOctets(wire, type), n + 1)
        = FrameOctets(wire, type)[1] + Total(FrameOctets(rest, type), n)
  BY <1>1, <1>3, <1>4, TotalOfRest
<1>6. FrameOctets(wire, type)[1] = Weight(Head(wire), type)
  <2>1. 1 \in 1 .. Len(wire)
    BY <1>1
  <2> QED
    BY <1>1, <2>1, WeightsAreNatural
<1> QED
  BY <1>1, <1>5, <1>6 DEF Octets, rest

\* The same for one stream, up to any frame.
LEMMA StreamOctetsOfAppend ==
  ASSUME NEW wire \in Seq(Frames), NEW f \in Frames, NEW type, type # "ack", NEW s
  PROVE  LET longer == StreamOctets(Append(wire, f), type, s)
         IN  /\ Total(longer, Len(wire) + 1)
                  = Total(StreamOctets(wire, type, s), Len(wire)) + StreamWeight(f, type, s)
             /\ \A k \in 0 .. Len(wire) :
                  Total(longer, k) = Total(StreamOctets(wire, type, s), k)
<1> DEFINE longer == Append(wire, f)
<1>1. longer \in Seq(Frames) /\ Len(longer) = Len(wire) + 1 /\ Len(wire) \in Nat
  BY AppendedWire
<1>2. \A i \in 1 .. Len(wire) : i \in 1 .. Len(longer) /\ longer[i] = wire[i]
  BY <1>1, AppendedWire
<1>3. longer[Len(wire) + 1] = f /\ Len(wire) + 1 \in 1 .. Len(longer)
  BY <1>1, AppendedWire
<1>4. Summable(StreamOctets(wire, type, s), Len(wire))
  <2>1. \A i \in 1 .. Len(wire) : StreamOctets(wire, type, s)[i] \in Nat
    BY StreamWeightsAreNatural
  <2> QED
    BY <2>1 DEF Summable
<1> HIDE DEF longer
<1>5. StreamOctets(longer, type, s)[Len(wire) + 1] = StreamWeight(f, type, s)
  BY <1>1, <1>3, StreamWeightsAreNatural
<1>6. Agree(StreamOctets(wire, type, s), StreamOctets(longer, type, s), Len(wire))
  <2>1. \A i \in 1 .. Len(longer) : StreamOctets(longer, type, s)[i] = StreamWeight(longer[i], type, s)
    BY <1>1, StreamWeightsAreNatural, ZenonT(60)
  <2>2. \A i \in 1 .. Len(wire) : StreamOctets(wire, type, s)[i] = StreamWeight(wire[i], type, s)
    BY StreamWeightsAreNatural
  <2> QED
    BY <1>2, <2>1, <2>2 DEF Agree
<1>7. StreamWeight(f, type, s) \in Int
  BY WeightType, SMTT(30)
<1>8. /\ Total(StreamOctets(longer, type, s), Len(wire) + 1)
           = Total(StreamOctets(wire, type, s), Len(wire)) + StreamWeight(f, type, s)
      /\ \A k \in 0 .. Len(wire) :
           Total(StreamOctets(longer, type, s), k) = Total(StreamOctets(wire, type, s), k)
  BY <1>1, <1>4, <1>5, <1>6, <1>7, TotalOfLonger
<1> QED
  BY <1>8 DEF longer

LEMMA StreamOctetsOfTail ==
  ASSUME NEW wire \in Seq(Frames), wire # <<>>, NEW type, type # "ack", NEW s,
         NEW n \in Nat, n + 1 <= Len(wire)
  PROVE  Total(StreamOctets(wire, type, s), n + 1)
           = StreamWeight(Head(wire), type, s) + Total(StreamOctets(Tail(wire), type, s), n)
<1> DEFINE rest == Tail(wire)
<1>1. rest \in Seq(Frames) /\ Len(wire) = Len(rest) + 1 /\ Len(wire) \in Nat /\ Head(wire) = wire[1]
  BY TailOfWire
<1>2. \A i \in 1 .. n : rest[i] = wire[i + 1] /\ i + 1 \in 1 .. Len(wire) /\ i \in 1 .. Len(rest)
  BY <1>1, TailOfWire
<1> HIDE DEF rest
<1>3. Summable(StreamOctets(wire, type, s), n + 1)
  <2>1. \A i \in 1 .. n + 1 : i \in 1 .. Len(wire)
    BY <1>1
  <2>2. \A i \in 1 .. Len(wire) : StreamOctets(wire, type, s)[i] \in Nat
    BY StreamWeightsAreNatural
  <2> QED
    BY <2>1, <2>2 DEF Summable
<1>4. \A i \in 1 .. n : StreamOctets(rest, type, s)[i] = StreamOctets(wire, type, s)[i + 1]
  <2>1. \A i \in 1 .. Len(rest) : StreamOctets(rest, type, s)[i] = StreamWeight(rest[i], type, s)
    BY <1>1, StreamWeightsAreNatural
  <2>2. \A i \in 1 .. Len(wire) : StreamOctets(wire, type, s)[i] = StreamWeight(wire[i], type, s)
    BY StreamWeightsAreNatural
  <2> QED
    BY <1>2, <2>1, <2>2
<1>5. Total(StreamOctets(wire, type, s), n + 1)
        = StreamOctets(wire, type, s)[1] + Total(StreamOctets(rest, type, s), n)
  BY <1>3, <1>4, TotalOfRest
<1>6. StreamOctets(wire, type, s)[1] = StreamWeight(Head(wire), type, s)
  <2>1. 1 \in 1 .. Len(wire)
    BY <1>1
  <2>2. \A i \in 1 .. Len(wire) : StreamOctets(wire, type, s)[i] = StreamWeight(wire[i], type, s)
    BY StreamWeightsAreNatural
  <2> QED
    BY <1>1, <2>1, <2>2
<1> QED
  BY <1>5, <1>6 DEF rest

----------------------------------------------------------------------------
(* How the account of one stream changes with the wires.                   *)

LEMMA DataOfAppend ==
  ASSUME NEW fp \in Seq(FramesFromPeer), NEW f \in FramesFromPeer, NEW s
  PROVE  /\ Data(Append(fp, f), s, Len(fp) + 1)
              = Data(fp, s, Len(fp)) + StreamWeight(f, "data", s)
         /\ \A k \in 0 .. Len(fp) : Data(Append(fp, f), s, k) = Data(fp, s, k)
         /\ StreamWeight(f, "data", s) \in Nat
<1>1. fp \in Seq(Frames) /\ f \in Frames
  BY WiresAreOfFrames DEF Frames
<1>2. StreamWeight(f, "data", s) \in Nat
  BY <1>1, WeightType
<1> QED
  BY <1>1, <1>2, StreamOctetsOfAppend DEF Data

LEMMA DataOfTail ==
  ASSUME NEW fp \in Seq(FramesFromPeer), fp # <<>>, NEW s
  PROVE  /\ \A n \in 0 .. Len(fp) - 1 :
              Data(fp, s, n + 1) = StreamWeight(Head(fp), "data", s) + Data(Tail(fp), s, n)
         /\ StreamWeight(Head(fp), "data", s) \in Nat
<1>1. fp \in Seq(Frames) /\ Head(fp) \in Frames
  BY WiresAreOfFrames DEF Frames
<1>2. StreamWeight(Head(fp), "data", s) \in Nat
  BY <1>1, WeightType
<1>3. \A n \in 0 .. Len(fp) - 1 : n \in Nat /\ n + 1 <= Len(fp)
  OBVIOUS
<1> QED
  BY <1>1, <1>2, <1>3, StreamOctetsOfTail DEF Data

LEMMA DataType ==
  ASSUME NEW fp \in Seq(FramesFromPeer), NEW s
  PROVE  \A n \in 0 .. Len(fp) : Data(fp, s, n) \in Nat
<1>1. fp \in Seq(Frames)
  BY WiresAreOfFrames
<1> QED
  BY <1>1, OctetsType DEF Data

LEMMA UpdatesType ==
  ASSUME NEW tp \in Seq(FramesToPeer), NEW s
  PROVE  Updates(tp, s) \in Nat
<1>1. tp \in Seq(Frames) /\ Len(tp) \in 0 .. Len(tp)
  BY WiresAreOfFrames
<1> QED
  BY <1>1, OctetsType DEF Updates

LEMMA UpdatesOfAppend ==
  ASSUME NEW tp \in Seq(FramesToPeer), NEW f \in FramesToPeer, NEW s
  PROVE  /\ Updates(Append(tp, f), s) = Updates(tp, s) + StreamWeight(f, "streamUpdate", s)
         /\ StreamWeight(f, "streamUpdate", s) \in Nat
<1>1. tp \in Seq(Frames) /\ f \in Frames /\ Len(Append(tp, f)) = Len(tp) + 1
  BY WiresAreOfFrames DEF Frames
<1>2. StreamWeight(f, "streamUpdate", s) \in Nat
  BY <1>1, WeightType
<1> QED
  BY <1>1, <1>2, StreamOctetsOfAppend DEF Updates

LEMMA UpdatesOfTail ==
  ASSUME NEW tp \in Seq(FramesToPeer), tp # <<>>, NEW s
  PROVE  /\ Updates(tp, s) = StreamWeight(Head(tp), "streamUpdate", s) + Updates(Tail(tp), s)
         /\ StreamWeight(Head(tp), "streamUpdate", s) \in Nat
<1>1. tp \in Seq(Frames) /\ Head(tp) \in Frames /\ Len(Tail(tp)) + 1 = Len(tp)
      /\ Len(Tail(tp)) \in Nat
  BY WiresAreOfFrames DEF Frames
<1>2. StreamWeight(Head(tp), "streamUpdate", s) \in Nat
  BY <1>1, WeightType
<1>3. Total(StreamOctets(tp, "streamUpdate", s), Len(Tail(tp)) + 1)
        = StreamWeight(Head(tp), "streamUpdate", s)
            + Total(StreamOctets(Tail(tp), "streamUpdate", s), Len(Tail(tp)))
  BY <1>1, StreamOctetsOfTail
<1> QED
  BY <1>1, <1>2, <1>3 DEF Updates

PeerOf(p, s) == /\ p.stream[s] \in Int /\ p.init \in Int

\* What is read leaves the wire and the window alike.
LEMMA DebitedOnce ==
  ASSUME NEW credit \in Int, NEW rest \in Nat, NEW wt \in Nat, NEW upd \in Nat,
         NEW w \in Int, NEW w2 \in Int, NEW new \in Int, NEW old \in Int,
         credit + (wt + rest) + upd <= w + new - old, w2 >= w - wt
  PROVE  credit + rest + upd <= w2 + new - old
OBVIOUS

\* A frame other than the acknowledgement is read, and DATA is charged.
LEMMA ReadAccount ==
  ASSUME NEW s, NEW w \in Int, NEW w2 \in Int, NEW rec \in BOOLEAN, NEW rec2 \in BOOLEAN,
         NEW init \in Int, NEW tp \in Seq(FramesToPeer), NEW fp \in Seq(FramesFromPeer),
         fp # <<>>, Head(fp).type # "ack", NEW p, PeerOf(p, s),
         StreamAccount(s, w, rec, init, tp, fp, p),
         rec2 => rec /\ w2 >= w - StreamWeight(Head(fp), "data", s)
  PROVE  StreamAccount(s, w2, rec2, init, tp, Tail(fp), p)
<1> DEFINE rest == Tail(fp)
           wt == StreamWeight(Head(fp), "data", s)
<1>1. /\ rest \in Seq(FramesFromPeer) /\ Len(fp) \in Nat /\ Len(fp) >= 1
      /\ Len(rest) = Len(fp) - 1 /\ Head(fp) = fp[1]
      /\ \A i \in 1 .. Len(rest) : rest[i] = fp[i + 1]
  BY TailOfWire
<1>2. /\ wt \in Nat
      /\ \A n \in 0 .. Len(rest) : /\ Data(fp, s, n + 1) = wt + Data(rest, s, n)
                                   /\ Data(rest, s, n) \in Nat
  BY <1>1, DataOfTail, DataType
<1>3. Updates(tp, s) \in Nat
  BY UpdatesType
<1>4. Data(fp, s, Len(fp)) = wt + Data(rest, s, Len(rest)) /\ Data(rest, s, Len(rest)) \in Nat
  BY <1>1, <1>2
<1>5. Acked(fp) => Acked(rest)
  <2>1. ASSUME NEW i \in 1 .. Len(fp), fp[i].type = "ack"
        PROVE  i - 1 \in 1 .. Len(rest) /\ rest[i - 1].type = "ack"
    BY <1>1, <2>1
  <2> QED
    BY <2>1 DEF Acked
<1> HIDE DEF rest, wt
<1>6. p.state[s] = "none" => p.stream[s] = 0 /\ Data(rest, s, Len(rest)) = 0 /\ Updates(tp, s) = 0
  BY <1>2, <1>4 DEF StreamAccount
<1>7. p.state[s] # "none" => p.stream[s] + Updates(tp, s) <= p.init
  BY DEF StreamAccount
<1>8. ASSUME rec2
      PROVE  Covered(s, w2, init, tp, rest, p)
  <2>1. rec /\ Covered(s, w, init, tp, fp, p) /\ w2 >= w - wt
    BY <1>8 DEF StreamAccount, wt
  <2>2. p.state[s] = "none" => w2 >= init
    BY <1>2, <1>4, <2>1 DEF StreamAccount, Covered
  <2>3. p.state[s] # "none" =>
          p.stream[s] + Data(rest, s, Len(rest)) + Updates(tp, s) <= w2 + p.init - init
    <3>1. p.state[s] # "none" =>
            p.stream[s] + Data(fp, s, Len(fp)) + Updates(tp, s) <= w + p.init - init
      BY <2>1 DEF Covered
    <3>2. p.stream[s] \in Int /\ p.init \in Int
      BY DEF PeerOf
    <3>3. wt \in Nat /\ w2 >= w - wt
      BY <1>2, <2>1
    <3>4. Updates(tp, s) \in Nat /\ Data(rest, s, Len(rest)) \in Nat
      BY <1>3, <1>4
    <3> QED
      BY <1>4, <3>1, <3>2, <3>3, <3>4, DebitedOnce
  <2>4. ASSUME NEW a \in 1 .. Len(rest), rest[a].type = "ack"
        PROVE  /\ Data(rest, s, a) <= AsSize(w2)
               /\ Data(rest, s, Len(rest)) > Data(rest, s, a) => p.stream[s] >= 0
    <3>1. a + 1 \in 1 .. Len(fp) /\ fp[a + 1].type = "ack"
      BY <1>1, <2>4
    <3>2. /\ Data(fp, s, a + 1) <= AsSize(w)
          /\ Data(fp, s, Len(fp)) > Data(fp, s, a + 1) => p.stream[s] >= 0
      BY <2>1, <3>1 DEF Covered
    <3>3. Data(fp, s, a + 1) = wt + Data(rest, s, a) /\ Data(rest, s, a) \in Nat
      BY <1>2
    <3> QED
      BY <1>2, <1>4, <2>1, <3>2, <3>3 DEF AsSize
  <2>5. ~Acked(rest) /\ Data(rest, s, Len(rest)) > 0 => p.stream[s] >= 0
    BY <1>2, <1>4, <1>5, <2>1 DEF Covered
  <2> QED
    BY <2>2, <2>3, <2>4, <2>5 DEF Covered
<1> QED
  BY <1>6, <1>7, <1>8 DEF StreamAccount, rest

\* The peer sends a frame, and debits its account for DATA.
LEMMA SentAccount ==
  ASSUME NEW s, NEW w \in Int, NEW rec \in BOOLEAN,
         NEW init \in Int, NEW tp \in Seq(FramesToPeer), NEW fp \in Seq(FramesFromPeer),
         NEW f \in FramesFromPeer, f.type # "ack", NEW p, PeerOf(p, s), NEW p2,
         StreamAccount(s, w, rec, init, tp, fp, p),
         p2.stream[s] = p.stream[s] - StreamWeight(f, "data", s), p2.init = p.init,
         (p2.state[s] = "none") <=> (p.state[s] = "none"),
         StreamWeight(f, "data", s) > 0 => p.state[s] # "none" /\ p2.stream[s] >= 0
  PROVE  StreamAccount(s, w, rec, init, tp, Append(fp, f), p2)
<1> DEFINE more == Append(fp, f)
           wt == StreamWeight(f, "data", s)
           n == Len(fp)
<1>1. /\ more \in Seq(FramesFromPeer) /\ n \in Nat /\ Len(more) = n + 1
      /\ \A i \in 1 .. n : more[i] = fp[i]
      /\ more[n + 1] = f
  BY AppendedWire
<1>2. /\ wt \in Nat /\ Data(more, s, n + 1) = Data(fp, s, n) + wt
      /\ \A k \in 0 .. n : Data(more, s, k) = Data(fp, s, k)
  BY DataOfAppend
<1>3. /\ Updates(tp, s) \in Nat /\ p.stream[s] \in Int /\ p.init \in Int
      /\ \A k \in 0 .. n : Data(fp, s, k) \in Nat
  BY UpdatesType, DataType DEF PeerOf
<1>4. n \in 0 .. n
  BY <1>1
<1>5. p2.stream[s] = p.stream[s] - wt /\ p2.init = p.init
      /\ (wt > 0 => p.state[s] # "none" /\ p2.stream[s] >= 0)
  OBVIOUS
<1> HIDE DEF more, wt, n
<1>6. Acked(fp) => Acked(more)
  BY <1>1 DEF Acked, n
<1>7. p2.state[s] = "none" =>
        p2.stream[s] = 0 /\ Data(more, s, Len(more)) = 0 /\ Updates(tp, s) = 0
  <2> SUFFICES ASSUME p2.state[s] = "none" PROVE p2.stream[s] = 0 /\ Data(more, s, Len(more)) = 0 /\ Updates(tp, s) = 0
    OBVIOUS
  <2>1. wt = 0 /\ p.stream[s] = 0 /\ Data(fp, s, n) = 0 /\ Updates(tp, s) = 0
    BY <1>2, <1>5 DEF StreamAccount, n
  <2> QED
    BY <1>1, <1>2, <1>5, <2>1
<1>8. p2.state[s] # "none" => p2.stream[s] + Updates(tp, s) <= p2.init
  BY <1>2, <1>3, <1>5 DEF StreamAccount
<1>9. ASSUME rec
      PROVE  Covered(s, w, init, tp, more, p2)
  <2>1. Covered(s, w, init, tp, fp, p)
    BY <1>9 DEF StreamAccount
  <2>2. p2.state[s] = "none" => w >= init
    BY <2>1 DEF Covered
  <2>3. p2.state[s] # "none" =>
          p2.stream[s] + Data(more, s, Len(more)) + Updates(tp, s) <= w + p2.init - init
    <3>1. p2.state[s] # "none" =>
            p.stream[s] + Data(fp, s, n) + Updates(tp, s) <= w + p.init - init
      BY <2>1 DEF Covered, n
    <3> QED
      BY <1>1, <1>2, <1>3, <1>4, <1>5, <3>1
  <2>4. ASSUME NEW a \in 1 .. Len(more), more[a].type = "ack"
        PROVE  /\ Data(more, s, a) <= AsSize(w)
               /\ Data(more, s, Len(more)) > Data(more, s, a) => p2.stream[s] >= 0
    <3>1. a \in 1 .. n /\ a \in 0 .. n /\ fp[a].type = "ack"
      BY <1>1, <2>4
    <3>2. /\ Data(fp, s, a) <= AsSize(w)
          /\ Data(fp, s, n) > Data(fp, s, a) => p.stream[s] >= 0
      BY <2>1, <3>1 DEF Covered, n
    <3>3. Data(more, s, a) = Data(fp, s, a) /\ Data(fp, s, a) \in Nat /\ Data(fp, s, n) \in Nat
      BY <1>2, <1>3, <1>4, <3>1
    <3> QED
      BY <1>1, <1>2, <1>3, <1>5, <3>2, <3>3
  <2>5. ~Acked(more) /\ Data(more, s, Len(more)) > 0 => p2.stream[s] >= 0
    <3>1. ~Acked(fp) /\ Data(fp, s, n) > 0 => p.stream[s] >= 0
      BY <2>1 DEF Covered, n
    <3> QED
      BY <1>1, <1>2, <1>3, <1>4, <1>5, <1>6, <3>1
  <2> QED
    BY <2>2, <2>3, <2>4, <2>5 DEF Covered
<1> QED
  BY <1>7, <1>8, <1>9 DEF StreamAccount, more

\* The peer learns of a stream that it opens or that was requested.
LEMMA OpenedAccount ==
  ASSUME NEW s, NEW w \in Int, NEW rec \in BOOLEAN,
         NEW init \in Int, NEW tp \in Seq(FramesToPeer), NEW fp \in Seq(FramesFromPeer),
         NEW p, PeerOf(p, s), NEW p2,
         StreamAccount(s, w, rec, init, tp, fp, p),
         p.state[s] = "none", p2.state[s] # "none", p2.stream[s] = p.init, p2.init = p.init
  PROVE  StreamAccount(s, w, rec, init, tp, fp, p2)
<1>1. /\ Updates(tp, s) = 0 /\ Data(fp, s, Len(fp)) = 0
      /\ p.init \in Int
      /\ rec => Covered(s, w, init, tp, fp, p)
  BY DEF StreamAccount, PeerOf
<1>2. Len(fp) \in Nat /\ \A a \in 1 .. Len(fp) : Data(fp, s, a) \in Nat
  BY DataType
<1>3. ASSUME rec
      PROVE  Covered(s, w, init, tp, fp, p2)
  <2>1. w >= init
    BY <1>1, <1>3 DEF Covered
  <2>2. p2.stream[s] + Data(fp, s, Len(fp)) + Updates(tp, s) <= w + p2.init - init
    BY <1>1, <2>1
  <2>3. ASSUME NEW a \in 1 .. Len(fp), fp[a].type = "ack"
        PROVE  Data(fp, s, a) <= AsSize(w) /\ ~(Data(fp, s, Len(fp)) > Data(fp, s, a))
    BY <1>1, <1>2, <1>3, <2>3 DEF Covered
  <2> QED
    BY <1>1, <2>1, <2>2, <2>3 DEF Covered
<1> QED
  BY <1>1, <1>3 DEF StreamAccount

\* The peer reads a frame, and credits its account for WINDOW_UPDATE.
LEMMA CreditedAccount ==
  ASSUME NEW s, NEW w \in Int, NEW rec \in BOOLEAN,
         NEW init \in Int, NEW tp \in Seq(FramesToPeer), tp # <<>>, NEW fp \in Seq(FramesFromPeer),
         NEW p, PeerOf(p, s), NEW p2,
         StreamAccount(s, w, rec, init, tp, fp, p),
         p2.stream[s] = p.stream[s] + StreamWeight(Head(tp), "streamUpdate", s),
         p2.init = p.init, p2.state[s] = p.state[s]
  PROVE  StreamAccount(s, w, rec, init, Tail(tp), fp, p2)
<1> DEFINE wt == StreamWeight(Head(tp), "streamUpdate", s)
           rest == Tail(tp)
<1>1. rest \in Seq(FramesToPeer)
  BY TailOfWire
<1>2. /\ wt \in Nat /\ Updates(tp, s) = wt + Updates(rest, s) /\ Updates(rest, s) \in Nat
      /\ p.stream[s] \in Int /\ p.init \in Int
      /\ \A k \in 0 .. Len(fp) : Data(fp, s, k) \in Nat
      /\ Len(fp) \in 0 .. Len(fp)
  <2>1. wt \in Nat /\ Updates(tp, s) = wt + Updates(rest, s)
    BY UpdatesOfTail
  <2>2. Updates(rest, s) \in Nat
    BY <1>1, UpdatesType
  <2>3. \A k \in 0 .. Len(fp) : Data(fp, s, k) \in Nat
    BY DataType
  <2> QED
    BY <2>1, <2>2, <2>3 DEF PeerOf
<1>3. p2.stream[s] = p.stream[s] + wt
  OBVIOUS
<1> HIDE DEF wt, rest
<1>4. p2.state[s] = "none" =>
        p2.stream[s] = 0 /\ Data(fp, s, Len(fp)) = 0 /\ Updates(rest, s) = 0
  BY <1>2, <1>3 DEF StreamAccount
<1>5. p2.state[s] # "none" => p2.stream[s] + Updates(rest, s) <= p2.init
  BY <1>2, <1>3 DEF StreamAccount
<1>6. ASSUME rec
      PROVE  Covered(s, w, init, rest, fp, p2)
  <2>1. Covered(s, w, init, tp, fp, p)
    BY <1>6 DEF StreamAccount
  <2>2. p2.state[s] # "none" =>
          p2.stream[s] + Data(fp, s, Len(fp)) + Updates(rest, s) <= w + p2.init - init
    <3>1. p2.state[s] # "none" =>
          p.stream[s] + Data(fp, s, Len(fp)) + Updates(tp, s) <= w + p.init - init
      BY <2>1 DEF Covered
    <3>2. Data(fp, s, Len(fp)) \in Nat /\ p.stream[s] \in Int /\ p.init \in Int
      BY <1>2
    <3>3. wt \in Nat /\ Updates(tp, s) = wt + Updates(rest, s) /\ Updates(rest, s) \in Nat
      BY <1>2
    <3> QED
      BY <1>3, <3>1, <3>2, <3>3
  <2> QED
    BY <1>2, <1>3, <2>1, <2>2 DEF Covered
<1> QED
  BY <1>4, <1>5, <1>6 DEF StreamAccount, rest

\* This endpoint writes a frame, and raises its window for WINDOW_UPDATE.  Its
\* window never exceeds the initial one.
LEMMA WrittenAccount ==
  ASSUME NEW s, NEW w \in Int, NEW w2 \in Int, NEW rec \in BOOLEAN,
         NEW init \in Int, NEW tp \in Seq(FramesToPeer), NEW fp \in Seq(FramesFromPeer),
         NEW f \in FramesToPeer, NEW p, PeerOf(p, s),
         StreamAccount(s, w, rec, init, tp, fp, p),
         w2 = w + StreamWeight(f, "streamUpdate", s),
         StreamWeight(f, "streamUpdate", s) > 0 => rec /\ w2 <= init
  PROVE  StreamAccount(s, w2, rec, init, Append(tp, f), fp, p)
<1> DEFINE wt == StreamWeight(f, "streamUpdate", s)
           more == Append(tp, f)
<1>1. more \in Seq(FramesToPeer)
  BY AppendedWire
<1>2. /\ wt \in Nat /\ Updates(more, s) = Updates(tp, s) + wt /\ Updates(tp, s) \in Nat
      /\ p.stream[s] \in Int /\ p.init \in Int
      /\ \A k \in 0 .. Len(fp) : Data(fp, s, k) \in Nat
      /\ Len(fp) \in 0 .. Len(fp)
  <2>1. wt \in Nat /\ Updates(more, s) = Updates(tp, s) + wt
    BY UpdatesOfAppend
  <2>2. Updates(tp, s) \in Nat
    BY UpdatesType
  <2>3. \A k \in 0 .. Len(fp) : Data(fp, s, k) \in Nat
    BY DataType
  <2> QED
    BY <2>1, <2>2, <2>3 DEF PeerOf
<1>3. w2 = w + wt /\ (wt > 0 => rec /\ w2 <= init)
  OBVIOUS
<1> HIDE DEF wt, more
<1>4. CASE wt = 0
  <2>1. w2 = w /\ Updates(more, s) = Updates(tp, s)
    BY <1>2, <1>3, <1>4
  <2> QED
    BY <2>1 DEF StreamAccount, Covered, more
<1>5. CASE wt > 0
  <2>1. rec /\ w2 <= init /\ Covered(s, w, init, tp, fp, p)
    BY <1>3, <1>5 DEF StreamAccount
  <2>2. p.state[s] # "none"
    BY <1>2, <1>3, <1>5, <2>1 DEF Covered
  <2>3. p.stream[s] + Data(fp, s, Len(fp)) + Updates(tp, s) <= w + p.init - init
    BY <2>1, <2>2 DEF Covered
  <2>4. Data(fp, s, Len(fp)) \in Nat
    BY <1>2
  <2> DEFINE sum == p.stream[s] + Data(fp, s, Len(fp))
  <2>9. /\ Updates(more, s) = Updates(tp, s) + wt /\ Updates(tp, s) \in Nat /\ wt \in Nat
        /\ p.init \in Int /\ sum \in Int /\ sum >= p.stream[s] /\ p.stream[s] \in Int
    BY <1>2, <2>4
  <2>10. sum + Updates(tp, s) <= w + p.init - init
    BY <2>3
  <2>11. sum + Updates(more, s) <= w2 + p.init - init /\ w2 <= init
    <3> HIDE DEF sum
    <3> QED
      BY <1>3, <2>1, <2>9, <2>10
  <2>5. p.stream[s] + Data(fp, s, Len(fp)) + Updates(more, s) <= w2 + p.init - init
    BY <2>11
  <2>6. p.stream[s] + Updates(more, s) <= p.init
    <3> HIDE DEF sum
    <3> QED
      BY <2>9, <2>11, SMTT(30)
  <2>7. ASSUME NEW a \in 1 .. Len(fp), Data(fp, s, a) <= AsSize(w)
        PROVE  Data(fp, s, a) <= AsSize(w2)
    <3>1. Data(fp, s, a) \in Nat
      BY <1>2
    <3> QED
      BY <1>2, <1>3, <2>7, <3>1 DEF AsSize
  <2>8. Covered(s, w2, init, more, fp, p)
    BY <2>1, <2>2, <2>5, <2>7 DEF Covered
  <2> QED
    BY <2>2, <2>6, <2>8 DEF StreamAccount, more
<1> QED
  BY <1>2, <1>4, <1>5

\* The peer reads new settings and shifts its window; its acknowledgement
\* separates the DATA it sent before from what it may send now.
LEMMA ShiftedAccount ==
  ASSUME NEW s, NEW w \in Int, NEW rec \in BOOLEAN,
         NEW init \in Int, NEW tp \in Seq(FramesToPeer), NEW fp \in Seq(FramesFromPeer),
         NEW ack \in FramesFromPeer, ack.type = "ack", NEW p, PeerOf(p, s), NEW p2,
         StreamAccount(s, w, rec, init, tp, fp, p), ~Acked(fp), p.init = init,
         p2.init \in Int, p2.state[s] = p.state[s],
         p2.stream[s] = IF p.state[s] = "none" THEN 0 ELSE p.stream[s] + p2.init - p.init
  PROVE  StreamAccount(s, w, rec, init, tp, Append(fp, ack), p2)
<1> DEFINE more == Append(fp, ack)
           n == Len(fp)
<1>1. /\ more \in Seq(FramesFromPeer) /\ n \in Nat /\ Len(more) = n + 1
      /\ \A i \in 1 .. n : more[i] = fp[i]
      /\ more[n + 1] = ack
  BY AppendedWire
<1>2. Data(more, s, n + 1) = Data(fp, s, n) /\ Data(fp, s, n) \in Nat
  <2>1. StreamWeight(ack, "data", s) = 0
    BY DEF StreamWeight
  <2>2. Data(more, s, n + 1) = Data(fp, s, n) + StreamWeight(ack, "data", s)
    BY DataOfAppend
  <2>3. Data(fp, s, n) \in Nat
    <3>1. n \in 0 .. n
      BY <1>1
    <3> QED
      BY <3>1, DataType
  <2> QED
    BY <2>1, <2>2, <2>3
<1>3. Updates(tp, s) \in Nat /\ p.stream[s] \in Int /\ p.init \in Int
  BY UpdatesType DEF PeerOf
<1> HIDE DEF more, n
<1>4. Acked(more)
  <2>1. n + 1 \in 1 .. Len(more)
    BY <1>1
  <2> QED
    BY <1>1, <2>1 DEF Acked
<1>5. p2.state[s] = "none" =>
        p2.stream[s] = 0 /\ Data(more, s, Len(more)) = 0 /\ Updates(tp, s) = 0
  BY <1>1, <1>2 DEF StreamAccount, n
<1>6. p2.state[s] # "none" => p2.stream[s] + Updates(tp, s) <= p2.init
  BY <1>3 DEF StreamAccount
<1>7. ASSUME rec
      PROVE  Covered(s, w, init, tp, more, p2)
  <2>1. Covered(s, w, init, tp, fp, p)
    BY <1>7 DEF StreamAccount
  <2>2. p2.state[s] = "none" => w >= init
    BY <2>1 DEF Covered
  <2>3. p.state[s] # "none" => p.stream[s] + Data(fp, s, n) + Updates(tp, s) <= w
    BY <1>2, <1>3, <2>1 DEF Covered, n
  <2>4. p2.state[s] # "none" =>
          p2.stream[s] + Data(more, s, Len(more)) + Updates(tp, s) <= w + p2.init - init
    <3> SUFFICES ASSUME p.state[s] # "none"
                 PROVE  p2.stream[s] + Data(fp, s, n) + Updates(tp, s) <= w + p2.init - init
      BY <1>1, <1>2
    <3>1. p2.stream[s] = p.stream[s] + p2.init - init
      OBVIOUS
    <3>2. p.stream[s] + Data(fp, s, n) + Updates(tp, s) <= w
      BY <2>3
    <3> HIDE DEF n
    <3> QED
      BY <1>2, <1>3, <3>1, <3>2, SMTT(30)
  <2>5. Data(fp, s, n) <= AsSize(w)
    <3>1. CASE Data(fp, s, n) = 0
      BY <3>1 DEF AsSize
    <3>2. CASE Data(fp, s, n) > 0
      <4>1. p.stream[s] >= 0
        BY <2>1, <3>2 DEF Covered, n
      <4>2. p.state[s] # "none"
        BY <3>2 DEF StreamAccount, n
      <4> QED
        BY <1>2, <1>3, <2>3, <4>1, <4>2 DEF AsSize
    <3> QED
      BY <1>2, <3>1, <3>2
  <2>6. ASSUME NEW a \in 1 .. Len(more), more[a].type = "ack"
        PROVE  /\ Data(more, s, a) <= AsSize(w)
               /\ ~(Data(more, s, Len(more)) > Data(more, s, a))
    <3>1. a = n + 1
      <4>1. a \in 1 .. n \/ a = n + 1
        BY <1>1
      <4>2. a \notin 1 .. n
        BY <1>1, <2>6 DEF Acked, n
      <4> QED
        BY <4>1, <4>2
    <3> QED
      BY <1>1, <1>2, <2>5, <3>1
  <2> QED
    BY <1>4, <2>2, <2>4, <2>6 DEF Covered
<1> QED
  BY <1>5, <1>6, <1>7 DEF StreamAccount, more

\* The acknowledgement is read and this endpoint's window is shifted too.
LEMMA AckedAccount ==
  ASSUME NEW s, NEW w \in Int, NEW w2 \in Int, NEW rec \in BOOLEAN, NEW rec2 \in BOOLEAN,
         NEW init \in Int, NEW tp \in Seq(FramesToPeer), NEW fp \in Seq(FramesFromPeer),
         fp # <<>>, Head(fp).type = "ack", NEW p, PeerOf(p, s),
         StreamAccount(s, w, rec, init, tp, fp, p), ~Acked(Tail(fp)),
         rec2 => rec /\ w2 = w + p.init - init
  PROVE  StreamAccount(s, w2, rec2, p.init, tp, Tail(fp), p)
<1> DEFINE rest == Tail(fp)
           n == Len(rest)
<1>1. /\ rest \in Seq(FramesFromPeer) /\ Len(fp) = n + 1 /\ n \in Nat /\ Head(fp) = fp[1]
      /\ \A i \in 1 .. n : rest[i] = fp[i + 1]
  BY TailOfWire
<1>2. StreamWeight(Head(fp), "data", s) = 0
  BY DEF StreamWeight
<1>3. \A k \in 0 .. n : Data(fp, s, k + 1) = Data(rest, s, k) /\ Data(rest, s, k) \in Nat
  <2>1. \A k \in 0 .. n : Data(rest, s, k) \in Nat
    BY <1>1, DataType
  <2>2. \A k \in 0 .. Len(fp) - 1 :
          Data(fp, s, k + 1) = StreamWeight(Head(fp), "data", s) + Data(rest, s, k)
    BY DataOfTail
  <2> QED
    BY <1>1, <1>2, <2>1, <2>2
<1>4. Data(fp, s, Len(fp)) = Data(rest, s, n) /\ Data(rest, s, n) \in Nat
  BY <1>1, <1>3
<1>5. Updates(tp, s) \in Nat /\ p.stream[s] \in Int /\ p.init \in Int
  BY UpdatesType DEF PeerOf
<1> HIDE DEF rest, n
<1>6. ASSUME rec2
      PROVE  Covered(s, w2, p.init, tp, rest, p)
  <2>1. Covered(s, w, init, tp, fp, p) /\ w2 = w + p.init - init
    BY <1>6 DEF StreamAccount
  <2>2. p.state[s] = "none" => w2 >= p.init
    BY <1>5, <2>1 DEF Covered
  <2>3. p.state[s] # "none" =>
          p.stream[s] + Data(fp, s, Len(fp)) + Updates(tp, s) <= w + p.init - init
    BY <2>1 DEF Covered
  <2>4. p.state[s] # "none" =>
          p.stream[s] + Data(rest, s, Len(rest)) + Updates(tp, s) <= w2 + p.init - p.init
    BY <1>4, <1>5, <2>1, <2>3 DEF n
  <2>5. Data(rest, s, Len(rest)) > 0 => p.stream[s] >= 0
    <3>1. 1 \in 1 .. Len(fp) /\ fp[1].type = "ack"
      BY <1>1
    <3>2. Data(fp, s, Len(fp)) > Data(fp, s, 1) => p.stream[s] >= 0
      BY <2>1, <3>1 DEF Covered
    <3>3. Data(fp, s, 1) = Data(rest, s, 0)
      BY <1>1, <1>3
    <3>4. Data(rest, s, 0) = 0
      BY TotalOfNone DEF Data
    <3> QED
      BY <1>4, <3>2, <3>3, <3>4 DEF n
  <2>6. \A a \in 1 .. Len(rest) : rest[a].type # "ack"
    BY DEF Acked, rest
  <2> QED
    BY <2>2, <2>4, <2>5, <2>6 DEF Covered
<1> QED
  BY <1>4, <1>6 DEF StreamAccount, rest, n

----------------------------------------------------------------------------
(* What the steps of this endpoint do to its windows.                      *)

WindowKept(strs2, err2, strs, err, init, s, charge) ==
  Receiving(strs2, err2, s) =>
    /\ Receiving(strs, err, s)
    /\ WindowOf(strs2, init, s) >= WindowOf(strs, init, s) - charge

\* A step charges frame f to the windows, and nothing else, or it is a
\* connection error.
Charges(f) ==
  /\ initWindowSz' = initWindowSz
  /\ connErr' \in BOOLEAN /\ (connErr => connErr')
  /\ conn'.flow.window >= conn.flow.window - Weight(f, "data")
  /\ connErr' \/ conn'.flow.window = conn.flow.window - Weight(f, "data")
  /\ \A s \in Streams :
       WindowKept(streams', connErr', streams, connErr, initWindowSz, s,
                  StreamWeight(f, "data", s))

NoCharge == [type |-> "ack"]

LEMMA NoChargeWeighsNothing ==
  \A s : Weight(NoCharge, "data") = 0 /\ StreamWeight(NoCharge, "data", s) = 0
BY DEF NoCharge, Weight, StreamWeight

LEMMA WindowTypesOf ==
  ASSUME NEW c, NEW t, GoodConn(c, t), NEW strs, NEW init \in 0 .. MaxWindow,
         GoodStreams(strs, init), NEW err \in BOOLEAN
  PROVE  /\ c.flow.window \in Int /\ c.flow.window >= 0 /\ c.flow.window <= MaxWindow
         /\ init \in Int /\ strs \in [Streams -> StreamRecord]
         /\ \A s \in Streams : /\ strs[s].flow.window \in Int
                               /\ strs[s].flow.available \in Int
                               /\ WindowOf(strs, init, s) \in Int
                               /\ Receiving(strs, err, s) \in BOOLEAN
<1>1. c.flow.window \in Int /\ c.flow.window >= 0 /\ c.flow.window <= MaxWindow
  BY MaxWindowAssumption DEF GoodConn, FlowControls, Window, MinWindow
<1>2. init \in Int /\ strs \in [Streams -> StreamRecord]
  BY MaxWindowAssumption DEF GoodStreams
<1>3. ASSUME NEW s \in Streams
      PROVE  strs[s].flow.window \in Int /\ strs[s].flow.available \in Int
  <2>1. strs[s] \in StreamRecord
    BY <1>2
  <2> QED
    BY <2>1, MaxWindowAssumption DEF StreamRecord, FlowControls, Window, MinWindow
<1> QED
  BY <1>1, <1>2, <1>3 DEF WindowOf, Receiving

LEMMA WindowTypes ==
  ASSUME IInv
  PROVE  /\ conn.flow.window \in Int /\ conn.flow.window >= 0 /\ conn.flow.window <= MaxWindow
         /\ initWindowSz \in Int /\ connErr \in BOOLEAN
         /\ streams \in [Streams -> StreamRecord]
         /\ \A s \in Streams : /\ streams[s].flow.window \in Int
                               /\ streams[s].flow.available \in Int
                               /\ WindowOf(streams, initWindowSz, s) \in Int
                               /\ Receiving(streams, connErr, s) \in BOOLEAN
BY WindowTypesOf DEF IInv

LEMMA WindowTypesAfter ==
  ASSUME IInv'
  PROVE  /\ conn'.flow.window \in Int /\ conn'.flow.window >= 0 /\ connErr' \in BOOLEAN
         /\ initWindowSz' \in Int
         /\ \A s \in Streams : /\ WindowOf(streams', initWindowSz', s) \in Int
                               /\ Receiving(streams', connErr', s) \in BOOLEAN
BY WindowTypesOf DEF IInv

\* A connection error leaves no stream receiving.
LEMMA ErrorCharges ==
  ASSUME IInv, NEW f, connErr' = TRUE, initWindowSz' = initWindowSz,
         conn'.flow.window >= conn.flow.window - Weight(f, "data")
  PROVE  Charges(f)
BY DEF Charges, WindowKept, Receiving

\* No stream but s is touched.
Elsewhere(s) == \A t \in Streams : t # s => streams'[t] = streams[t]

\* A step on the record of one stream.
LEMMA OneStreamCharges ==
  ASSUME IInv, NEW s \in Streams, NEW f, Elsewhere(s), connErr' = connErr,
         initWindowSz' = initWindowSz,
         conn'.flow.window = conn.flow.window - Weight(f, "data"), Weight(f, "data") \in Nat,
         \A t \in Streams : StreamWeight(f, "data", t) \in Nat,
         Receiving(streams', connErr, s) =>
           /\ Receiving(streams, connErr, s)
           /\ WindowOf(streams', initWindowSz, s)
                >= WindowOf(streams, initWindowSz, s) - StreamWeight(f, "data", s)
  PROVE  Charges(f)
<1>1. /\ conn.flow.window \in Int /\ connErr \in BOOLEAN
      /\ DOMAIN streams = Streams
      /\ \A t \in Streams : WindowOf(streams, initWindowSz, t) \in Int
  BY WindowTypes
<1>2. ASSUME NEW t \in Streams
      PROVE  WindowKept(streams', connErr', streams, connErr, initWindowSz, t,
                        StreamWeight(f, "data", t))
  <2>1. CASE t = s
    BY <2>1 DEF WindowKept
  <2>2. CASE t # s
    <3>1. streams'[t] = streams[t]
      BY <2>2 DEF Elsewhere
    <3>2. /\ WindowOf(streams', initWindowSz, t) = WindowOf(streams, initWindowSz, t)
          /\ Receiving(streams', connErr', t) = Receiving(streams, connErr, t)
      BY <3>1 DEF WindowOf, Receiving
    <3>3. WindowOf(streams, initWindowSz, t) \in Int /\ StreamWeight(f, "data", t) \in Nat
      BY <1>1
    <3>4. WindowOf(streams, initWindowSz, t)
            >= WindowOf(streams, initWindowSz, t) - StreamWeight(f, "data", t)
      BY <3>3
    <3> QED
      BY <3>2, <3>4 DEF WindowKept
  <2> QED
    BY <2>1, <2>2
<1> QED
  BY <1>1, <1>2 DEF Charges

\* A stream that receives after the step did before, with the same window.
Quiet(s) ==
  streams'[s].state \in {"idle", "awaiting", "streaming"} =>
    /\ streams[s].state \in {"idle", "awaiting", "streaming"}
    /\ (streams[s].state = "idle") = (streams'[s].state = "idle")
    /\ streams'[s].flow.window = streams[s].flow.window

\* The same where nothing is charged and the window of the stream stays.
LEMMA QuietStream ==
  ASSUME IInv, NEW s \in Streams, Elsewhere(s), Quiet(s), connErr' = connErr,
         initWindowSz' = initWindowSz, conn'.flow.window = conn.flow.window
  PROVE  Charges(NoCharge)
<1>1. conn.flow.window \in Int /\ WindowOf(streams, initWindowSz, s) \in Int
  BY WindowTypes
<1>2. /\ Weight(NoCharge, "data") = 0
      /\ \A t \in Streams : StreamWeight(NoCharge, "data", t) = 0
  BY NoChargeWeighsNothing
<1>3. conn'.flow.window = conn.flow.window - Weight(NoCharge, "data")
  BY <1>1, <1>2
<1>4. Receiving(streams', connErr, s) =>
        /\ Receiving(streams, connErr, s)
        /\ WindowOf(streams', initWindowSz, s)
             >= WindowOf(streams, initWindowSz, s) - StreamWeight(NoCharge, "data", s)
  <2>1. Receiving(streams', connErr, s) =>
          /\ Receiving(streams, connErr, s)
          /\ WindowOf(streams', initWindowSz, s) = WindowOf(streams, initWindowSz, s)
    BY DEF Receiving, WindowOf, Quiet
  <2> QED
    BY <1>1, <1>2, <2>1
<1>5. Weight(NoCharge, "data") \in Nat
  BY <1>2
<1>6. \A t \in Streams : StreamWeight(NoCharge, "data", t) \in Nat
  BY <1>2
<1> QED
  BY <1>3, <1>4, <1>5, <1>6, OneStreamCharges

\* Steps of users, of the sending half and of the store charge nothing.
LEMMA LocalCharges ==
  ASSUME IInv, NEW s \in Streams, SendSideCloses(s) \/ RemoveFromStore(s) \/ User(s)
  PROVE  Charges(NoCharge)
<1>0. /\ streams \in [Streams -> StreamRecord] /\ streams[s] \in StreamRecord
      /\ GoodConn(conn, target) /\ conn.flow.window \in Int
  BY WindowTypes DEF IInv
<1>1. CASE SendSideCloses(s)
  <2>1. Elsewhere(s) /\ Quiet(s)
    BY <1>0, <1>1 DEF SendSideCloses, Elsewhere, Quiet, StreamRecord
  <2> QED
    BY <1>1, <2>1, QuietStream DEF SendSideCloses
<1>2. CASE RemoveFromStore(s)
  <2>1. Elsewhere(s) /\ Quiet(s)
    BY <1>0, <1>2 DEF RemoveFromStore, NewStream, Elsewhere, Quiet
  <2> QED
    BY <1>2, <2>1, QuietStream DEF RemoveFromStore
<1>3. CASE Accept(s)
  <2>1. Elsewhere(s) /\ Quiet(s)
    BY <1>0, <1>3 DEF Accept, Elsewhere, Quiet, StreamRecord
  <2> QED
    BY <1>3, <2>1, QuietStream DEF Accept
<1>4. CASE SendReset(s)
  <2>1. Elsewhere(s) /\ Quiet(s)
    BY <1>0, <1>4 DEF SendReset, Elsewhere, Quiet, StreamRecord
  <2> QED
    BY <1>4, <2>1, QuietStream DEF SendReset
<1>5. ASSUME NEW n \in 1 .. streams[s].buffered, PollData(s, n)
      PROVE  Charges(NoCharge)
  <2>1. Elsewhere(s) /\ Quiet(s)
    BY <1>0, <1>5 DEF PollData, Elsewhere, Quiet, StreamRecord
  <2> QED
    BY <1>5, <2>1, QuietStream DEF PollData
<1>6. CASE DropRecvStream(s)
  <2>1. Elsewhere(s) /\ Quiet(s)
    BY <1>0, <1>6 DEF DropRecvStream, Elsewhere, Quiet, StreamRecord
  <2>2. conn'.flow.window = conn.flow.window
    BY <1>0, <1>6, ReleaseKeepsWindow DEF DropRecvStream
  <2> QED
    BY <1>6, <2>1, <2>2, QuietStream DEF DropRecvStream
<1>7. CASE DropStreamRef(s)
  <2> DEFINE r == MaybeCancel(streams[s])
  <2>1. r.state \notin OpenState
    BY <1>0 DEF MaybeCancel, OpenState, StreamRecord
  <2>2. r.flow = streams[s].flow /\ (r.state = "idle" => streams[s].state = "idle")
    BY <1>0 DEF MaybeCancel, OpenState, StreamRecord
  <2>3. streams'[s].state = r.state /\ streams'[s].flow = r.flow /\ Elsewhere(s)
    <3>1. r \in [state : StreamState, handle : Handle, isRecv : BOOLEAN,
                 pendingWU : BOOLEAN, flow : FlowControls,
                 inFlight : 0 .. MaxWindow, buffered : 0 .. MaxBuffered]
      BY <1>0 DEF MaybeCancel, StreamRecord, StreamState
    <3> QED
      BY <1>0, <1>7, <3>1 DEF DropStreamRef, Elsewhere
  <2>4. Quiet(s)
    BY <2>1, <2>2, <2>3 DEF Quiet, OpenState
  <2>5. conn'.flow.window = conn.flow.window
    BY <1>0, <1>7, ReleaseKeepsWindow DEF DropStreamRef
  <2> QED
    BY <1>7, <2>3, <2>4, <2>5, QuietStream DEF DropStreamRef
<1>8. CASE CancelPromise(s)
  <2> DEFINE r == MaybeCancel(streams[s])
  <2>1. r.state \notin OpenState
    BY <1>0 DEF MaybeCancel, OpenState, StreamRecord
  <2>2. r.flow = streams[s].flow /\ (r.state = "idle" => streams[s].state = "idle")
    BY <1>0 DEF MaybeCancel, OpenState, StreamRecord
  <2>3. streams'[s].state = r.state /\ streams'[s].flow = r.flow /\ Elsewhere(s)
    <3>1. r \in [state : StreamState, handle : Handle, isRecv : BOOLEAN,
                 pendingWU : BOOLEAN, flow : FlowControls,
                 inFlight : 0 .. MaxWindow, buffered : 0 .. MaxBuffered]
      BY <1>0 DEF MaybeCancel, StreamRecord, StreamState
    <3> QED
      BY <1>0, <1>8, <3>1 DEF CancelPromise, Elsewhere
  <2>4. Quiet(s)
    BY <2>1, <2>2, <2>3 DEF Quiet, OpenState
  <2> QED
    BY <1>8, <2>3, <2>4, QuietStream DEF CancelPromise
<1>9. ASSUME NEW sz \in 1 .. streams[s].inFlight, ReleaseCapacity(s, sz)
      PROVE  Charges(NoCharge)
  <2>1. conn'.flow.window = conn.flow.window
    BY <1>0, <1>9, ReleaseKeepsWindow DEF ReleaseCapacity
  <2>2. /\ ReleaseStream(streams[s], sz).flow.window = streams[s].flow.window
        /\ ReleaseStream(streams[s], sz).state = streams[s].state
    BY <1>0 DEF ReleaseStream, AssignCapacity, StreamRecord, FlowControls
  <2>3. streams'[s] = ReleaseStream(streams[s], sz) /\ Elsewhere(s)
    BY <1>0, <1>9 DEF ReleaseCapacity, Elsewhere
  <2>4. Quiet(s)
    BY <2>2, <2>3 DEF Quiet
  <2> QED
    BY <1>9, <2>1, <2>3, <2>4, QuietStream DEF ReleaseCapacity
<1> QED
  BY <1>1, <1>2, <1>3, <1>4, <1>5, <1>6, <1>7, <1>8, <1>9 DEF User

LEMMA RetargetCharges ==
  ASSUME IInv, NEW sz \in Targets, SetTargetConnectionWindow(sz)
  PROVE  Charges(NoCharge)
<1>1. conn.flow \in FlowControls /\ conn \in [flow : FlowControls, inFlight : 0 .. MaxWindow]
  BY DEF IInv, GoodConn
<1>2. conn'.flow.window = conn.flow.window
  BY <1>1 DEF SetTargetConnectionWindow, AssignCapacity, ClaimCapacity, FlowControls
<1>3. /\ streams' = streams /\ connErr' = connErr /\ initWindowSz' = initWindowSz
      /\ connErr \in BOOLEAN /\ conn.flow.window \in Int
      /\ \A s \in Streams : WindowOf(streams, initWindowSz, s) \in Int
  BY WindowTypes DEF SetTargetConnectionWindow
<1>4. /\ Weight(NoCharge, "data") = 0
      /\ \A t \in Streams : StreamWeight(NoCharge, "data", t) = 0
  BY NoChargeWeighsNothing
<1> QED
  BY <1>2, <1>3, <1>4 DEF Charges, WindowKept

\* HEADERS that open a stream, or a request: it starts with the window that
\* was promised to it.
LEMMA OpenStreamCharges ==
  ASSUME IInv, NEW s \in Streams, OpenStream(s)
  PROVE  Charges(NoCharge)
<1>1. /\ streams \in [Streams -> StreamRecord] /\ conn' = conn
      /\ initWindowSz' = initWindowSz /\ connErr' = connErr
      /\ initWindowSz \in Int /\ conn.flow.window \in Int
  BY WindowTypes DEF OpenStream
<1>2. streams[s].state = "idle" /\ Elsewhere(s)
  BY <1>1 DEF OpenStream, Elsewhere
<1>3. streams'[s].state # "idle" /\ streams'[s].flow.window = initWindowSz
  BY <1>1 DEF OpenStream, NewStream, NewFlow
<1>4. /\ Weight(NoCharge, "data") = 0
      /\ \A t \in Streams : StreamWeight(NoCharge, "data", t) = 0
  BY NoChargeWeighsNothing
<1>5. Receiving(streams', connErr, s) =>
        /\ Receiving(streams, connErr, s)
        /\ WindowOf(streams', initWindowSz, s)
             >= WindowOf(streams, initWindowSz, s) - StreamWeight(NoCharge, "data", s)
  <2>1. WindowOf(streams', initWindowSz, s) = initWindowSz
        /\ WindowOf(streams, initWindowSz, s) = initWindowSz
    BY <1>2, <1>3 DEF WindowOf
  <2> QED
    BY <1>1, <1>2, <1>4, <2>1 DEF Receiving
<1>6. /\ conn'.flow.window = conn.flow.window - Weight(NoCharge, "data")
      /\ Weight(NoCharge, "data") \in Nat
      /\ \A t \in Streams : StreamWeight(NoCharge, "data", t) \in Nat
  BY <1>1, <1>4
<1> QED
  BY <1>1, <1>2, <1>5, <1>6, OneStreamCharges

LEMMA HeadersCharge ==
  ASSUME IInv, NEW s \in Streams, ReadHeaders(s)
  PROVE  Charges(NoCharge)
<1>0. streams \in [Streams -> StreamRecord] /\ streams[s] \in StreamRecord
      /\ conn.flow.window \in Int
  BY WindowTypes
<1>1. CASE RecvHeaders(s)
  <2>1. Elsewhere(s) /\ Quiet(s)
    BY <1>0, <1>1 DEF RecvHeaders, Elsewhere, Quiet, StreamRecord
  <2> QED
    BY <1>1, <2>1, QuietStream DEF RecvHeaders
<1>2. CASE UNCHANGED vars
  <2>1. Elsewhere(s) /\ Quiet(s)
    BY <1>2 DEF vars, Elsewhere, Quiet
  <2> QED
    BY <1>2, <2>1, QuietStream DEF vars
<1>3. CASE OpenStream(s)
  BY <1>3, OpenStreamCharges
<1> QED
  BY <1>1, <1>2, <1>3 DEF ReadHeaders

\* RST_STREAM; of a stream nobody accepted it may be a connection error.
LEMMA ResetCharges ==
  ASSUME IInv, NEW s \in Streams, ReadReset(s)
  PROVE  Charges(NoCharge)
<1>0. streams \in [Streams -> StreamRecord] /\ streams[s] \in StreamRecord
      /\ conn.flow.window \in Int
  BY WindowTypes
<1>1. ASSUME streams' = [streams EXCEPT ![s].state = "remoteReset"],
             connErr' = connErr, UNCHANGED <<conn, initWindowSz>>
      PROVE  Charges(NoCharge)
  <2>1. Elsewhere(s) /\ Quiet(s)
    BY <1>0, <1>1 DEF Elsewhere, Quiet, StreamRecord
  <2> QED
    BY <1>1, <2>1, QuietStream
<1>2. ASSUME FailConnection(streams), UNCHANGED <<conn, initWindowSz>>
      PROVE  Charges(NoCharge)
  <2>1. Weight(NoCharge, "data") = 0
    BY NoChargeWeighsNothing
  <2>2. conn'.flow.window >= conn.flow.window - Weight(NoCharge, "data")
    BY <1>0, <1>2, <2>1
  <2> QED
    BY <1>2, <2>2, ErrorCharges DEF FailConnection
<1>3. CASE UNCHANGED vars
  <2>1. Elsewhere(s) /\ Quiet(s)
    BY <1>3 DEF vars, Elsewhere, Quiet
  <2> QED
    BY <1>3, <2>1, QuietStream DEF vars
<1> QED
  BY <1>1, <1>2, <1>3 DEF ReadReset, RecvReset

\* What DATA on a stream weighs.
LEMMA DataWeighs ==
  ASSUME NEW f \in DataFrames
  PROVE  /\ Weight(f, "data") = f.sz /\ f.sz \in Nat /\ f.payload \in Nat /\ f.padding \in Nat
         /\ f.sz = f.payload + f.padding /\ f.stream \in Streams /\ f.eos \in BOOLEAN
         /\ StreamWeight(f, "data", f.stream) = f.sz
         /\ \A t \in Streams : StreamWeight(f, "data", t) \in Nat
<1>1. /\ f.type = "data" /\ f.sz \in 0 .. MaxFrame /\ f.payload \in 0 .. MaxFrame
      /\ f.padding \in 0 .. MaxFrame /\ f.sz = f.payload + f.padding
      /\ f.stream \in Streams /\ f.eos \in BOOLEAN
  BY DEF DataFrames
<1>2. f.sz \in Nat /\ f.payload \in Nat /\ f.padding \in Nat
  BY <1>1, RecvAssumption, MaxWindowAssumption
<1> QED
  BY <1>1, <1>2 DEF Weight, StreamWeight

\* The connection is charged, the stream's record replaced by one that does
\* not receive or whose window is charged at most.
LEMMA ChargedStream ==
  ASSUME IInv, NEW f \in DataFrames, NEW back \in 0 .. f.sz,
         WindowSize(conn.flow) >= f.sz, conn' = Release(Consume(conn, f.sz), back),
         initWindowSz' = initWindowSz, NEW r,
         \/ streams' = [streams EXCEPT ![f.stream] = r] /\ connErr' = connErr
         \/ connErr' = TRUE,
         r.state = "streaming" =>
           streams[f.stream].state = "streaming"
             /\ r.flow.window >= streams[f.stream].flow.window - f.sz,
         r.state \notin {"idle", "awaiting"}
  PROVE  Charges(f)
<1>1. /\ Weight(f, "data") = f.sz /\ f.sz \in Nat /\ f.stream \in Streams
      /\ StreamWeight(f, "data", f.stream) = f.sz
      /\ \A t \in Streams : StreamWeight(f, "data", t) \in Nat
  BY DataWeighs
<1>2. conn'.flow.window = conn.flow.window - f.sz
  BY <1>1, ConsumeReceives DEF IInv
<1>3. streams \in [Streams -> StreamRecord] /\ conn.flow.window \in Int
  BY WindowTypes
<1>4. ASSUME streams' = [streams EXCEPT ![f.stream] = r], connErr' = connErr
      PROVE  Charges(f)
  <2>1. Elsewhere(f.stream) /\ streams'[f.stream] = r
    BY <1>1, <1>3, <1>4 DEF Elsewhere
  <2>2. Receiving(streams', connErr, f.stream) =>
          /\ Receiving(streams, connErr, f.stream)
          /\ WindowOf(streams', initWindowSz, f.stream)
               >= WindowOf(streams, initWindowSz, f.stream) - StreamWeight(f, "data", f.stream)
    BY <1>1, <2>1 DEF Receiving, WindowOf
  <2> QED
    BY <1>1, <1>2, <1>4, <2>1, <2>2, OneStreamCharges
<1>5. ASSUME connErr' = TRUE
      PROVE  Charges(f)
  <2>1. conn'.flow.window >= conn.flow.window - Weight(f, "data")
    BY <1>1, <1>2, <1>3
  <2> QED
    BY <1>5, <2>1, ErrorCharges
<1> QED
  BY <1>4, <1>5

\* Every way through recv_data charges its octets to the connection, to the
\* stream when it goes on receiving, and to no other stream.
LEMMA DataCharges ==
  ASSUME IInv, NEW f \in DataFrames, ReadData(f)
  PROVE  Charges(f)
<1> DEFINE s == f.stream
           r == streams[s]
<1>0. /\ f.sz \in Nat /\ f.payload \in Nat /\ f.padding \in Nat /\ f.sz = f.payload + f.padding
      /\ s \in Streams /\ f.eos \in BOOLEAN /\ Weight(f, "data") = f.sz
  BY DataWeighs
<1>1. /\ streams \in [Streams -> StreamRecord] /\ r \in StreamRecord
      /\ conn.flow.window \in Int /\ f.sz \in 0 .. f.sz /\ f.padding \in 0 .. f.sz
      /\ streams = [streams EXCEPT ![s] = r]
  BY <1>0, WindowTypes
<1>2. CASE RecvDataUnexpected(s) \/ RecvDataOverConnWindow(s, f.sz)
  <2>1. /\ connErr' = TRUE /\ initWindowSz' = initWindowSz /\ conn' = conn
    BY <1>2 DEF RecvDataUnexpected, RecvDataOverConnWindow, FailConnection
  <2>2. conn'.flow.window >= conn.flow.window - Weight(f, "data")
    BY <1>0, <1>1, <2>1
  <2> QED
    BY <2>1, <2>2, ErrorCharges
<1>3. CASE RecvDataIgnored(s, f.sz)
  <2>1. \/ streams' = [streams EXCEPT ![s] = r] /\ connErr' = connErr
        \/ connErr' = TRUE
    BY <1>1, <1>3 DEF RecvDataIgnored, RecordDataFrame, FailConnection
  <2> HIDE DEF r
  <2>2. r.state = "localReset" /\ initWindowSz' = initWindowSz
        /\ WindowSize(conn.flow) >= f.sz /\ conn' = Release(Consume(conn, f.sz), f.sz)
    BY <1>3 DEF RecvDataIgnored, r
  <2> QED
    BY <1>1, <2>1, <2>2, ChargedStream
<1>4. CASE RecvDataForgotten(s, f.sz)
  <2> DEFINE new == NewStream("localReset", "dropped", 0)
  <2>1. \/ streams' = [streams EXCEPT ![s] = new] /\ connErr' = connErr
        \/ connErr' = TRUE
    BY <1>4 DEF RecvDataForgotten, FailConnection
  <2>2. new.state = "localReset"
    BY DEF NewStream
  <2>3. initWindowSz' = initWindowSz
        /\ WindowSize(conn.flow) >= f.sz /\ conn' = Release(Consume(conn, f.sz), f.sz)
    BY <1>4 DEF RecvDataForgotten
  <2> HIDE DEF new
  <2> QED
    BY <1>1, <2>1, <2>2, <2>3, ChargedStream
<1>5. CASE RecvDataStreamError(s, f.sz)
  <2> DEFINE new == [r EXCEPT !.state = "localReset"]
  <2>1. \/ streams' = [streams EXCEPT ![s] = new] /\ connErr' = connErr
        \/ connErr' = TRUE
    BY <1>1, <1>5 DEF RecvDataStreamError, FailConnection
  <2>2. new.state = "localReset"
    BY <1>1 DEF StreamRecord
  <2>3. initWindowSz' = initWindowSz
        /\ WindowSize(conn.flow) >= f.sz /\ conn' = Release(Consume(conn, f.sz), f.sz)
    BY <1>5 DEF RecvDataStreamError
  <2> HIDE DEF new
  <2> QED
    BY <1>1, <2>1, <2>2, <2>3, ChargedStream
<1>6. CASE RecvDataUncared(s, f.sz, f.eos)
  <2>1. PICK st \in AfterData(f.eos) : RecordDataFrame([streams EXCEPT ![s].state = st], f.eos)
    BY <1>6 DEF RecvDataUncared
  <2> DEFINE new == [r EXCEPT !.state = st]
  <2>2. \/ streams' = [streams EXCEPT ![s] = new] /\ connErr' = connErr
        \/ connErr' = TRUE
    BY <1>1, <2>1 DEF RecordDataFrame, FailConnection
  <2>3. /\ new.state \in {"ended", "closed", "streaming"} /\ new.flow = r.flow
        /\ r.flow.window \in Int /\ r.state = "streaming"
    BY <1>0, <1>1, <1>6, WindowTypes DEF StreamRecord, AfterData, RecvDataUncared
  <2>4. initWindowSz' = initWindowSz
        /\ WindowSize(conn.flow) >= f.sz /\ conn' = Release(Consume(conn, f.sz), f.sz)
    BY <1>6 DEF RecvDataUncared
  <2> HIDE DEF new
  <2>5. new.flow.window >= r.flow.window - f.sz
    BY <1>0, <2>3
  <2> QED
    BY <1>1, <2>2, <2>3, <2>4, <2>5, ChargedStream
<1>7. CASE RecvDataAccepted(s, f.payload, f.padding, f.eos)
  <2> DEFINE taken == Take(r, f.sz, f.payload)
             kept  == IF f.padding > 0 THEN ReleaseStream(taken, f.padding) ELSE taken
  <2>1. PICK st \in AfterData(f.eos) :
          RecordDataFrame([streams EXCEPT ![s] = [kept EXCEPT !.state = st]], f.eos)
    BY <1>0, <1>7 DEF RecvDataAccepted
  <2> DEFINE new == [kept EXCEPT !.state = st]
  <2>2. \/ streams' = [streams EXCEPT ![s] = new] /\ connErr' = connErr
        \/ connErr' = TRUE
    BY <2>1 DEF RecordDataFrame, FailConnection
  <2>3. r.flow.window \in Int /\ r.state = "streaming" /\ st \in {"ended", "closed", "streaming"}
    BY <1>0, <1>7, <2>1, WindowTypes DEF AfterData, RecvDataAccepted
  <2>4. initWindowSz' = initWindowSz
        /\ WindowSize(conn.flow) >= f.sz /\ conn' = Release(Consume(conn, f.sz), f.padding)
    BY <1>0, <1>7 DEF RecvDataAccepted
  <2>5. /\ taken.flow.window = r.flow.window - f.sz
        /\ DOMAIN taken = {"state", "handle", "isRecv", "pendingWU", "flow", "inFlight", "buffered"}
        /\ taken.flow = [window |-> r.flow.window - f.sz, available |-> r.flow.available - f.sz]
    <3>1. r.flow \in FlowControls
      BY <1>1 DEF StreamRecord
    <3>2. SendData(r.flow, f.sz) = [window |-> r.flow.window - f.sz, available |-> r.flow.available - f.sz]
      BY <1>0, <3>1, SendDataRecord
    <3>3. taken.flow = SendData(r.flow, f.sz)
      BY <1>1 DEF Take, StreamRecord
    <3>4. DOMAIN taken = {"state", "handle", "isRecv", "pendingWU", "flow", "inFlight", "buffered"}
      BY <1>1 DEF Take, StreamRecord
    <3> QED
      BY <3>2, <3>3, <3>4
  <2> HIDE DEF taken
  <2>6. ReleaseStream(taken, f.padding).flow.window = r.flow.window - f.sz
    <3>1. AssignCapacity(taken.flow, f.padding).window = r.flow.window - f.sz
      BY <2>5 DEF AssignCapacity
    <3>2. ReleaseStream(taken, f.padding).flow = AssignCapacity(taken.flow, f.padding)
      BY <2>5 DEF ReleaseStream
    <3> QED
      BY <3>1, <3>2
  <2>7. kept.flow.window = r.flow.window - f.sz
    BY <2>5, <2>6
  <2>8. DOMAIN kept = {"state", "handle", "isRecv", "pendingWU", "flow", "inFlight", "buffered"}
    BY <2>5 DEF ReleaseStream
  <2> HIDE DEF kept
  <2>9. new.state = st /\ new.flow = kept.flow
    BY <2>8
  <2> HIDE DEF new
  <2>10. new.flow.window >= r.flow.window - f.sz
    BY <1>0, <2>3, <2>7, <2>9
  <2> QED
    BY <1>1, <2>2, <2>3, <2>4, <2>9, <2>10, ChargedStream
<1> QED
  BY <1>2, <1>3, <1>4, <1>5, <1>6, <1>7 DEF ReadData, RecvDataStreamError

LEMMA KindsFromPeer ==
  ASSUME NEW f \in FramesFromPeer
  PROVE  /\ f.type \in {"data", "headers", "reset", "ack"}
         /\ f.type = "data" => f \in DataFrames
         /\ f.type \in {"headers", "reset"} => f.stream \in Streams
<1>1. CASE f \in DataFrames
  BY <1>1 DEF DataFrames
<1>2. CASE f \in [type : {"headers", "reset"}, stream : Streams, sz : {0}]
  BY <1>2
<1>3. CASE f \in [type : {"ack"}]
  BY <1>3
<1> QED
  BY <1>1, <1>2, <1>3 DEF FramesFromPeer

LEMMA KindsToPeer ==
  ASSUME NEW f \in FramesToPeer
  PROVE  /\ f.type \in {"connUpdate", "settings", "streamUpdate", "headers"}
         /\ f.type = "settings" => f.sz \in InitWindows
         /\ f.type \in {"streamUpdate", "headers"} => f.stream \in Streams
         /\ f.sz \in Nat
<1>1. InitWindows \subseteq Nat
  BY RecvAssumption, MaxWindowAssumption
<1>2. CASE f \in [type : {"connUpdate"}, sz : Nat]
  BY <1>2
<1>3. CASE f \in [type : {"settings"}, sz : InitWindows]
  BY <1>1, <1>3
<1>4. CASE f \in [type : {"streamUpdate", "headers"}, stream : Streams, sz : Nat]
  BY <1>4
<1> QED
  BY <1>2, <1>3, <1>4 DEF FramesToPeer

----------------------------------------------------------------------------
(* Every step is a step of RecvFlow.                                       *)

LEMMA DataIsReceived ==
  ASSUME NEW f \in DataFrames, ReadData(f)
  PROVE  Next
<1>1. /\ f.sz \in 0 .. MaxFrame /\ f.payload = f.sz - f.padding /\ f.padding \in 0 .. f.sz
      /\ f.stream \in Streams /\ f.eos \in BOOLEAN
  <2>1. /\ f.sz \in 0 .. MaxFrame /\ f.payload \in 0 .. MaxFrame
        /\ f.padding \in 0 .. MaxFrame /\ f.sz = f.payload + f.padding
        /\ f.stream \in Streams /\ f.eos \in BOOLEAN
    BY DEF DataFrames
  <2>2. MaxFrame \in Nat
    BY RecvAssumption, MaxWindowAssumption
  <2> QED
    BY <2>1, <2>2
<1>2. CASE RecvDataAccepted(f.stream, f.payload, f.padding, f.eos)
  <2>1. RecvDataAccepted(f.stream, f.sz - f.padding, f.padding, f.eos)
    BY <1>1, <1>2
  <2> QED
    BY <1>1, <2>1 DEF Next, Connection, RecvData
<1>3. CASE ~RecvDataAccepted(f.stream, f.payload, f.padding, f.eos)
  <2>1. RecvData(f.stream)
    BY <1>1, <1>3 DEF ReadData, RecvData
  <2> QED
    BY <1>1, <2>1 DEF Next, Connection
<1> QED
  BY <1>2, <1>3

LEMMA StepOfRecvFlow == PInv /\ [PeerNext]_allVars => [Next]_vars
<1> SUFFICES ASSUME PInv, [PeerNext]_allVars PROVE [Next]_vars
  OBVIOUS
<1>1. ASSUME NEW s \in Streams, Local(s) PROVE Next
  BY <1>1 DEF Local, Next, Connection
<1>2. ASSUME NEW s \in Streams, Request(s) \/ WriteStreamWindowUpdate(s) PROVE Next
  BY <1>2 DEF Request, WriteStreamWindowUpdate, Next, Connection
<1>3. ASSUME NEW s \in Streams, WriteRequestHeaders(s) \/ PeerOpens(s) \/ PeerResets(s)
      PROVE  UNCHANGED vars
  BY <1>3 DEF WriteRequestHeaders, PeerOpens, PeerResets
<1>4. ASSUME NEW s \in Streams, NEW payload, NEW padding, NEW eos,
             PeerSends(s, payload, padding, eos)
      PROVE  UNCHANGED vars
  BY <1>4 DEF PeerSends
<1>5. ASSUME NEW sz, WriteSettings(sz) PROVE UNCHANGED vars
  BY <1>5 DEF WriteSettings
<1>6. CASE Retarget
  BY <1>6 DEF Retarget, Next
<1>7. CASE WriteConnectionWindowUpdate
  BY <1>7 DEF WriteConnectionWindowUpdate, Next
<1>8. CASE Read
  <2> DEFINE f == Head(fromPeer)
  <2>1. f \in FramesFromPeer
    <3>1. fromPeer \in Seq(FramesFromPeer) /\ fromPeer # <<>>
      BY <1>8 DEF PInv, Wires, Read
    <3> QED
      BY <3>1, TailOfWire
  <2>2. CASE f.type = "data" /\ ReadData(f)
    BY <2>1, <2>2, KindsFromPeer, DataIsReceived
  <2>3. CASE f.type = "headers" /\ ReadHeaders(f.stream)
    BY <2>1, <2>3, KindsFromPeer DEF ReadHeaders, Next, Connection
  <2>4. CASE f.type = "reset" /\ ReadReset(f.stream)
    BY <2>1, <2>4, KindsFromPeer DEF ReadReset, Next, Connection
  <2>5. CASE ReadAck
    BY <2>5 DEF ReadAck, PInv, Handshake, Next
  <2> QED
    BY <1>8, <2>2, <2>3, <2>4, <2>5 DEF Read
<1>9. CASE PeerReads
  BY <1>9 DEF PeerReads
<1>10. CASE UNCHANGED allVars
  BY <1>10 DEF allVars
<1> QED
  BY <1>1, <1>2, <1>3, <1>4, <1>5, <1>6, <1>7, <1>8, <1>9, <1>10 DEF PeerNext

LEMMA InitPInv == PeerInit => IInv /\ PInv
<1> SUFFICES ASSUME PeerInit PROVE IInv /\ PInv
  OBVIOUS
<1>1. IInv
  BY InitIInv DEF PeerInit
<1>2. /\ toPeer = <<>> /\ fromPeer = <<>> /\ pendingSettings = {}
      /\ peer = [conn |-> DefaultWindow, init |-> DefaultWindow,
                 stream |-> [s \in Streams |-> 0], state |-> [s \in Streams |-> "none"]]
      /\ conn.flow.window = DefaultWindow /\ initWindowSz = DefaultWindow
      /\ \A s \in Streams : streams[s].state = "idle"
  BY DEF PeerInit, Init, NewStream, NewFlow
<1>3. Len(toPeer) = 0 /\ Len(fromPeer) = 0 /\ DefaultWindow \in Nat /\ DefaultWindow <= MaxWindow
  BY <1>2, RecvAssumption, MaxWindowAssumption
<1>4. Wires(toPeer, fromPeer, peer)
  <2>1. toPeer \in Seq(FramesToPeer) /\ fromPeer \in Seq(FramesFromPeer)
    BY <1>2
  <2> QED
    BY <1>3, <2>1 DEF Wires
<1>5. PeerTypes(peer)
  BY <1>2, <1>3, MaxWindowAssumption DEF PeerTypes
<1>6. ~Acked(fromPeer)
  BY <1>3 DEF Acked
<1>7. Handshake(pendingSettings, initWindowSz, toPeer, fromPeer, peer)
  BY <1>2, <1>3, <1>6 DEF Handshake
<1>8. Octets(fromPeer, "data") = 0 /\ Octets(toPeer, "connUpdate") = 0
  BY <1>3, TotalOfNone DEF Octets
<1>9. ConnAccount(conn, connErr, toPeer, fromPeer, peer)
  BY <1>2, <1>3, <1>8 DEF ConnAccount
<1>10. ASSUME NEW s \in Streams
       PROVE  StreamAccount(s, WindowOf(streams, initWindowSz, s),
                            Receiving(streams, connErr, s), initWindowSz, toPeer, fromPeer, peer)
  <2>1. Data(fromPeer, s, Len(fromPeer)) = 0 /\ Updates(toPeer, s) = 0
    BY <1>3, TotalOfNone DEF Data, Updates
  <2>2. WindowOf(streams, initWindowSz, s) = DefaultWindow
    BY <1>2 DEF WindowOf
  <2>3. peer.state[s] = "none" /\ peer.stream[s] = 0
    BY <1>2
  <2>4. Covered(s, DefaultWindow, initWindowSz, toPeer, fromPeer, peer)
    BY <1>2, <1>3, <2>1, <2>3 DEF Covered
  <2> QED
    BY <2>1, <2>2, <2>3, <2>4 DEF StreamAccount
<1> QED
  BY <1>1, <1>4, <1>5, <1>7, <1>9, <1>10 DEF PInv, StreamAccounts

----------------------------------------------------------------------------
(* What is under way, and where the settings are, as the wires change.     *)

LEMMA WiresAfterRead ==
  ASSUME NEW tp, NEW fp, NEW p, Wires(tp, fp, p), fp # <<>>
  PROVE  Wires(tp, Tail(fp), p)
<1>1. Tail(fp) \in Seq(FramesFromPeer)
  BY TailOfWire DEF Wires
<1> QED
  BY <1>1 DEF Wires

LEMMA WiresAfterPeerSends ==
  ASSUME NEW tp, NEW fp, NEW p, Wires(tp, fp, p), NEW f \in FramesFromPeer, NEW p2,
         \A i \in 1 .. Len(tp) : tp[i].type = "headers" => p2.state[tp[i].stream] = "none"
  PROVE  Wires(tp, Append(fp, f), p2)
<1>1. Append(fp, f) \in Seq(FramesFromPeer)
  BY AppendedWire DEF Wires
<1> QED
  BY <1>1 DEF Wires

LEMMA WiresAfterWrite ==
  ASSUME NEW tp, NEW fp, NEW p, Wires(tp, fp, p), NEW f \in FramesToPeer,
         f.type = "headers" =>
           /\ f.stream \in Requests /\ p.state[f.stream] = "none"
           /\ \A i \in 1 .. Len(tp) : tp[i].type = "headers" => tp[i].stream # f.stream
  PROVE  Wires(Append(tp, f), fp, p)
<1>1. tp \in Seq(FramesToPeer)
  BY DEF Wires
<1>2. /\ Append(tp, f) \in Seq(FramesToPeer) /\ Len(tp) \in Nat
      /\ Len(Append(tp, f)) = Len(tp) + 1
      /\ \A i \in 1 .. Len(tp) : Append(tp, f)[i] = tp[i]
      /\ Append(tp, f)[Len(tp) + 1] = f
  BY <1>1, AppendedWire
<1>3. \A i \in 1 .. Len(tp) + 1 : i \in 1 .. Len(tp) \/ i = Len(tp) + 1
  BY <1>2
<1> QED
  BY <1>2, <1>3 DEF Wires

LEMMA WiresAfterPeerReads ==
  ASSUME NEW tp, NEW fp, NEW p, Wires(tp, fp, p), tp # <<>>, NEW p2,
         \A t \in Streams :
           p2.state[t] = p.state[t] \/ (Head(tp).type = "headers" /\ Head(tp).stream = t)
  PROVE  Wires(Tail(tp), fp, p2)
<1>1. tp \in Seq(FramesToPeer)
  BY DEF Wires
<1> DEFINE rest == Tail(tp)
<1>2. /\ rest \in Seq(FramesToPeer) /\ Len(tp) \in Nat /\ Len(tp) >= 1
      /\ Len(rest) = Len(tp) - 1 /\ Head(tp) = tp[1]
      /\ \A i \in 1 .. Len(rest) : rest[i] = tp[i + 1]
  BY <1>1, TailOfWire
<1>3. \A i \in 1 .. Len(rest) : i + 1 \in 1 .. Len(tp) /\ i + 1 # 1
  BY <1>2
<1>4. 1 \in 1 .. Len(tp)
  BY <1>2
<1>5. \A i \in 1 .. Len(tp) : tp[i] \in FramesToPeer
  BY <1>1
<1> HIDE DEF rest
<1>6. ASSUME NEW i \in 1 .. Len(rest), rest[i].type = "headers"
      PROVE  rest[i].stream \in Requests /\ p2.state[rest[i].stream] = "none"
  <2>1. rest[i] = tp[i + 1] /\ i + 1 \in 1 .. Len(tp) /\ i + 1 # 1
    BY <1>2, <1>3
  <2>2. tp[i + 1].stream \in Streams /\ tp[i + 1].stream \in Requests /\ p.state[tp[i + 1].stream] = "none"
    BY <1>5, <1>6, <2>1, KindsToPeer DEF Wires
  <2>3. ~(tp[1].type = "headers" /\ tp[1].stream = tp[i + 1].stream)
    BY <1>4, <1>6, <2>1 DEF Wires
  <2> QED
    BY <1>2, <2>1, <2>2, <2>3
<1>7. ASSUME NEW i \in 1 .. Len(rest), NEW j \in 1 .. Len(rest),
             rest[i].type = "headers", rest[j].type = "headers", rest[i].stream = rest[j].stream
      PROVE  i = j
  <2>1. /\ rest[i] = tp[i + 1] /\ i + 1 \in 1 .. Len(tp)
        /\ rest[j] = tp[j + 1] /\ j + 1 \in 1 .. Len(tp)
    BY <1>2, <1>3
  <2>2. i + 1 = j + 1
    BY <1>7, <2>1 DEF Wires
  <2> QED
    BY <2>2
<1> QED
  BY <1>2, <1>6, <1>7 DEF Wires, rest

LEMMA HandshakeAfterRead ==
  ASSUME NEW pending, NEW init, NEW tp, NEW fp \in Seq(FramesFromPeer), NEW p,
         Handshake(pending, init, tp, fp, p), fp # <<>>
  PROVE  /\ Head(fp).type # "ack" => Handshake(pending, init, tp, Tail(fp), p)
         /\ Head(fp).type = "ack" =>
              /\ pending = {p.init} /\ ~Acked(Tail(fp))
              /\ Handshake({}, p.init, tp, Tail(fp), p)
<1> DEFINE rest == Tail(fp)
<1>1. /\ Len(fp) \in Nat /\ Len(fp) >= 1
      /\ Len(rest) = Len(fp) - 1 /\ Head(fp) = fp[1]
      /\ \A i \in 1 .. Len(rest) : rest[i] = fp[i + 1]
  BY TailOfWire
<1>2. \A i \in 1 .. Len(rest) : i + 1 \in 1 .. Len(fp) /\ i + 1 # 1
  BY <1>1
<1>3. 1 \in 1 .. Len(fp)
  BY <1>1
<1>4. \A i \in 1 .. Len(fp) : i = 1 \/ (i - 1 \in 1 .. Len(rest) /\ rest[i - 1] = fp[i])
  BY <1>1
<1> HIDE DEF rest
<1>5. ASSUME NEW i \in 1 .. Len(rest), NEW j \in 1 .. Len(rest),
             rest[i].type = "ack", rest[j].type = "ack"
      PROVE  i = j
  <2>1. i + 1 = j + 1
    BY <1>1, <1>2, <1>5 DEF Handshake
  <2> QED
    BY <2>1
<1>6. CASE Head(fp).type # "ack"
  <2>1. Acked(rest) <=> Acked(fp)
    BY <1>1, <1>2, <1>4, <1>6 DEF Acked
  <2>2. Handshake(pending, init, tp, rest, p)
    BY <1>5, <2>1 DEF Handshake
  <2> QED
    BY <1>6, <2>2 DEF rest
<1>7. CASE Head(fp).type = "ack"
  <2>1. Acked(fp)
    BY <1>1, <1>3, <1>7 DEF Acked
  <2>2. ~Acked(rest)
    BY <1>1, <1>2, <1>3, <1>7 DEF Acked, Handshake
  <2>3. pending = {p.init}
    BY <2>1 DEF Handshake
  <2>4. \A i \in 1 .. Len(tp) : tp[i].type # "settings"
    BY <2>1 DEF Handshake
  <2>5. Handshake({}, p.init, tp, rest, p)
    BY <1>5, <2>2, <2>4 DEF Handshake
  <2> QED
    BY <1>7, <2>2, <2>3, <2>5 DEF rest
<1> QED
  BY <1>6, <1>7

LEMMA HandshakeAfterPeerSends ==
  ASSUME NEW pending, NEW init, NEW tp, NEW fp \in Seq(FramesFromPeer), NEW p,
         Handshake(pending, init, tp, fp, p), NEW f \in FramesFromPeer, f.type # "ack",
         NEW p2, p2.init = p.init
  PROVE  Handshake(pending, init, tp, Append(fp, f), p2)
<1> DEFINE more == Append(fp, f)
<1>1. /\ Len(fp) \in Nat /\ Len(more) = Len(fp) + 1
      /\ \A i \in 1 .. Len(fp) : more[i] = fp[i]
      /\ more[Len(fp) + 1] = f
  BY AppendedWire
<1>2. \A i \in 1 .. Len(more) : i \in 1 .. Len(fp) \/ i = Len(fp) + 1
  BY <1>1
<1>3. \A i \in 1 .. Len(fp) : i \in 1 .. Len(more)
  BY <1>1
<1> HIDE DEF more
<1>4. Acked(more) <=> Acked(fp)
  BY <1>1, <1>2, <1>3 DEF Acked
<1>5. \A i, j \in 1 .. Len(more) : more[i].type = "ack" /\ more[j].type = "ack" => i = j
  BY <1>1, <1>2 DEF Handshake
<1>6. Handshake(pending, init, tp, more, p2)
  BY <1>4, <1>5 DEF Handshake
<1> QED
  BY <1>6 DEF more

LEMMA HandshakeAfterWrite ==
  ASSUME NEW pending, NEW init, NEW tp \in Seq(FramesToPeer), NEW fp, NEW p,
         Handshake(pending, init, tp, fp, p), NEW f \in FramesToPeer
  PROVE  /\ f.type # "settings" => Handshake(pending, init, Append(tp, f), fp, p)
         /\ f.type = "settings" /\ pending = {} /\ f.sz # init =>
              Handshake({f.sz}, init, Append(tp, f), fp, p)
<1> DEFINE more == Append(tp, f)
<1>1. /\ Len(tp) \in Nat /\ Len(more) = Len(tp) + 1
      /\ \A i \in 1 .. Len(tp) : more[i] = tp[i]
      /\ more[Len(tp) + 1] = f
  BY AppendedWire
<1>2. \A i \in 1 .. Len(more) : i \in 1 .. Len(tp) \/ i = Len(tp) + 1
  BY <1>1
<1> HIDE DEF more
<1>3. CASE f.type # "settings"
  <2>1. /\ \A i \in 1 .. Len(more) : more[i].type = "settings" => pending = {more[i].sz} /\ ~Acked(fp)
        /\ \A i, j \in 1 .. Len(more) : more[i].type = "settings" /\ more[j].type = "settings" => i = j
    BY <1>1, <1>2, <1>3 DEF Handshake
  <2>2. Handshake(pending, init, more, fp, p)
    BY <2>1 DEF Handshake
  <2> QED
    BY <1>3, <2>2 DEF more
<1>4. CASE f.type = "settings" /\ pending = {} /\ f.sz # init
  <2>1. f.sz \in InitWindows
    BY <1>4, KindsToPeer
  <2>2. ~Acked(fp)
    BY <1>4 DEF Handshake
  <2>3. \A i \in 1 .. Len(tp) : tp[i].type # "settings"
    <3>1. \A v : {} # {v}
      OBVIOUS
    <3> QED
      BY <1>4, <3>1 DEF Handshake
  <2>4. /\ \A i \in 1 .. Len(more) : more[i].type = "settings" => i = Len(tp) + 1 /\ more[i] = f
    BY <1>1, <1>2, <2>3
  <2>5. \A i, j \in 1 .. Len(more) : more[i].type = "settings" /\ more[j].type = "settings" => i = j
    BY <2>4
  <2>6. Handshake({f.sz}, init, more, fp, p)
    BY <1>4, <2>1, <2>2, <2>4, <2>5 DEF Handshake
  <2> QED
    BY <1>4, <2>6 DEF more
<1> QED
  BY <1>3, <1>4

LEMMA HandshakeAfterPeerReads ==
  ASSUME NEW pending, NEW init, NEW tp \in Seq(FramesToPeer), NEW fp \in Seq(FramesFromPeer),
         NEW p, Handshake(pending, init, tp, fp, p), tp # <<>>, NEW p2
  PROVE  /\ Head(tp).type # "settings" /\ p2.init = p.init =>
              Handshake(pending, init, Tail(tp), fp, p2)
         /\ Head(tp).type = "settings" /\ p2.init = Head(tp).sz =>
              /\ ~Acked(fp) /\ p.init = init
              /\ Handshake(pending, init, Tail(tp), Append(fp, [type |-> "ack"]), p2)
<1> DEFINE rest == Tail(tp)
           ack == [type |-> "ack"]
           more == Append(fp, ack)
<1>1. /\ Len(tp) \in Nat /\ Len(tp) >= 1
      /\ Len(rest) = Len(tp) - 1 /\ Head(tp) = tp[1]
      /\ \A i \in 1 .. Len(rest) : rest[i] = tp[i + 1]
  BY TailOfWire
<1>2. \A i \in 1 .. Len(rest) : i + 1 \in 1 .. Len(tp) /\ i + 1 # 1
  BY <1>1
<1>3. 1 \in 1 .. Len(tp)
  BY <1>1
<1>4. ack \in FramesFromPeer
  BY DEF FramesFromPeer
<1>5. /\ Len(fp) \in Nat /\ Len(more) = Len(fp) + 1
      /\ \A i \in 1 .. Len(fp) : more[i] = fp[i]
      /\ more[Len(fp) + 1] = ack
  BY <1>4, AppendedWire
<1>6. \A i \in 1 .. Len(more) : i \in 1 .. Len(fp) \/ i = Len(fp) + 1
  BY <1>5
<1>7. Len(fp) + 1 \in 1 .. Len(more) /\ ack.type = "ack"
  BY <1>5
<1> HIDE DEF rest, more, ack
<1>8. ASSUME NEW i \in 1 .. Len(rest), NEW j \in 1 .. Len(rest),
             rest[i].type = "settings", rest[j].type = "settings"
      PROVE  i = j
  <2>1. i + 1 = j + 1
    BY <1>1, <1>2, <1>8 DEF Handshake
  <2> QED
    BY <2>1
<1>9. CASE Head(tp).type # "settings" /\ p2.init = p.init
  <2>1. \A i \in 1 .. Len(rest) : rest[i].type = "settings" => pending = {rest[i].sz} /\ ~Acked(fp)
    BY <1>1, <1>2 DEF Handshake
  <2>2. Handshake(pending, init, rest, fp, p2)
    BY <1>8, <1>9, <2>1 DEF Handshake
  <2> QED
    BY <1>9, <2>2 DEF rest
<1>10. CASE Head(tp).type = "settings" /\ p2.init = Head(tp).sz
  <2>1. pending = {p2.init} /\ ~Acked(fp)
    BY <1>1, <1>3, <1>10 DEF Handshake
  <2>2. p.init = init
    BY <2>1 DEF Handshake
  <2>3. \A i \in 1 .. Len(rest) : rest[i].type # "settings"
    BY <1>1, <1>2, <1>3, <1>10 DEF Handshake
  <2>4. Acked(more)
    BY <1>5, <1>7 DEF Acked
  <2>5. \A i \in 1 .. Len(more) : more[i].type = "ack" => i = Len(fp) + 1
    BY <1>5, <1>6, <2>1 DEF Acked
  <2>6. Handshake(pending, init, rest, more, p2)
    BY <2>1, <2>3, <2>4, <2>5 DEF Handshake
  <2> QED
    BY <1>10, <2>1, <2>2, <2>6 DEF rest, more, ack
<1> QED
  BY <1>9, <1>10

----------------------------------------------------------------------------
(* The connection's account as the wires change.                           *)

LEMMA ConnAfterRead ==
  ASSUME NEW c, NEW c2, NEW err \in BOOLEAN, NEW err2 \in BOOLEAN,
         NEW tp \in Seq(FramesToPeer), NEW fp \in Seq(FramesFromPeer), fp # <<>>,
         NEW p, PeerTypes(p), c.flow.window \in Int, c2.flow.window \in Int,
         ConnAccount(c, err, tp, fp, p), err => err2,
         c2.flow.window >= c.flow.window - Weight(Head(fp), "data"),
         err2 \/ c2.flow.window = c.flow.window - Weight(Head(fp), "data")
  PROVE  ConnAccount(c2, err2, tp, Tail(fp), p)
<1>1. fp \in Seq(Frames) /\ Tail(fp) \in Seq(Frames) /\ Head(fp) \in Frames /\ tp \in Seq(Frames)
  BY WiresAreOfFrames, TailOfWire
<1>2. Octets(fp, "data") = Weight(Head(fp), "data") + Octets(Tail(fp), "data")
  BY <1>1, OctetsOfTail
<1>3. /\ Weight(Head(fp), "data") \in Nat /\ Octets(Tail(fp), "data") \in Nat
      /\ Octets(tp, "connUpdate") \in Nat /\ p.conn \in Int
  <2>1. 0 \in 0 .. Len(Tail(fp)) /\ 0 \in 0 .. Len(tp)
    BY <1>1
  <2> QED
    BY <1>1, <2>1, WeightType, OctetsType DEF PeerTypes
<1>4. CASE err2
  BY <1>2, <1>3, <1>4, SMTT(30) DEF ConnAccount
<1>5. CASE ~err2
  <2>1. ~err /\ c2.flow.window = c.flow.window - Weight(Head(fp), "data")
    BY <1>5
  <2> QED
    BY <1>2, <1>3, <2>1 DEF ConnAccount
<1> QED
  BY <1>4, <1>5

LEMMA ConnAfterPeerSends ==
  ASSUME NEW c, NEW err \in BOOLEAN,
         NEW tp \in Seq(FramesToPeer), NEW fp \in Seq(FramesFromPeer),
         NEW f \in FramesFromPeer, NEW p, PeerTypes(p), c.flow.window \in Int,
         ConnAccount(c, err, tp, fp, p), NEW p2, p2.conn = p.conn - Weight(f, "data")
  PROVE  ConnAccount(c, err, tp, Append(fp, f), p2)
<1>1. fp \in Seq(Frames) /\ f \in Frames /\ tp \in Seq(Frames)
  BY WiresAreOfFrames DEF Frames
<1>2. Octets(Append(fp, f), "data") = Octets(fp, "data") + Weight(f, "data")
  BY <1>1, OctetsOfAppend
<1>3. /\ Weight(f, "data") \in Nat /\ Octets(fp, "data") \in Nat
      /\ Octets(tp, "connUpdate") \in Nat /\ p.conn \in Int
  <2>1. 0 \in 0 .. Len(fp) /\ 0 \in 0 .. Len(tp)
    BY <1>1
  <2> QED
    BY <1>1, <2>1, WeightType, OctetsType DEF PeerTypes
<1> QED
  BY <1>2, <1>3 DEF ConnAccount

LEMMA ConnAfterWrite ==
  ASSUME NEW c, NEW c2, NEW err \in BOOLEAN,
         NEW tp \in Seq(FramesToPeer), NEW fp \in Seq(FramesFromPeer),
         NEW f \in FramesToPeer, NEW p, PeerTypes(p), c.flow.window \in Int,
         ConnAccount(c, err, tp, fp, p),
         c2.flow.window = c.flow.window + Weight(f, "connUpdate")
  PROVE  ConnAccount(c2, err, Append(tp, f), fp, p)
<1>1. fp \in Seq(Frames) /\ f \in Frames /\ tp \in Seq(Frames)
  BY WiresAreOfFrames DEF Frames
<1>2. Octets(Append(tp, f), "connUpdate") = Octets(tp, "connUpdate") + Weight(f, "connUpdate")
  BY <1>1, OctetsOfAppend
<1>3. /\ Weight(f, "connUpdate") \in Nat /\ Octets(fp, "data") \in Nat
      /\ Octets(tp, "connUpdate") \in Nat /\ p.conn \in Int
  <2>1. 0 \in 0 .. Len(fp) /\ 0 \in 0 .. Len(tp)
    BY <1>1
  <2> QED
    BY <1>1, <2>1, WeightType, OctetsType DEF PeerTypes
<1> QED
  BY <1>2, <1>3 DEF ConnAccount

LEMMA ConnAfterPeerReads ==
  ASSUME NEW c, NEW err \in BOOLEAN,
         NEW tp \in Seq(FramesToPeer), tp # <<>>, NEW fp \in Seq(FramesFromPeer),
         NEW p, PeerTypes(p), c.flow.window \in Int, ConnAccount(c, err, tp, fp, p),
         NEW p2, p2.conn = p.conn + Weight(Head(tp), "connUpdate")
  PROVE  /\ ConnAccount(c, err, Tail(tp), fp, p2)
         /\ Weight(Head(tp), "connUpdate") \in Nat
<1>1. fp \in Seq(Frames) /\ tp \in Seq(Frames) /\ Tail(tp) \in Seq(Frames) /\ Head(tp) \in Frames
  BY WiresAreOfFrames, TailOfWire
<1>2. Octets(tp, "connUpdate") = Weight(Head(tp), "connUpdate") + Octets(Tail(tp), "connUpdate")
  BY <1>1, OctetsOfTail
<1>3. /\ Weight(Head(tp), "connUpdate") \in Nat /\ Octets(fp, "data") \in Nat
      /\ Octets(Tail(tp), "connUpdate") \in Nat /\ p.conn \in Int
  <2>1. 0 \in 0 .. Len(fp) /\ 0 \in 0 .. Len(Tail(tp))
    BY <1>1
  <2> QED
    BY <1>1, <2>1, WeightType, OctetsType DEF PeerTypes
<1> QED
  BY <1>2, <1>3 DEF ConnAccount

----------------------------------------------------------------------------
(* Each step keeps PInv.                                                   *)

LEMMA PeerKnown ==
  ASSUME NEW p, PeerTypes(p), NEW s \in Streams
  PROVE  /\ PeerOf(p, s) /\ p.conn \in Int /\ p.conn >= 0 /\ p.init \in 0 .. MaxWindow
         /\ p.state[s] \in {"none", "open", "done"}
BY MaxWindowAssumption DEF PeerTypes, PeerOf

\* The window of a stream narrows, or nobody receives any more.
LEMMA NarrowedAccount ==
  ASSUME NEW s, NEW w \in Int, NEW w2 \in Int, NEW rec \in BOOLEAN, NEW rec2 \in BOOLEAN,
         NEW init \in Int, NEW tp \in Seq(FramesToPeer), NEW fp \in Seq(FramesFromPeer),
         NEW p, PeerOf(p, s), StreamAccount(s, w, rec, init, tp, fp, p),
         rec2 => rec /\ w2 >= w
  PROVE  StreamAccount(s, w2, rec2, init, tp, fp, p)
<1>1. ASSUME rec2
      PROVE  Covered(s, w2, init, tp, fp, p)
  <2>1. Covered(s, w, init, tp, fp, p) /\ w2 >= w
    BY <1>1 DEF StreamAccount
  <2>2. p.state[s] # "none" =>
          p.stream[s] + Data(fp, s, Len(fp)) + Updates(tp, s) <= w2 + p.init - init
    <3>1. Len(fp) \in 0 .. Len(fp)
      OBVIOUS
    <3>2. /\ Updates(tp, s) \in Nat /\ Data(fp, s, Len(fp)) \in Nat
          /\ p.stream[s] \in Int /\ p.init \in Int
      BY <3>1, UpdatesType, DataType DEF PeerOf
    <3>3. p.state[s] # "none" =>
            p.stream[s] + Data(fp, s, Len(fp)) + Updates(tp, s) <= w + p.init - init
      BY <2>1 DEF Covered
    <3> QED
      BY <2>1, <3>2, <3>3, SMTT(30)
  <2>3. ASSUME NEW a \in 1 .. Len(fp), Data(fp, s, a) <= AsSize(w)
        PROVE  Data(fp, s, a) <= AsSize(w2)
    <3>1. Data(fp, s, a) \in Nat
      BY DataType
    <3> QED
      BY <2>1, <2>3, <3>1 DEF AsSize
  <2> QED
    BY <2>1, <2>2, <2>3 DEF Covered
<1> QED
  BY <1>1 DEF StreamAccount

LEMMA QuietStep ==
  ASSUME IInv, IInv', PInv, Charges(NoCharge), UNCHANGED <<wires, pendingSettings, peer>>
  PROVE  PInv'
<1>1. /\ toPeer' = toPeer /\ fromPeer' = fromPeer /\ peer' = peer
      /\ pendingSettings' = pendingSettings /\ initWindowSz' = initWindowSz
  BY DEF wires, Charges
<1>2. /\ conn.flow.window \in Int /\ initWindowSz \in Int
      /\ connErr \in BOOLEAN
      /\ \A s \in Streams : WindowOf(streams, initWindowSz, s) \in Int
                            /\ Receiving(streams, connErr, s) \in BOOLEAN
  BY WindowTypes
<1>3. /\ conn'.flow.window \in Int /\ connErr' \in BOOLEAN
      /\ \A s \in Streams : WindowOf(streams', initWindowSz', s) \in Int
                            /\ Receiving(streams', connErr', s) \in BOOLEAN
  BY WindowTypesAfter
<1>4. /\ Weight(NoCharge, "data") = 0
      /\ \A s : StreamWeight(NoCharge, "data", s) = 0
  BY NoChargeWeighsNothing
<1>5. /\ toPeer \in Seq(FramesToPeer) /\ fromPeer \in Seq(FramesFromPeer) /\ PeerTypes(peer)
      /\ ConnAccount(conn, connErr, toPeer, fromPeer, peer)
  BY DEF PInv, Wires
<1>6. ConnAccount(conn', connErr', toPeer, fromPeer, peer)
  <2>1. /\ conn'.flow.window >= conn.flow.window
        /\ connErr' \/ (~connErr /\ conn'.flow.window = conn.flow.window)
    BY <1>2, <1>4 DEF Charges
  <2>2. /\ Octets(fromPeer, "data") \in Nat /\ Octets(toPeer, "connUpdate") \in Nat
        /\ peer.conn \in Int
    <3>1. /\ fromPeer \in Seq(Frames) /\ toPeer \in Seq(Frames)
          /\ 0 \in 0 .. Len(fromPeer) /\ 0 \in 0 .. Len(toPeer)
      BY <1>5, WiresAreOfFrames
    <3> QED
      BY <1>5, <3>1, OctetsType DEF PeerTypes
  <2> QED
    BY <1>2, <1>3, <1>5, <2>1, <2>2 DEF ConnAccount
<1>7. ASSUME NEW s \in Streams
      PROVE  StreamAccount(s, WindowOf(streams', initWindowSz, s), Receiving(streams', connErr', s),
                           initWindowSz, toPeer, fromPeer, peer)
  <2>1. StreamAccount(s, WindowOf(streams, initWindowSz, s), Receiving(streams, connErr, s),
                      initWindowSz, toPeer, fromPeer, peer)
    BY DEF PInv, StreamAccounts
  <2>2. Receiving(streams', connErr', s) =>
          /\ Receiving(streams, connErr, s)
          /\ WindowOf(streams', initWindowSz, s) >= WindowOf(streams, initWindowSz, s)
    BY <1>2, <1>4 DEF Charges, WindowKept
  <2>3. WindowOf(streams', initWindowSz, s) \in Int /\ Receiving(streams', connErr', s) \in BOOLEAN
    BY <1>1, <1>3
  <2> QED
    BY <1>2, <1>5, <2>1, <2>2, <2>3, NarrowedAccount, PeerKnown
<1> QED
  BY <1>1, <1>6, <1>7 DEF PInv, StreamAccounts

\* What PInv says of a stream, for the account lemmas.
LEMMA AccountOf ==
  ASSUME IInv, PInv, NEW s \in Streams
  PROVE  /\ toPeer \in Seq(FramesToPeer) /\ fromPeer \in Seq(FramesFromPeer)
         /\ PeerTypes(peer) /\ PeerOf(peer, s)
         /\ WindowOf(streams, initWindowSz, s) \in Int
         /\ Receiving(streams, connErr, s) \in BOOLEAN /\ initWindowSz \in Int
         /\ StreamAccount(s, WindowOf(streams, initWindowSz, s), Receiving(streams, connErr, s),
                          initWindowSz, toPeer, fromPeer, peer)
BY WindowTypes, PeerKnown DEF PInv, Wires, StreamAccounts

LEMMA ReadStep ==
  ASSUME IInv, IInv', PInv, fromPeer # <<>>, fromPeer' = Tail(fromPeer),
         Head(fromPeer).type # "ack", Charges(Head(fromPeer)),
         UNCHANGED <<toPeer, peer, pendingSettings>>
  PROVE  PInv'
<1>1. toPeer' = toPeer /\ peer' = peer /\ pendingSettings' = pendingSettings
      /\ initWindowSz' = initWindowSz
  BY DEF Charges
<1>2. /\ toPeer \in Seq(FramesToPeer) /\ fromPeer \in Seq(FramesFromPeer) /\ PeerTypes(peer)
      /\ ConnAccount(conn, connErr, toPeer, fromPeer, peer)
      /\ Wires(toPeer, fromPeer, peer)
      /\ Handshake(pendingSettings, initWindowSz, toPeer, fromPeer, peer)
  BY DEF PInv, Wires
<1>3. conn.flow.window \in Int /\ connErr \in BOOLEAN
  BY WindowTypes
<1>4. /\ conn'.flow.window \in Int /\ connErr' \in BOOLEAN
      /\ \A s \in Streams : WindowOf(streams', initWindowSz', s) \in Int
                            /\ Receiving(streams', connErr', s) \in BOOLEAN
  BY WindowTypesAfter
<1>5. Wires(toPeer, fromPeer', peer)
  BY <1>2, WiresAfterRead
<1>6. Handshake(pendingSettings, initWindowSz, toPeer, fromPeer', peer)
  BY <1>2, HandshakeAfterRead
<1>7. ConnAccount(conn', connErr', toPeer, fromPeer', peer)
  BY <1>2, <1>3, <1>4, ConnAfterRead DEF Charges
<1>8. ASSUME NEW s \in Streams
      PROVE  StreamAccount(s, WindowOf(streams', initWindowSz, s), Receiving(streams', connErr', s),
                           initWindowSz, toPeer, fromPeer', peer)
  <2>1. Receiving(streams', connErr', s) =>
          /\ Receiving(streams, connErr, s)
          /\ WindowOf(streams', initWindowSz, s)
               >= WindowOf(streams, initWindowSz, s) - StreamWeight(Head(fromPeer), "data", s)
    BY DEF Charges, WindowKept
  <2>2. WindowOf(streams', initWindowSz, s) \in Int /\ Receiving(streams', connErr', s) \in BOOLEAN
    BY <1>1, <1>4
  <2> QED
    BY <2>1, <2>2, AccountOf, ReadAccount
<1> QED
  BY <1>1, <1>2, <1>5, <1>6, <1>7, <1>8 DEF PInv, StreamAccounts

LEMMA NoDataCharges ==
  ASSUME Charges(NoCharge), NEW f, f.type # "data"
  PROVE  Charges(f)
<1>1. /\ Weight(f, "data") = Weight(NoCharge, "data")
      /\ \A s \in Streams : StreamWeight(f, "data", s) = StreamWeight(NoCharge, "data", s)
  BY NoChargeWeighsNothing DEF Weight, StreamWeight
<1> QED
  BY <1>1 DEF Charges

\* The acknowledgement: the windows of all streams are shifted.
LEMMA AckStep ==
  ASSUME IInv, IInv', PInv, fromPeer # <<>>, fromPeer' = Tail(fromPeer),
         Head(fromPeer).type = "ack", ReadAck, pendingSettings' = {},
         UNCHANGED <<toPeer, peer>>
  PROVE  PInv'
<1>1. toPeer' = toPeer /\ peer' = peer
  OBVIOUS
<1>2. /\ toPeer \in Seq(FramesToPeer) /\ fromPeer \in Seq(FramesFromPeer) /\ PeerTypes(peer)
      /\ ConnAccount(conn, connErr, toPeer, fromPeer, peer)
      /\ Wires(toPeer, fromPeer, peer)
      /\ Handshake(pendingSettings, initWindowSz, toPeer, fromPeer, peer)
  BY DEF PInv, Wires
<1>3. /\ pendingSettings = {peer.init} /\ ~Acked(fromPeer')
      /\ Handshake({}, peer.init, toPeer, fromPeer', peer)
  <2>1. /\ pendingSettings = {peer.init} /\ ~Acked(Tail(fromPeer))
        /\ Handshake({}, peer.init, toPeer, Tail(fromPeer), peer)
    BY <1>2, HandshakeAfterRead
  <2> QED
    BY <2>1
<1>4. ApplyLocalSettings(peer.init)
  BY <1>3 DEF ReadAck
<1>5. /\ ~connErr /\ initWindowSz' = peer.init /\ conn' = conn /\ connErr' = connErr
      /\ streams' = [s \in Streams |->
           IF s \in Stored
             THEN [streams[s] EXCEPT !.flow = DecRecvWindow(@, initWindowSz - peer.init)]
             ELSE streams[s]]
  BY <1>4 DEF ApplyLocalSettings
<1>6. /\ conn.flow.window \in Int /\ connErr \in BOOLEAN /\ initWindowSz \in Int
      /\ streams \in [Streams -> StreamRecord] /\ peer.init \in Int
  BY <1>2, WindowTypes, MaxWindowAssumption DEF PeerTypes
<1>7. /\ \A s \in Streams : WindowOf(streams', initWindowSz', s) \in Int
                            /\ Receiving(streams', connErr', s) \in BOOLEAN
  BY WindowTypesAfter
<1>8. Wires(toPeer, fromPeer', peer)
  BY <1>2, WiresAfterRead
<1>9. ConnAccount(conn', connErr', toPeer, fromPeer', peer)
  <2>1. Weight(Head(fromPeer), "data") = 0
    BY DEF Weight
  <2>2. conn'.flow.window = conn.flow.window - Weight(Head(fromPeer), "data")
    BY <1>5, <1>6, <2>1
  <2>3. conn'.flow.window \in Int /\ connErr' \in BOOLEAN /\ (connErr => connErr')
        /\ conn'.flow.window >= conn.flow.window - Weight(Head(fromPeer), "data")
    BY <1>5, <1>6, <2>1
  <2>4. ConnAccount(conn', connErr', toPeer, Tail(fromPeer), peer)
    BY <1>2, <1>6, <2>2, <2>3, ConnAfterRead
  <2> QED
    BY <2>4
<1>10. ASSUME NEW s \in Streams
       PROVE  StreamAccount(s, WindowOf(streams', peer.init, s), Receiving(streams', connErr', s),
                            peer.init, toPeer, fromPeer', peer)
  <2>1. Receiving(streams', connErr', s) =>
          /\ Receiving(streams, connErr, s)
          /\ WindowOf(streams', peer.init, s)
               = WindowOf(streams, initWindowSz, s) + peer.init - initWindowSz
    <3>1. CASE s \in Stored
      <4>1. streams[s] \in StreamRecord /\ streams[s].flow \in FlowControls
        BY <1>6 DEF StreamRecord
      <4>2. streams'[s] = [streams[s] EXCEPT !.flow = DecRecvWindow(@, initWindowSz - peer.init)]
        BY <1>5, <3>1
      <4>3. streams'[s].state = streams[s].state
            /\ streams'[s].flow = DecRecvWindow(streams[s].flow, initWindowSz - peer.init)
        BY <4>1, <4>2 DEF StreamRecord
      <4>4. DecRecvWindow(streams[s].flow, initWindowSz - peer.init).window
              = streams[s].flow.window - (initWindowSz - peer.init)
        BY <1>6, <4>1, DecRecvWindowRecord
      <4>5. streams[s].state # "idle" /\ streams[s].flow.window \in Int
        BY <3>1, WindowTypes DEF Stored
      <4>6. streams'[s].flow.window = streams[s].flow.window + peer.init - initWindowSz
        BY <1>6, <4>3, <4>4, <4>5
      <4> QED
        BY <1>5, <4>3, <4>5, <4>6 DEF Receiving, WindowOf
    <3>2. CASE s \notin Stored
      <4>1. streams'[s] = streams[s] /\ streams[s].state \in {"idle", "forgotten"}
        BY <1>5, <3>2 DEF Stored
      <4>2. streams[s].state = "idle" =>
              WindowOf(streams', peer.init, s)
                = WindowOf(streams, initWindowSz, s) + peer.init - initWindowSz
        BY <1>6, <4>1 DEF WindowOf
      <4> QED
        BY <1>5, <4>1, <4>2 DEF Receiving
    <3> QED
      BY <3>1, <3>2
  <2>2. WindowOf(streams', peer.init, s) \in Int /\ Receiving(streams', connErr', s) \in BOOLEAN
    BY <1>5, <1>7
  <2> QED
    BY <1>3, <2>1, <2>2, AccountOf, AckedAccount
<1> QED
  BY <1>1, <1>2, <1>3, <1>5, <1>8, <1>9, <1>10 DEF PInv, StreamAccounts

LEMMA ReadKeepsPInv ==
  ASSUME IInv, IInv', PInv, Read
  PROVE  PInv'
<1> DEFINE f == Head(fromPeer)
<1>1. fromPeer # <<>> /\ fromPeer' = Tail(fromPeer) /\ UNCHANGED <<toPeer, peer>>
  BY DEF Read
<1>2. f \in FramesFromPeer
  BY <1>1, TailOfWire DEF PInv, Wires
<1>3. CASE f.type = "data" /\ ReadData(f) /\ UNCHANGED pendingSettings
  BY <1>1, <1>2, <1>3, KindsFromPeer, DataCharges, ReadStep
<1>4. CASE f.type = "headers" /\ ReadHeaders(f.stream) /\ UNCHANGED pendingSettings
  <2>1. Charges(f)
    BY <1>2, <1>4, KindsFromPeer, HeadersCharge, NoDataCharges
  <2> QED
    BY <1>1, <1>4, <2>1, ReadStep
<1>5. CASE f.type = "reset" /\ ReadReset(f.stream) /\ UNCHANGED pendingSettings
  <2>1. Charges(f)
    BY <1>2, <1>5, KindsFromPeer, ResetCharges, NoDataCharges
  <2> QED
    BY <1>1, <1>5, <2>1, ReadStep
<1>6. CASE f.type = "ack" /\ ReadAck /\ pendingSettings' = {}
  BY <1>1, <1>6, AckStep
<1> QED
  BY <1>3, <1>4, <1>5, <1>6 DEF Read

\* What a written frame does to the window of its stream.
Raises(f, s) ==
  /\ Receiving(streams', connErr', s) = Receiving(streams, connErr, s)
  /\ WindowOf(streams', initWindowSz, s)
       = WindowOf(streams, initWindowSz, s) + StreamWeight(f, "streamUpdate", s)
  /\ StreamWeight(f, "streamUpdate", s) > 0 =>
       /\ Receiving(streams, connErr, s)
       /\ WindowOf(streams', initWindowSz, s) <= initWindowSz

LEMMA WriteStep ==
  ASSUME IInv, IInv', PInv, NEW f \in FramesToPeer, toPeer' = Append(toPeer, f),
         UNCHANGED <<fromPeer, peer, initWindowSz, connErr>>,
         conn'.flow.window = conn.flow.window + Weight(f, "connUpdate"),
         f.type = "headers" =>
           /\ f.stream \in Requests /\ peer.state[f.stream] = "none"
           /\ \A i \in 1 .. Len(toPeer) : toPeer[i].type = "headers" => toPeer[i].stream # f.stream,
         Handshake(pendingSettings', initWindowSz, Append(toPeer, f), fromPeer, peer),
         \A s \in Streams : Raises(f, s)
  PROVE  PInv'
<1>1. /\ toPeer \in Seq(FramesToPeer) /\ fromPeer \in Seq(FramesFromPeer) /\ PeerTypes(peer)
      /\ ConnAccount(conn, connErr, toPeer, fromPeer, peer)
      /\ Wires(toPeer, fromPeer, peer)
  BY DEF PInv, Wires
<1>2. conn.flow.window \in Int /\ connErr \in BOOLEAN
  BY WindowTypes
<1>3. Wires(Append(toPeer, f), fromPeer, peer)
  BY <1>1, WiresAfterWrite
<1>4. ConnAccount(conn', connErr, Append(toPeer, f), fromPeer, peer)
  BY <1>1, <1>2, ConnAfterWrite
<1>5. ASSUME NEW s \in Streams
      PROVE  StreamAccount(s, WindowOf(streams', initWindowSz, s), Receiving(streams', connErr', s),
                           initWindowSz, Append(toPeer, f), fromPeer, peer)
  <2>1. Raises(f, s)
    OBVIOUS
  <2>2. /\ WindowOf(streams', initWindowSz', s) \in Int
        /\ Receiving(streams', connErr', s) = Receiving(streams, connErr, s)
    BY <2>1, WindowTypesAfter DEF Raises
  <2>3. WindowOf(streams', initWindowSz, s) \in Int
    BY <2>2
  <2>4. StreamAccount(s, WindowOf(streams', initWindowSz, s), Receiving(streams, connErr, s),
                      initWindowSz, Append(toPeer, f), fromPeer, peer)
    BY <2>1, <2>3, AccountOf, WrittenAccount DEF Raises
  <2> QED
    BY <2>2, <2>4
<1> QED
  BY <1>1, <1>3, <1>4, <1>5 DEF PInv, StreamAccounts

\* Where streams stay as they are, and the frame is not about one.
LEMMA RaisesNothing ==
  ASSUME IInv, NEW f, f.type # "streamUpdate", streams' = streams, connErr' = connErr
  PROVE  \A s \in Streams : Raises(f, s)
<1> SUFFICES ASSUME NEW s \in Streams PROVE Raises(f, s)
  OBVIOUS
<1>1. StreamWeight(f, "streamUpdate", s) = 0
  BY DEF StreamWeight
<1>2. WindowOf(streams, initWindowSz, s) \in Int
  BY WindowTypes
<1> QED
  BY <1>1, <1>2 DEF Raises

LEMMA ConnectionUpdateKeepsPInv ==
  ASSUME IInv, IInv', PInv, WriteConnectionWindowUpdate
  PROVE  PInv'
<1> DEFINE f == [type |-> "connUpdate", sz |-> Unclaimed(conn.flow)]
<1>1. /\ ~connErr /\ IsUnclaimed(conn.flow)
      /\ conn' = [conn EXCEPT !.flow = IncWindow(conn.flow, Unclaimed(conn.flow))]
      /\ toPeer' = Append(toPeer, f)
      /\ UNCHANGED <<fromPeer, pendingSettings, peer, initWindowSz, connErr, streams>>
  BY DEF WriteConnectionWindowUpdate, SendConnectionWindowUpdate
<1>2. /\ conn \in [flow : FlowControls, inFlight : 0 .. MaxWindow]
      /\ conn.flow.window \in Int /\ conn.flow.available \in Int
      /\ conn.flow.available <= MaxWindow
  BY MaxWindowAssumption DEF IInv, GoodConn, FlowControls, Window, MinWindow
<1>3. Unclaimed(conn.flow) \in Nat /\ Unclaimed(conn.flow) = conn.flow.available - conn.flow.window
  BY <1>1, <1>2 DEF IsUnclaimed, Unclaimed
<1>4. conn'.flow.window = conn.flow.window + Unclaimed(conn.flow)
  <2>1. CanIncWindow(conn.flow, Unclaimed(conn.flow))
    BY <1>2, <1>3 DEF CanIncWindow
  <2> QED
    BY <1>1, <1>2, <2>1 DEF IncWindow, FlowControls
<1>5. f \in FramesToPeer /\ f.type = "connUpdate" /\ Weight(f, "connUpdate") = Unclaimed(conn.flow)
  BY <1>3 DEF FramesToPeer, Weight
<1> HIDE DEF f
<1>6. toPeer \in Seq(FramesToPeer)
      /\ Handshake(pendingSettings, initWindowSz, toPeer, fromPeer, peer)
  BY DEF PInv, Wires
<1>7. Handshake(pendingSettings', initWindowSz, Append(toPeer, f), fromPeer, peer)
  BY <1>1, <1>5, <1>6, HandshakeAfterWrite
<1>8. \A s \in Streams : Raises(f, s)
  BY <1>1, <1>5, RaisesNothing
<1> QED
  BY <1>1, <1>4, <1>5, <1>7, <1>8, WriteStep

LEMMA SettingsKeepPInv ==
  ASSUME IInv, IInv', PInv, NEW sz \in InitWindows, WriteSettings(sz)
  PROVE  PInv'
<1> DEFINE f == [type |-> "settings", sz |-> sz]
<1>1. /\ pendingSettings = {} /\ sz # initWindowSz /\ pendingSettings' = {sz}
      /\ toPeer' = Append(toPeer, f)
      /\ UNCHANGED <<fromPeer, peer, initWindowSz, connErr, streams, conn>>
  BY DEF WriteSettings, vars
<1>2. f \in FramesToPeer /\ f.type = "settings" /\ f.sz = sz /\ Weight(f, "connUpdate") = 0
  BY DEF FramesToPeer, Weight
<1> HIDE DEF f
<1>3. toPeer \in Seq(FramesToPeer)
      /\ Handshake(pendingSettings, initWindowSz, toPeer, fromPeer, peer)
  BY DEF PInv, Wires
<1>4. Handshake(pendingSettings', initWindowSz, Append(toPeer, f), fromPeer, peer)
  BY <1>1, <1>2, <1>3, HandshakeAfterWrite
<1>5. \A s \in Streams : Raises(f, s)
  BY <1>1, <1>2, RaisesNothing
<1>6. conn'.flow.window = conn.flow.window + Weight(f, "connUpdate")
  BY <1>1, <1>2, WindowTypes
<1> QED
  BY <1>1, <1>2, <1>4, <1>5, <1>6, WriteStep

LEMMA RequestHeadersKeepPInv ==
  ASSUME IInv, IInv', PInv, NEW s \in Streams, WriteRequestHeaders(s)
  PROVE  PInv'
<1> DEFINE f == Frame("headers", s, 0)
<1>1. /\ s \in Requests /\ peer.state[s] = "none"
      /\ \A i \in DOMAIN toPeer : toPeer[i].type = "headers" => toPeer[i].stream # s
      /\ toPeer' = Append(toPeer, f)
      /\ UNCHANGED <<fromPeer, peer, pendingSettings, initWindowSz, connErr, streams, conn>>
  BY DEF WriteRequestHeaders, vars
<1>2. f \in FramesToPeer /\ f.type = "headers" /\ f.stream = s /\ Weight(f, "connUpdate") = 0
  BY DEF FramesToPeer, Weight, Frame
<1> HIDE DEF f
<1>3. toPeer \in Seq(FramesToPeer) /\ DOMAIN toPeer = 1 .. Len(toPeer)
      /\ Handshake(pendingSettings, initWindowSz, toPeer, fromPeer, peer)
  BY DEF PInv, Wires
<1>4. Handshake(pendingSettings', initWindowSz, Append(toPeer, f), fromPeer, peer)
  BY <1>1, <1>2, <1>3, HandshakeAfterWrite
<1>5. \A t \in Streams : Raises(f, t)
  BY <1>1, <1>2, RaisesNothing
<1>6. conn'.flow.window = conn.flow.window + Weight(f, "connUpdate")
  BY <1>1, <1>2, WindowTypes
<1> QED
  BY <1>1, <1>2, <1>3, <1>4, <1>5, <1>6, WriteStep

LEMMA StreamUpdateKeepsPInv ==
  ASSUME IInv, IInv', PInv, NEW s \in Streams, WriteStreamWindowUpdate(s)
  PROVE  PInv'
<1> DEFINE r == streams[s]
           inc == StreamIncrement(r)
           f == Frame("streamUpdate", s, inc)
<1>1. /\ ~connErr
      /\ streams' = [streams EXCEPT ![s].pendingWU = FALSE,
                                    ![s].flow = IncWindow(@, inc)]
      /\ toPeer' = IF inc = 0 THEN toPeer ELSE Append(toPeer, f)
      /\ UNCHANGED <<fromPeer, pendingSettings, peer, initWindowSz, connErr, conn>>
  BY DEF WriteStreamWindowUpdate, SendStreamWindowUpdate
<1>2. /\ streams \in [Streams -> StreamRecord] /\ r \in StreamRecord /\ r.flow \in FlowControls
      /\ r.flow.window \in Int /\ r.flow.available \in Int /\ r.flow.available <= MaxWindow
      /\ connErr \in BOOLEAN /\ initWindowSz \in Int
  BY WindowTypes, MaxWindowAssumption DEF StreamRecord, FlowControls, Window, MinWindow
<1>3. /\ Elsewhere(s) /\ streams'[s].state = r.state
      /\ streams'[s].flow = IncWindow(r.flow, inc)
  BY <1>1, <1>2 DEF Elsewhere, StreamRecord
<1>4. inc \in Nat /\ (inc # 0 => r.state = "streaming" /\ inc = r.flow.available - r.flow.window)
  BY <1>2 DEF StreamIncrement, IsUnclaimed, Unclaimed
<1>5. streams'[s].flow.window = r.flow.window + inc
  <2>1. r.flow.window <= MaxWindow
    BY <1>2, MaxWindowAssumption DEF FlowControls, Window, MinWindow
  <2>2. CanIncWindow(r.flow, inc)
    BY <1>2, <1>4, <2>1 DEF CanIncWindow
  <2> QED
    BY <1>2, <1>3, <2>2 DEF IncWindow, FlowControls
<1>6. CASE inc = 0
  <2>1. Quiet(s)
    BY <1>2, <1>3, <1>5, <1>6 DEF Quiet
  <2>2. Charges(NoCharge)
    BY <1>1, <1>3, <2>1, QuietStream
  <2> QED
    BY <1>1, <1>6, <2>2, QuietStep DEF wires
<1>7. CASE inc # 0
  <2>1. /\ f \in FramesToPeer /\ f.type = "streamUpdate" /\ Weight(f, "connUpdate") = 0
        /\ \A t : StreamWeight(f, "streamUpdate", t) = IF t = s THEN inc ELSE 0
    BY <1>4 DEF FramesToPeer, Weight, StreamWeight, Frame
  <2> HIDE DEF f
  <2>2. toPeer \in Seq(FramesToPeer)
        /\ Handshake(pendingSettings, initWindowSz, toPeer, fromPeer, peer)
    BY DEF PInv, Wires
  <2>3. Handshake(pendingSettings', initWindowSz, Append(toPeer, f), fromPeer, peer)
    BY <1>1, <2>1, <2>2, HandshakeAfterWrite
  <2>4. r.flow.available <= initWindowSz
    <3>1. GoodStream(r, s, initWindowSz) /\ r.inFlight \in Nat
      BY <1>2, MaxWindowAssumption DEF IInv, GoodStreams, StreamRecord
    <3> QED
      BY <1>2, <1>4, <1>7, <3>1 DEF GoodStream, WindowBounded, Absent
  <2>5. ASSUME NEW t \in Streams
        PROVE  Raises(f, t)
    <3>1. CASE t = s
      <4>1. WindowOf(streams', initWindowSz, s) = r.flow.window + inc
            /\ WindowOf(streams, initWindowSz, s) = r.flow.window
            /\ Receiving(streams', connErr', s) = Receiving(streams, connErr, s)
            /\ Receiving(streams, connErr, s)
        BY <1>1, <1>3, <1>4, <1>5, <1>7 DEF WindowOf, Receiving
      <4>2. StreamWeight(f, "streamUpdate", s) = inc
        BY <2>1
      <4>3. r.flow.window + inc <= initWindowSz
        BY <1>2, <1>4, <1>7, <2>4
      <4> HIDE DEF inc, r
      <4> QED
        BY <3>1, <4>1, <4>2, <4>3 DEF Raises
    <3>2. CASE t # s
      <4>1. streams'[t] = streams[t]
        BY <1>3, <3>2 DEF Elsewhere
      <4>2. StreamWeight(f, "streamUpdate", t) = 0
        BY <2>1, <3>2
      <4>3. /\ WindowOf(streams', initWindowSz, t) = WindowOf(streams, initWindowSz, t)
            /\ Receiving(streams', connErr', t) = Receiving(streams, connErr, t)
        <5>1. connErr' = connErr
          BY <1>1
        <5> QED
          BY <4>1, <5>1 DEF WindowOf, Receiving
      <4>4. WindowOf(streams, initWindowSz, t) \in Int
        BY WindowTypes
      <4> QED
        BY <4>2, <4>3, <4>4 DEF Raises
    <3> QED
      BY <3>1, <3>2
  <2>6. conn'.flow.window = conn.flow.window + Weight(f, "connUpdate")
    BY <1>1, <2>1, WindowTypes
  <2>7. toPeer' = Append(toPeer, f)
    BY <1>1, <1>7 DEF f
  <2> QED
    BY <1>1, <2>1, <2>3, <2>5, <2>6, <2>7, WriteStep
<1> QED
  BY <1>6, <1>7

\* A step of the peer: nothing of this endpoint changes.
LEMMA PeerStep ==
  ASSUME IInv, PInv, UNCHANGED <<vars, pendingSettings>>,
         Wires(toPeer', fromPeer', peer'), PeerTypes(peer'),
         Handshake(pendingSettings, initWindowSz, toPeer', fromPeer', peer'),
         ConnAccount(conn, connErr, toPeer', fromPeer', peer'),
         \A s \in Streams :
           StreamAccount(s, WindowOf(streams, initWindowSz, s), Receiving(streams, connErr, s),
                         initWindowSz, toPeer', fromPeer', peer')
  PROVE  PInv'
BY DEF PInv, StreamAccounts, vars

\* The peer sends a frame other than the acknowledgement on stream s.
LEMMA PeerSendsFrame ==
  ASSUME IInv, PInv, UNCHANGED <<vars, pendingSettings, toPeer>>,
         NEW f \in FramesFromPeer, f.type # "ack", fromPeer' = Append(fromPeer, f),
         PeerTypes(peer'), peer'.init = peer.init,
         peer'.conn = peer.conn - Weight(f, "data"),
         \A i \in 1 .. Len(toPeer) :
           toPeer[i].type = "headers" => peer'.state[toPeer[i].stream] = "none",
         \A s \in Streams :
           StreamAccount(s, WindowOf(streams, initWindowSz, s), Receiving(streams, connErr, s),
                         initWindowSz, toPeer, Append(fromPeer, f), peer')
  PROVE  PInv'
<1>1. /\ toPeer \in Seq(FramesToPeer) /\ fromPeer \in Seq(FramesFromPeer) /\ PeerTypes(peer)
      /\ ConnAccount(conn, connErr, toPeer, fromPeer, peer)
      /\ Wires(toPeer, fromPeer, peer)
      /\ Handshake(pendingSettings, initWindowSz, toPeer, fromPeer, peer)
      /\ conn.flow.window \in Int /\ connErr \in BOOLEAN
  BY WindowTypes DEF PInv, Wires
<1>2. Wires(toPeer, Append(fromPeer, f), peer')
  BY <1>1, WiresAfterPeerSends
<1>3. Handshake(pendingSettings, initWindowSz, toPeer, Append(fromPeer, f), peer')
  BY <1>1, HandshakeAfterPeerSends
<1>4. ConnAccount(conn, connErr, toPeer, Append(fromPeer, f), peer')
  BY <1>1, ConnAfterPeerSends
<1>5. toPeer' = toPeer
  OBVIOUS
<1> QED
  BY <1>2, <1>3, <1>4, <1>5, PeerStep

LEMMA PeerRecord ==
  ASSUME NEW p, PeerTypes(p), NEW s \in Streams, NEW w \in Int,
         NEW st \in {"none", "open", "done"}
  PROVE  LET q == [p EXCEPT !.stream[s] = w, !.state[s] = st]
         IN  /\ PeerTypes(q) /\ q.init = p.init /\ q.conn = p.conn
             /\ \A t \in Streams : /\ q.stream[t] = IF t = s THEN w ELSE p.stream[t]
                                   /\ q.state[t] = IF t = s THEN st ELSE p.state[t]
<1> DEFINE r == [p EXCEPT !.stream[s] = w]
           q == [r EXCEPT !.state[s] = st]
<1>1. /\ PeerTypes(r) /\ r.init = p.init /\ r.conn = p.conn /\ r.state = p.state
      /\ r.stream = [p.stream EXCEPT ![s] = w] /\ p.stream \in [Streams -> Int]
  BY DEF PeerTypes
<1>2. q = [p EXCEPT !.stream[s] = w, !.state[s] = st]
  OBVIOUS
<1> HIDE DEF r
<1>3. /\ PeerTypes(q) /\ q.init = r.init /\ q.conn = r.conn /\ q.stream = r.stream
      /\ q.state = [r.state EXCEPT ![s] = st]
      /\ r.state \in [Streams -> {"none", "open", "done"}]
  BY <1>1 DEF PeerTypes
<1> HIDE DEF q
<1>4. \A t \in Streams : /\ q.stream[t] = IF t = s THEN w ELSE p.stream[t]
                         /\ q.state[t] = IF t = s THEN st ELSE p.state[t]
  BY <1>1, <1>3
<1> QED
  BY <1>1, <1>2, <1>3, <1>4

LEMMA OpenedPeer ==
  ASSUME NEW p, PeerTypes(p), NEW s \in Streams,
         NEW q, q = [p EXCEPT !.stream[s] = p.init, !.state[s] = "open"]
  PROVE  PeerTypes(q)
<1>1. p.init \in Int /\ "open" \in {"none", "open", "done"}
  BY MaxWindowAssumption DEF PeerTypes
<1> QED
  BY <1>1, PeerRecord

LEMMA PeerOpensKeepsPInv ==
  ASSUME IInv, PInv, NEW s \in Streams, PeerOpens(s)
  PROVE  PInv'
<1> DEFINE f == Frame("headers", s, 0)
<1>1. /\ s \notin Requests /\ peer.state[s] = "none"
      /\ peer' = [peer EXCEPT !.stream[s] = peer.init, !.state[s] = "open"]
      /\ fromPeer' = Append(fromPeer, f)
      /\ UNCHANGED <<vars, toPeer, pendingSettings>>
  BY DEF PeerOpens
<1>2. f \in FramesFromPeer /\ f.type = "headers"
  BY DEF FramesFromPeer, Frame
<1> HIDE DEF f
<1>3. /\ Weight(f, "data") = 0 /\ \A t : StreamWeight(f, "data", t) = 0
  BY <1>2 DEF Weight, StreamWeight
<1>4. PeerTypes(peer) /\ PeerTypes(peer')
  <2>1. PeerTypes(peer)
    BY DEF PInv
  <2>2. peer.init \in Int
    BY <2>1, MaxWindowAssumption DEF PeerTypes
  <2> QED
    BY <1>1, <2>1, <2>2, PeerRecord
<1>5. /\ peer'.init = peer.init /\ peer'.conn = peer.conn
      /\ \A t \in Streams : peer'.state[t] = IF t = s THEN "open" ELSE peer.state[t]
      /\ \A t \in Streams : peer'.stream[t] = IF t = s THEN peer.init ELSE peer.stream[t]
  BY <1>1, <1>4 DEF PeerTypes
<1>6. ASSUME NEW i \in 1 .. Len(toPeer), toPeer[i].type = "headers"
      PROVE  peer'.state[toPeer[i].stream] = "none"
  <2>1. toPeer[i].stream \in Requests /\ peer.state[toPeer[i].stream] = "none"
    BY <1>6 DEF PInv, Wires
  <2> QED
    BY <1>1, <1>5, <2>1, PeerAssumption
<1>7. ASSUME NEW t \in Streams
      PROVE  StreamAccount(t, WindowOf(streams, initWindowSz, t), Receiving(streams, connErr, t),
                           initWindowSz, toPeer, Append(fromPeer, f), peer')
  <2>1. StreamAccount(t, WindowOf(streams, initWindowSz, t), Receiving(streams, connErr, t),
                      initWindowSz, toPeer, fromPeer, peer')
    <3>1. CASE t = s
      <4>1. /\ peer'.state[t] # "none" /\ peer.state[t] = "none"
            /\ peer'.stream[t] = peer.init /\ peer'.init = peer.init
        BY <1>1, <1>5, <3>1
      <4> QED
        BY <4>1, AccountOf, OpenedAccount
    <3>2. CASE t # s
      <4>1. peer'.state[t] = peer.state[t] /\ peer'.stream[t] = peer.stream[t]
            /\ peer'.init = peer.init
        BY <1>5, <3>2
      <4>2. StreamAccount(t, WindowOf(streams, initWindowSz, t), Receiving(streams, connErr, t),
                      initWindowSz, toPeer, fromPeer, peer)
        BY AccountOf
      <4> QED
        BY <4>1, <4>2 DEF StreamAccount, Covered
    <3> QED
      BY <3>1, <3>2
  <2>2. /\ PeerOf(peer', t) /\ peer'.stream[t] \in Int
        /\ StreamWeight(f, "data", t) = 0
    BY <1>3, <1>4, PeerKnown DEF PeerOf
  <2>3. peer'.stream[t] = peer'.stream[t] - StreamWeight(f, "data", t)
    BY <2>2
  <2> QED
    BY <1>2, <2>1, <2>2, <2>3, AccountOf, SentAccount
<1>8. peer'.conn = peer.conn - Weight(f, "data")
  BY <1>3, <1>4, <1>5, PeerKnown DEF PeerTypes
<1> QED
  BY <1>1, <1>2, <1>4, <1>5, <1>6, <1>7, <1>8, PeerSendsFrame

LEMMA PeerSendsKeepsPInv ==
  ASSUME IInv, PInv, NEW s \in Streams, NEW sz \in 0 .. MaxFrame, NEW padding \in 0 .. sz,
         NEW eos \in BOOLEAN, PeerSends(s, sz - padding, padding, eos)
  PROVE  PInv'
<1> DEFINE f == DataFrame(s, sz - padding, padding, eos)
<1>0. sz \in Nat /\ padding \in Nat /\ (sz - padding) + padding = sz /\ sz - padding \in 0 .. MaxFrame
      /\ padding \in 0 .. MaxFrame
  BY RecvAssumption, MaxWindowAssumption
<1>1. /\ peer.state[s] = "open" /\ sz <= peer.conn /\ sz <= AsSize(peer.stream[s])
      /\ peer' = [peer EXCEPT !.conn = @ - sz, !.stream[s] = @ - sz,
                              !.state[s] = IF eos THEN "done" ELSE @]
      /\ fromPeer' = Append(fromPeer, f)
      /\ UNCHANGED <<vars, toPeer, pendingSettings>>
  BY <1>0 DEF PeerSends
<1>2. f \in FramesFromPeer /\ f.type = "data" /\ f.stream = s /\ f.sz = sz
  <2>1. f \in DataFrames /\ f.type = "data" /\ f.stream = s /\ f.sz = sz
    BY <1>0 DEF DataFrames, DataFrame
  <2> QED
    BY <2>1 DEF FramesFromPeer
<1> HIDE DEF f
<1>3. /\ Weight(f, "data") = sz
      /\ \A t : StreamWeight(f, "data", t) = IF t = s THEN sz ELSE 0
  BY <1>2 DEF Weight, StreamWeight
<1>4. /\ PeerTypes(peer)
      /\ peer.conn \in Int /\ \A t \in Streams : peer.stream[t] \in Int
  BY DEF PInv, PeerTypes
<1>5. /\ peer'.init = peer.init /\ peer'.conn = peer.conn - sz
      /\ \A t \in Streams :
           peer'.state[t] = IF t = s THEN IF eos THEN "done" ELSE "open" ELSE peer.state[t]
      /\ \A t \in Streams : peer'.stream[t] = IF t = s THEN peer.stream[t] - sz ELSE peer.stream[t]
  BY <1>1, <1>4 DEF PeerTypes
<1>6. PeerTypes(peer')
  <2> DEFINE r == [peer EXCEPT !.conn = @ - sz]
             w == peer.stream[s] - sz
             st == IF eos THEN "done" ELSE "open"
  <2>1. w \in Int /\ st \in {"none", "open", "done"} /\ peer.conn - sz \in Nat
    BY <1>0, <1>1, <1>4
  <2>2. PeerTypes(r)
    BY <1>4, <2>1 DEF PeerTypes
  <2>3. peer' = [r EXCEPT !.stream[s] = w, !.state[s] = st]
    BY <1>1, <1>4 DEF PeerTypes
  <2> HIDE DEF r, w, st
  <2> QED
    BY <2>1, <2>2, <2>3, PeerRecord
<1>7. ASSUME NEW i \in 1 .. Len(toPeer), toPeer[i].type = "headers"
      PROVE  peer'.state[toPeer[i].stream] = "none"
  <2>1. toPeer[i].stream \in Requests /\ peer.state[toPeer[i].stream] = "none"
    BY <1>7 DEF PInv, Wires
  <2>2. toPeer[i].stream # s /\ toPeer[i].stream \in Streams
    BY <1>1, <2>1, PeerAssumption
  <2> QED
    BY <1>5, <2>1, <2>2
<1>8. ASSUME NEW t \in Streams
      PROVE  StreamAccount(t, WindowOf(streams, initWindowSz, t), Receiving(streams, connErr, t),
                           initWindowSz, toPeer, Append(fromPeer, f), peer')
  <2>1. /\ peer'.stream[t] = peer.stream[t] - StreamWeight(f, "data", t)
        /\ peer'.init = peer.init
        /\ (peer'.state[t] = "none") <=> (peer.state[t] = "none")
    BY <1>1, <1>3, <1>4, <1>5
  <2>2. StreamWeight(f, "data", t) > 0 => peer.state[t] # "none" /\ peer'.stream[t] >= 0
    <3>1. CASE t = s /\ sz > 0
      <4>1. peer'.stream[s] = peer.stream[s] - sz /\ peer.stream[s] \in Int
        BY <1>4, <1>5
      <4>2. peer'.stream[s] >= 0
        BY <1>0, <1>1, <3>1, <4>1 DEF AsSize
      <4> QED
        BY <1>1, <3>1, <4>2
    <3>2. CASE ~(t = s /\ sz > 0)
      BY <1>0, <1>3, <3>2
    <3> QED
      BY <3>1, <3>2
  <2>3. f.type # "ack"
    BY <1>2
  <2> QED
    BY <1>2, <2>1, <2>2, <2>3, AccountOf, SentAccount
<1>9. f.type # "ack" /\ peer'.conn = peer.conn - Weight(f, "data")
  BY <1>2, <1>3, <1>5
<1> QED
  BY <1>1, <1>2, <1>5, <1>6, <1>7, <1>8, <1>9, PeerSendsFrame

LEMMA PeerResetsKeepsPInv ==
  ASSUME IInv, PInv, NEW s \in Streams, PeerResets(s)
  PROVE  PInv'
<1> DEFINE f == Frame("reset", s, 0)
<1>1. /\ peer.state[s] = "open"
      /\ peer' = [peer EXCEPT !.state[s] = "done"]
      /\ fromPeer' = Append(fromPeer, f)
      /\ UNCHANGED <<vars, toPeer, pendingSettings>>
  BY DEF PeerResets
<1>2. f \in FramesFromPeer /\ f.type = "reset"
  BY DEF FramesFromPeer, Frame
<1> HIDE DEF f
<1>3. /\ Weight(f, "data") = 0 /\ \A t : StreamWeight(f, "data", t) = 0
  BY <1>2 DEF Weight, StreamWeight
<1>4. PeerTypes(peer) /\ PeerTypes(peer')
  <2>1. PeerTypes(peer)
    BY DEF PInv
  <2> QED
    BY <1>1, <2>1, MaxWindowAssumption DEF PeerTypes
<1>5. /\ peer'.init = peer.init /\ peer'.conn = peer.conn /\ peer'.stream = peer.stream
      /\ \A t \in Streams : peer'.state[t] = IF t = s THEN "done" ELSE peer.state[t]
  BY <1>1, <1>4 DEF PeerTypes
<1>6. ASSUME NEW i \in 1 .. Len(toPeer), toPeer[i].type = "headers"
      PROVE  peer'.state[toPeer[i].stream] = "none"
  <2>1. toPeer[i].stream \in Requests /\ peer.state[toPeer[i].stream] = "none"
    BY <1>6 DEF PInv, Wires
  <2>2. toPeer[i].stream # s /\ toPeer[i].stream \in Streams
    BY <1>1, <2>1, PeerAssumption
  <2> QED
    BY <1>5, <2>1, <2>2
<1>7. ASSUME NEW t \in Streams
      PROVE  StreamAccount(t, WindowOf(streams, initWindowSz, t), Receiving(streams, connErr, t),
                           initWindowSz, toPeer, Append(fromPeer, f), peer')
  <2>1. /\ peer'.stream[t] = peer.stream[t] - StreamWeight(f, "data", t)
        /\ peer'.init = peer.init /\ StreamWeight(f, "data", t) = 0
        /\ (peer'.state[t] = "none") <=> (peer.state[t] = "none")
    BY <1>1, <1>3, <1>4, <1>5, PeerKnown DEF PeerOf
  <2>2. f.type # "ack"
    BY <1>2
  <2> QED
    BY <1>2, <2>1, <2>2, AccountOf, SentAccount
<1>8. f.type # "ack" /\ peer'.conn = peer.conn - Weight(f, "data")
  BY <1>2, <1>3, <1>4, <1>5 DEF PeerTypes
<1> QED
  BY <1>1, <1>2, <1>4, <1>5, <1>6, <1>7, <1>8, PeerSendsFrame

\* What PInv says of the wires, once and for all.
LEMMA WiresOf ==
  ASSUME IInv, PInv
  PROVE  /\ toPeer \in Seq(FramesToPeer) /\ fromPeer \in Seq(FramesFromPeer) /\ PeerTypes(peer)
         /\ ConnAccount(conn, connErr, toPeer, fromPeer, peer)
         /\ Wires(toPeer, fromPeer, peer)
         /\ Handshake(pendingSettings, initWindowSz, toPeer, fromPeer, peer)
         /\ conn.flow.window \in Int /\ connErr \in BOOLEAN
BY WindowTypes DEF PInv, Wires

\* The peer reads a frame that it does not answer: a WINDOW_UPDATE.
LEMMA PeerReadsUpdate ==
  ASSUME IInv, PInv, UNCHANGED <<vars, pendingSettings, fromPeer>>, toPeer # <<>>,
         toPeer' = Tail(toPeer), PeerTypes(peer'),
         Head(toPeer).type \in {"connUpdate", "streamUpdate"},
         peer'.init = peer.init, peer'.state = peer.state,
         peer'.conn = peer.conn + Weight(Head(toPeer), "connUpdate"),
         \A t \in Streams :
           peer'.stream[t] = peer.stream[t] + StreamWeight(Head(toPeer), "streamUpdate", t)
  PROVE  PInv'
<1>1. Wires(Tail(toPeer), fromPeer, peer')
  BY WiresOf, WiresAfterPeerReads
<1>2. Handshake(pendingSettings, initWindowSz, Tail(toPeer), fromPeer, peer')
  <2>1. Head(toPeer).type # "settings"
    OBVIOUS
  <2> QED
    BY <2>1, WiresOf, HandshakeAfterPeerReads
<1>3. ConnAccount(conn, connErr, Tail(toPeer), fromPeer, peer')
  BY WiresOf, ConnAfterPeerReads
<1>4. ASSUME NEW t \in Streams
      PROVE  StreamAccount(t, WindowOf(streams, initWindowSz, t), Receiving(streams, connErr, t),
                           initWindowSz, Tail(toPeer), fromPeer, peer')
  <2>1. peer'.state[t] = peer.state[t]
    OBVIOUS
  <2> QED
    BY <2>1, AccountOf, CreditedAccount
<1>5. fromPeer' = fromPeer
  OBVIOUS
<1> QED
  BY <1>1, <1>2, <1>3, <1>4, <1>5, PeerStep

LEMMA ConnUpdateIsRead ==
  ASSUME IInv, PInv, UNCHANGED <<vars, pendingSettings, fromPeer>>, toPeer # <<>>,
         toPeer' = Tail(toPeer), Head(toPeer).type = "connUpdate",
         peer' = [peer EXCEPT !.conn = @ + Head(toPeer).sz]
  PROVE  PInv'
<1> DEFINE f == Head(toPeer)
<1>1. f \in FramesToPeer /\ f.sz \in Nat /\ PeerTypes(peer)
  BY WiresOf, TailOfWire, KindsToPeer
<1>2. /\ Weight(f, "connUpdate") = f.sz
      /\ \A t : StreamWeight(f, "streamUpdate", t) = 0
  BY DEF Weight, StreamWeight
<1> HIDE DEF f
<1>3. /\ peer'.conn = peer.conn + f.sz /\ peer'.init = peer.init
      /\ peer'.state = peer.state /\ peer'.stream = peer.stream
      /\ peer.conn \in Nat /\ \A t \in Streams : peer.stream[t] \in Int
  BY <1>1 DEF PeerTypes, f
<1>4. PeerTypes(peer')
  <2>1. peer.conn + f.sz \in Nat
    BY <1>1, <1>3
  <2> QED
    BY <1>1, <2>1 DEF PeerTypes, f
<1>5. \A t \in Streams : peer'.stream[t] = peer.stream[t] + StreamWeight(f, "streamUpdate", t)
  BY <1>2, <1>3
<1> QED
  BY <1>2, <1>3, <1>4, <1>5, PeerReadsUpdate DEF f

LEMMA StreamUpdateIsRead ==
  ASSUME IInv, PInv, UNCHANGED <<vars, pendingSettings, fromPeer>>, toPeer # <<>>,
         toPeer' = Tail(toPeer), Head(toPeer).type = "streamUpdate",
         peer' = [peer EXCEPT !.stream[Head(toPeer).stream] = @ + Head(toPeer).sz]
  PROVE  PInv'
<1> DEFINE f == Head(toPeer)
           s == f.stream
<1>1. f \in FramesToPeer /\ f.sz \in Nat /\ s \in Streams /\ PeerTypes(peer)
  BY WiresOf, TailOfWire, KindsToPeer
<1>2. /\ Weight(f, "connUpdate") = 0
      /\ \A t : StreamWeight(f, "streamUpdate", t) = IF t = s THEN f.sz ELSE 0
  BY DEF Weight, StreamWeight
<1> HIDE DEF f
<1>3. /\ peer'.conn = peer.conn /\ peer'.init = peer.init /\ peer'.state = peer.state
      /\ peer'.stream = [peer.stream EXCEPT ![s] = peer.stream[s] + f.sz]
      /\ peer.conn \in Nat /\ peer.stream \in [Streams -> Int]
  BY <1>1 DEF PeerTypes, f
<1>4. PeerTypes(peer')
  <2>1. peer.stream[s] + f.sz \in Int
    BY <1>1, <1>3
  <2> QED
    BY <1>1, <2>1 DEF PeerTypes, f
<1>5. \A t \in Streams : peer'.stream[t] = peer.stream[t] + StreamWeight(f, "streamUpdate", t)
  BY <1>1, <1>2, <1>3
<1>6. peer'.conn = peer.conn + Weight(f, "connUpdate")
  BY <1>2, <1>3
<1> QED
  BY <1>3, <1>4, <1>5, <1>6, PeerReadsUpdate DEF f

LEMMA AnsweredAccount ==
  ASSUME NEW s, NEW w \in Int, NEW rec \in BOOLEAN, NEW init \in Int,
         NEW tp \in Seq(FramesToPeer), tp # <<>>, Head(tp).type = "headers",
         NEW fp \in Seq(FramesFromPeer), NEW g \in FramesFromPeer, g.type = "headers",
         NEW p, PeerOf(p, s), NEW p2, PeerOf(p2, s),
         StreamAccount(s, w, rec, init, tp, fp, p), p2.init = p.init,
         \/ p.state[s] = "none" /\ p2.state[s] # "none" /\ p2.stream[s] = p.init
         \/ p2.state[s] = p.state[s] /\ p2.stream[s] = p.stream[s]
  PROVE  StreamAccount(s, w, rec, init, Tail(tp), Append(fp, g), p2)
<1>1. StreamAccount(s, w, rec, init, tp, fp, p2)
  <2>1. CASE p.state[s] = "none" /\ p2.state[s] # "none" /\ p2.stream[s] = p.init
    BY <2>1, OpenedAccount
  <2>2. CASE p2.state[s] = p.state[s] /\ p2.stream[s] = p.stream[s]
    BY <2>2 DEF StreamAccount, Covered
  <2> QED
    BY <2>1, <2>2
<1>2. StreamAccount(s, w, rec, init, Tail(tp), fp, p2)
  <2>1. StreamWeight(Head(tp), "streamUpdate", s) = 0
    BY DEF StreamWeight
  <2>2. p2.stream[s] = p2.stream[s] + StreamWeight(Head(tp), "streamUpdate", s)
    BY <2>1 DEF PeerOf
  <2> QED
    BY <1>1, <2>2, CreditedAccount
<1>3. StreamWeight(g, "data", s) = 0 /\ g.type # "ack"
  BY DEF StreamWeight
<1>4. p2.stream[s] = p2.stream[s] - StreamWeight(g, "data", s)
  BY <1>3 DEF PeerOf
<1>5. Tail(tp) \in Seq(FramesToPeer)
  BY TailOfWire
<1>6. StreamWeight(g, "data", s) > 0 => p2.state[s] # "none" /\ p2.stream[s] >= 0
  BY <1>3
<1> QED
  BY <1>2, <1>3, <1>4, <1>5, <1>6, SentAccount

\* HEADERS of a request: the peer opens the stream and answers.
LEMMA RequestIsRead ==
  ASSUME IInv, PInv, UNCHANGED <<vars, pendingSettings>>, toPeer # <<>>,
         toPeer' = Tail(toPeer), Head(toPeer).type = "headers",
         peer' = [peer EXCEPT !.stream[Head(toPeer).stream] = peer.init,
                              !.state[Head(toPeer).stream] = "open"],
         fromPeer' = Append(fromPeer, Frame("headers", Head(toPeer).stream, 0))
  PROVE  PInv'
<1> DEFINE f == Head(toPeer)
           s == f.stream
           g == Frame("headers", s, 0)
<1>1. f \in FramesToPeer /\ f = toPeer[1] /\ 1 \in 1 .. Len(toPeer) /\ PeerTypes(peer)
  BY WiresOf, TailOfWire
<1>2. f.sz \in Nat /\ s \in Streams /\ peer.state[s] = "none"
  BY <1>1, WiresOf, KindsToPeer DEF Wires
<1>3. g \in FramesFromPeer /\ g.type = "headers"
  BY <1>2 DEF FramesFromPeer, Frame
<1>4. /\ Weight(f, "connUpdate") = 0
      /\ \A t : StreamWeight(f, "streamUpdate", t) = 0
  BY DEF Weight, StreamWeight
<1>0. peer' = [peer EXCEPT !.stream[s] = peer.init, !.state[s] = "open"]
  OBVIOUS
<1> HIDE DEF f, g, s
<1>5. /\ Weight(g, "data") = 0
      /\ \A t : StreamWeight(g, "data", t) = 0
  BY <1>3 DEF Weight, StreamWeight
<1>6. peer.init \in Int /\ peer.conn \in Int
  BY <1>1, MaxWindowAssumption DEF PeerTypes
<1>7. /\ PeerTypes(peer') /\ peer'.init = peer.init /\ peer'.conn = peer.conn
      /\ \A t \in Streams : /\ peer'.stream[t] = IF t = s THEN peer.init ELSE peer.stream[t]
                            /\ peer'.state[t] = IF t = s THEN "open" ELSE peer.state[t]
  <2>1. peer' = [peer EXCEPT !.stream[s] = peer.init, !.state[s] = "open"]
    BY <1>0
  <2>2. PeerTypes(peer')
    BY <1>1, <1>2, <2>1, OpenedPeer
  <2>3. /\ peer'.init = peer.init /\ peer'.conn = peer.conn
        /\ \A t \in Streams : /\ peer'.stream[t] = IF t = s THEN peer.init ELSE peer.stream[t]
                              /\ peer'.state[t] = IF t = s THEN "open" ELSE peer.state[t]
    BY <1>1, <1>2, <2>1, ZenonT(60) DEF PeerTypes
  <2> QED
    BY <2>2, <2>3
<1>8. Wires(Tail(toPeer), Append(fromPeer, g), peer')
  <2>1. \A t \in Streams :
           peer'.state[t] = peer.state[t] \/ (Head(toPeer).type = "headers" /\ Head(toPeer).stream = t)
    BY <1>7 DEF f, s
  <2>2. Wires(Tail(toPeer), fromPeer, peer')
    BY <2>1, WiresOf, WiresAfterPeerReads
  <2>3. \A i \in 1 .. Len(Tail(toPeer)) :
          Tail(toPeer)[i].type = "headers" => peer'.state[Tail(toPeer)[i].stream] = "none"
    BY <2>2 DEF Wires
  <2> QED
    BY <1>3, <2>2, <2>3, WiresAfterPeerSends
<1>9. Handshake(pendingSettings, initWindowSz, Tail(toPeer), Append(fromPeer, g), peer')
  <2>1. Head(toPeer).type # "settings"
    OBVIOUS
  <2>2. Handshake(pendingSettings, initWindowSz, Tail(toPeer), fromPeer, peer')
    BY <1>7, <2>1, WiresOf, HandshakeAfterPeerReads
  <2>3. fromPeer \in Seq(FramesFromPeer) /\ g.type # "ack"
    BY <1>3, WiresOf
  <2> QED
    BY <1>3, <2>2, <2>3, HandshakeAfterPeerSends
<1>10. ConnAccount(conn, connErr, Tail(toPeer), Append(fromPeer, g), peer')
  <2>1. peer'.conn = peer.conn + Weight(Head(toPeer), "connUpdate")
    BY <1>4, <1>6, <1>7 DEF f
  <2>2. ConnAccount(conn, connErr, Tail(toPeer), fromPeer, peer')
    BY <2>1, WiresOf, ConnAfterPeerReads
  <2>3. peer'.conn = peer'.conn - Weight(g, "data")
    BY <1>5, <1>6, <1>7
  <2>4. Tail(toPeer) \in Seq(FramesToPeer) /\ fromPeer \in Seq(FramesFromPeer)
        /\ conn.flow.window \in Int /\ connErr \in BOOLEAN
    BY WiresOf, TailOfWire
  <2>5. PeerTypes(peer')
    BY <1>7
  <2> QED
    BY <1>3, <2>2, <2>3, <2>4, <2>5, ConnAfterPeerSends
<1>11. ASSUME NEW t \in Streams
       PROVE  StreamAccount(t, WindowOf(streams, initWindowSz, t), Receiving(streams, connErr, t),
                            initWindowSz, Tail(toPeer), Append(fromPeer, g), peer')
  <2>1. PeerOf(peer', t)
    BY <1>7, PeerKnown
  <2>2. \/ peer.state[t] = "none" /\ peer'.state[t] # "none" /\ peer'.stream[t] = peer.init
        \/ peer'.state[t] = peer.state[t] /\ peer'.stream[t] = peer.stream[t]
    BY <1>2, <1>7
  <2> QED
    BY <1>3, <1>7, <2>1, <2>2, AccountOf, AnsweredAccount
<1>12. toPeer' = Tail(toPeer) /\ fromPeer' = Append(fromPeer, g)
  BY DEF g, f, s
<1> QED
  BY <1>7, <1>8, <1>9, <1>10, <1>11, <1>12, PeerStep

\* New settings: every window of the peer's account is shifted.
LEMMA ShiftedPeer ==
  ASSUME NEW p, PeerTypes(p), NEW sz \in 0 .. MaxWindow,
         NEW shifted, shifted = [s \in Streams |-> IF p.state[s] = "none" THEN 0
                                                  ELSE p.stream[s] + sz - p.init],
         NEW q, q = [p EXCEPT !.init = sz, !.stream = shifted]
  PROVE  PeerTypes(q)
<1>1. /\ p.init \in Int /\ sz \in Int /\ \A t \in Streams : p.stream[t] \in Int
  BY MaxWindowAssumption DEF PeerTypes
<1>2. shifted \in [Streams -> Int]
  BY <1>1
<1> QED
  BY <1>2 DEF PeerTypes

LEMMA SettingsAreRead ==
  ASSUME IInv, PInv, UNCHANGED <<vars, pendingSettings>>, toPeer # <<>>,
         toPeer' = Tail(toPeer), Head(toPeer).type = "settings",
         PeerTypes(peer'), peer'.init = Head(toPeer).sz, peer'.conn = peer.conn,
         peer'.state = peer.state,
         \A t \in Streams : peer'.stream[t] = IF peer.state[t] = "none" THEN 0
                                              ELSE peer.stream[t] + peer'.init - peer.init,
         NEW g \in FramesFromPeer, g = [type |-> "ack"], fromPeer' = Append(fromPeer, g)
  PROVE  PInv'
<1> DEFINE f == Head(toPeer)
<1>2. g.type = "ack"
  OBVIOUS
<1>3. /\ Weight(f, "connUpdate") = 0
      /\ \A t : StreamWeight(f, "streamUpdate", t) = 0
      /\ Weight(g, "data") = 0
  BY DEF Weight, StreamWeight
<1> HIDE DEF f
<1>5. peer.init \in Int /\ peer.conn \in Int /\ peer'.init \in Int
  BY WiresOf, MaxWindowAssumption DEF PeerTypes
<1>9. Wires(Tail(toPeer), Append(fromPeer, g), peer')
  <2>1. Wires(Tail(toPeer), fromPeer, peer')
    BY WiresOf, WiresAfterPeerReads
  <2>2. \A i \in 1 .. Len(Tail(toPeer)) :
          Tail(toPeer)[i].type = "headers" => peer'.state[Tail(toPeer)[i].stream] = "none"
    BY <2>1 DEF Wires
  <2> QED
    BY <2>1, <2>2, WiresAfterPeerSends
<1>10. /\ ~Acked(fromPeer) /\ peer.init = initWindowSz
       /\ Handshake(pendingSettings, initWindowSz, Tail(toPeer), Append(fromPeer, g), peer')
  <2>1. /\ toPeer \in Seq(FramesToPeer) /\ fromPeer \in Seq(FramesFromPeer)
        /\ Handshake(pendingSettings, initWindowSz, toPeer, fromPeer, peer)
    BY WiresOf
  <2> QED
    BY <2>1, HandshakeAfterPeerReads
<1>11. ConnAccount(conn, connErr, Tail(toPeer), Append(fromPeer, g), peer')
  <2>1. peer'.conn = peer.conn + Weight(Head(toPeer), "connUpdate")
    BY <1>3, <1>5 DEF f
  <2>2. ConnAccount(conn, connErr, Tail(toPeer), fromPeer, peer')
    BY <2>1, WiresOf, ConnAfterPeerReads
  <2>3. peer'.conn = peer'.conn - Weight(g, "data")
    BY <1>3, <1>5
  <2>4. Tail(toPeer) \in Seq(FramesToPeer) /\ fromPeer \in Seq(FramesFromPeer)
        /\ conn.flow.window \in Int /\ connErr \in BOOLEAN
    BY WiresOf, TailOfWire
  <2> QED
    BY <2>2, <2>3, <2>4, ConnAfterPeerSends
<1>12. ASSUME NEW t \in Streams
       PROVE  StreamAccount(t, WindowOf(streams, initWindowSz, t), Receiving(streams, connErr, t),
                            initWindowSz, Tail(toPeer), Append(fromPeer, g), peer')
  <2>1. PeerOf(peer', t)
    BY PeerKnown
  <2>2. /\ peer'.stream[t] = IF peer.state[t] = "none" THEN 0
                             ELSE peer.stream[t] + peer'.init - peer.init
        /\ peer'.state[t] = peer.state[t]
    OBVIOUS
  <2>3. StreamAccount(t, WindowOf(streams, initWindowSz, t), Receiving(streams, connErr, t),
                      initWindowSz, toPeer, Append(fromPeer, g), peer')
    BY <1>2, <1>5, <1>10, <2>2, AccountOf, ShiftedAccount
  <2>4. peer'.stream[t] = peer'.stream[t] + StreamWeight(Head(toPeer), "streamUpdate", t)
    BY <1>3, <2>1 DEF PeerOf, f
  <2>5. Append(fromPeer, g) \in Seq(FramesFromPeer)
    BY WiresOf, AppendedWire
  <2> QED
    BY <2>1, <2>3, <2>4, <2>5, AccountOf, CreditedAccount
<1> QED
  BY <1>9, <1>10, <1>11, <1>12, PeerStep

LEMMA PeerReadsKeepsPInv ==
  ASSUME IInv, PInv, PeerReads
  PROVE  PInv'
<1> DEFINE f == Head(toPeer)
<1>1. toPeer # <<>> /\ toPeer' = Tail(toPeer) /\ UNCHANGED <<vars, pendingSettings>>
  BY DEF PeerReads
<1>2. CASE f.type = "connUpdate" /\ peer' = [peer EXCEPT !.conn = @ + f.sz] /\ UNCHANGED fromPeer
  BY <1>1, <1>2, ConnUpdateIsRead
<1>3. CASE /\ f.type = "streamUpdate"
           /\ peer' = [peer EXCEPT !.stream[f.stream] = @ + f.sz] /\ UNCHANGED fromPeer
  BY <1>1, <1>3, StreamUpdateIsRead
<1>4. CASE /\ f.type = "headers"
           /\ peer' = [peer EXCEPT !.stream[f.stream] = peer.init, !.state[f.stream] = "open"]
           /\ fromPeer' = Append(fromPeer, Frame("headers", f.stream, 0))
  BY <1>1, <1>4, RequestIsRead
<1>5. CASE /\ f.type = "settings"
           /\ peer' = [peer EXCEPT !.init = f.sz,
                         !.stream = [s \in Streams |->
                            IF peer.state[s] = "none" THEN 0
                            ELSE @[s] + f.sz - peer.init]]
           /\ fromPeer' = Append(fromPeer, [type |-> "ack"])
  <2> DEFINE g == [type |-> "ack"]
  <2>1. g \in FramesFromPeer /\ fromPeer' = Append(fromPeer, g)
    BY <1>5 DEF FramesFromPeer
  <2>2. PeerTypes(peer) /\ f.sz \in 0 .. MaxWindow
    <3>1. f \in FramesToPeer /\ PeerTypes(peer)
      BY <1>1, WiresOf, TailOfWire
    <3> QED
      BY <1>5, <3>1, KindsToPeer, RecvAssumption
  <2>3. /\ PeerTypes(peer') /\ peer'.init = f.sz /\ peer'.conn = peer.conn
        /\ peer'.state = peer.state
        /\ \A t \in Streams : peer'.stream[t] = IF peer.state[t] = "none" THEN 0
                                                 ELSE peer.stream[t] + f.sz - peer.init
    <3> DEFINE shifted == [s \in Streams |-> IF peer.state[s] = "none" THEN 0
                                             ELSE peer.stream[s] + f.sz - peer.init]
    <3>1. peer' = [peer EXCEPT !.init = f.sz, !.stream = shifted]
      BY <1>5
    <3>2. shifted = [s \in Streams |-> IF peer.state[s] = "none" THEN 0
                                      ELSE peer.stream[s] + f.sz - peer.init]
      OBVIOUS
    <3> HIDE DEF f, shifted
    <3>3. PeerTypes(peer')
      BY <2>2, <3>1, <3>2, ShiftedPeer
    <3>4. peer'.init = f.sz /\ peer'.conn = peer.conn /\ peer'.state = peer.state
          /\ peer'.stream = shifted
      BY <2>2, <3>1 DEF PeerTypes
    <3>5. \A t \in Streams : peer'.stream[t] = IF peer.state[t] = "none" THEN 0
                                              ELSE peer.stream[t] + f.sz - peer.init
      BY <3>2, <3>4
    <3> QED
      BY <3>3, <3>4, <3>5
  <2> HIDE DEF g
  <2>4. \A t \in Streams : peer'.stream[t] = IF peer.state[t] = "none" THEN 0
                                              ELSE peer.stream[t] + peer'.init - peer.init
    BY <2>3
  <2> QED
    BY <1>1, <1>5, <2>1, <2>3, <2>4, SettingsAreRead DEF g
<1> QED
  BY <1>2, <1>3, <1>4, <1>5 DEF PeerReads

\* The two accounts stay in step.
LEMMA PeerNextPInv == IInv /\ PInv /\ [PeerNext]_allVars => (IInv /\ PInv)'
<1> SUFFICES ASSUME IInv, PInv, [PeerNext]_allVars PROVE IInv' /\ PInv'
  OBVIOUS
<1>1. IInv'
  BY StepOfRecvFlow, NextIInv
<1>2. ASSUME NEW s \in Streams, Local(s) PROVE PInv'
  BY <1>1, <1>2, LocalCharges, QuietStep DEF Local
<1>3. ASSUME NEW s \in Streams, Request(s) PROVE PInv'
  BY <1>1, <1>3, OpenStreamCharges, QuietStep DEF Request
<1>4. ASSUME NEW s \in Streams, WriteRequestHeaders(s) \/ WriteStreamWindowUpdate(s)
      PROVE  PInv'
  BY <1>1, <1>4, RequestHeadersKeepPInv, StreamUpdateKeepsPInv
<1>5. ASSUME NEW s \in Streams, PeerOpens(s) \/ PeerResets(s) PROVE PInv'
  BY <1>5, PeerOpensKeepsPInv, PeerResetsKeepsPInv
<1>6. ASSUME NEW s \in Streams, NEW sz \in 0 .. MaxFrame, NEW eos \in BOOLEAN,
             NEW padding \in 0 .. sz, PeerSends(s, sz - padding, padding, eos)
      PROVE  PInv'
  BY <1>6, PeerSendsKeepsPInv
<1>7. ASSUME NEW sz \in InitWindows, WriteSettings(sz) PROVE PInv'
  BY <1>1, <1>7, SettingsKeepPInv
<1>8. CASE Retarget
  BY <1>1, <1>8, RetargetCharges, QuietStep DEF Retarget
<1>9. CASE WriteConnectionWindowUpdate \/ Read \/ PeerReads
  BY <1>1, <1>9, ConnectionUpdateKeepsPInv, ReadKeepsPInv, PeerReadsKeepsPInv
<1>10. CASE UNCHANGED allVars
  <2>1. UNCHANGED <<vars, pendingSettings, toPeer, fromPeer, peer>>
    BY <1>10 DEF allVars, wires
  <2>2. /\ conn' = conn /\ initWindowSz' = initWindowSz /\ streams' = streams
        /\ connErr' = connErr /\ pendingSettings' = pendingSettings
        /\ toPeer' = toPeer /\ fromPeer' = fromPeer /\ peer' = peer
    BY <2>1 DEF vars
  <2>3. PInv'
    BY <2>2 DEF PInv, StreamAccounts
  <2> QED
    BY <1>1, <2>3
<1> QED
  BY <1>1, <1>2, <1>3, <1>4, <1>5, <1>6, <1>7, <1>8, <1>9, <1>10 DEF PeerNext

----------------------------------------------------------------------------
(* The properties.                                                         *)

\* What both sides know of every window agrees, up to what is under way,
\* in every state that this endpoint and a peer that keeps to the rules reach.
THEOREM AccountsAgree == PeerSpec => [](IInv /\ PInv)
<1>1. PeerInit => IInv /\ PInv
  BY InitPInv
<1>2. IInv /\ PInv /\ [PeerNext]_allVars => (IInv /\ PInv)'
  BY PeerNextPInv
<1> QED
  BY <1>1, <1>2, PTL DEF PeerSpec

\* "Window the peer knows about": the window that recv_data checks DATA
\* against is the peer's own account plus what is under way to either side.
THEOREM ConnectionWindowsAlwaysAgree == PeerSpec => []ConnectionWindowsAgree
<1>1. IInv /\ PInv => ConnectionWindowsAgree
  <2> SUFFICES ASSUME PInv PROVE ConnectionWindowsAgree
    OBVIOUS
  <2>1. ConnAccount(conn, connErr, toPeer, fromPeer, peer)
    BY DEF PInv
  <2> QED
    BY <2>1 DEF ConnAccount, ConnectionWindowsAgree
<1> QED
  BY <1>1, AccountsAgree, PTL

\* No WINDOW_UPDATE that send_connection_window_update or
\* send_stream_window_updates writes lifts a window of the peer above 2^31-1.
THEOREM PeerWindowsAlwaysFit == PeerSpec => []PeerWindowsFit
<1>1. IInv /\ PInv => PeerWindowsFit
  <2> SUFFICES ASSUME IInv, PInv PROVE PeerWindowsFit
    OBVIOUS
  <2>1. peer.conn + Octets(fromPeer, "data") + Octets(toPeer, "connUpdate") <= conn.flow.window
        /\ conn.flow.window <= MaxWindow /\ conn.flow.window \in Int
    BY WindowTypes DEF PInv, ConnAccount
  <2>2. /\ Octets(fromPeer, "data") \in Nat /\ Octets(toPeer, "connUpdate") \in Nat
        /\ peer.conn \in Int
    <3>1. /\ fromPeer \in Seq(Frames) /\ toPeer \in Seq(Frames)
          /\ 0 \in 0 .. Len(fromPeer) /\ 0 \in 0 .. Len(toPeer)
      BY WiresOf, WiresAreOfFrames
    <3> QED
      BY <3>1, OctetsType, WiresOf DEF PeerTypes
  <2>3. peer.conn + Octets(toPeer, "connUpdate") <= MaxWindow
    BY <2>1, <2>2, MaxWindowAssumption
  <2>4. ASSUME NEW s \in Streams
        PROVE  peer.stream[s] <= MaxWindow
    <3>1. StreamAccount(s, WindowOf(streams, initWindowSz, s), Receiving(streams, connErr, s),
                        initWindowSz, toPeer, fromPeer, peer)
          /\ Updates(toPeer, s) \in Nat
      BY AccountOf, UpdatesType
    <3>2. peer.stream[s] \in Int /\ peer.init \in 0 .. MaxWindow
      BY WiresOf, PeerKnown DEF PeerOf
    <3> QED
      BY <3>1, <3>2, MaxWindowAssumption DEF StreamAccount
  <2> QED
    BY <2>3, <2>4 DEF PeerWindowsFit
<1> QED
  BY <1>1, AccountsAgree, PTL

\* recv_data accuses no peer that respects the windows it was told: neither
\* check of the flow-control windows fails on the DATA it reads next.
THEOREM PeerNeverAccused == PeerSpec => []NeverAccused
<1>1. IInv /\ PInv => NeverAccused
  <2> SUFFICES ASSUME IInv, PInv, fromPeer # <<>>, Head(fromPeer).type = "data", ~connErr
               PROVE  /\ WindowSize(conn.flow) >= Head(fromPeer).sz
                      /\ streams[Head(fromPeer).stream].state = "streaming" =>
                           WindowSize(streams[Head(fromPeer).stream].flow) >= Head(fromPeer).sz
    BY DEF NeverAccused
  <2> DEFINE f == Head(fromPeer)
             s == f.stream
             n == Len(fromPeer)
  <2>1. /\ f \in FramesFromPeer /\ f = fromPeer[1] /\ n \in Nat /\ 1 \in 1 .. n /\ n \in 0 .. n
        /\ fromPeer \in Seq(FramesFromPeer) /\ fromPeer \in Seq(Frames) /\ toPeer \in Seq(Frames)
        /\ toPeer \in Seq(FramesToPeer)
    BY WiresOf, TailOfWire, WiresAreOfFrames
  <2>2. f.sz \in Nat /\ s \in Streams /\ Weight(f, "data") = f.sz /\ StreamWeight(f, "data", s) = f.sz
    <3>1. f \in DataFrames
      BY <2>1, KindsFromPeer
    <3> QED
      BY <3>1, DataWeighs
  <2>3. WindowSize(conn.flow) >= f.sz
    <3>1. /\ Octets(fromPeer, "data") \in Nat /\ Octets(toPeer, "connUpdate") \in Nat
          /\ Weight(f, "data") <= Octets(fromPeer, "data")
      <4>1. 0 \in 0 .. Len(fromPeer) /\ 0 \in 0 .. Len(toPeer)
        BY <2>1
      <4> QED
        BY <2>1, <4>1, OctetsType
    <3>2. peer.conn + Octets(fromPeer, "data") + Octets(toPeer, "connUpdate") <= conn.flow.window
          /\ conn.flow.window \in Int
      BY WindowTypes DEF PInv, ConnAccount
    <3>3. peer.conn \in Int /\ peer.conn >= 0
      BY WiresOf DEF PeerTypes
    <3>4. conn.flow.window >= f.sz
      <4> HIDE DEF f
      <4> QED
        BY <2>2, <3>1, <3>2, <3>3
    <3> QED
      BY <2>2, <3>2, <3>4 DEF WindowSize, AsSize
  <2>4. ASSUME streams[s].state = "streaming"
        PROVE  WindowSize(streams[s].flow) >= f.sz
    <3> DEFINE w == streams[s].flow.window
    <3>1. Covered(s, w, initWindowSz, toPeer, fromPeer, peer)
          /\ StreamAccount(s, w, TRUE, initWindowSz, toPeer, fromPeer, peer)
      <4>1. WindowOf(streams, initWindowSz, s) = w /\ Receiving(streams, connErr, s) = TRUE
        BY <2>4 DEF WindowOf, Receiving
      <4> QED
        BY <2>2, <4>1, AccountOf DEF StreamAccount
    <3>2. w \in Int
      BY <2>2, WindowTypes
    <3> HIDE DEF w
    <3>3. ASSUME NEW a \in 1 .. n
          PROVE  Data(fromPeer, s, a) \in Nat /\ f.sz <= Data(fromPeer, s, a)
      <4>1. a \in 0 .. n /\ 1 \in 1 .. a
        BY <2>1
      <4>2. /\ Total(StreamOctets(fromPeer, "data", s), a) \in Nat
            /\ \A i \in 1 .. a : StreamWeight(fromPeer[i], "data", s)
                                   <= Total(StreamOctets(fromPeer, "data", s), a)
        BY <2>1, <4>1, OctetsType
      <4> QED
        BY <2>1, <2>2, <4>1, <4>2 DEF Data
    <3>4. CASE Acked(fromPeer)
      <4>1. PICK a \in 1 .. n : fromPeer[a].type = "ack"
        BY <3>4 DEF Acked
      <4>2. Data(fromPeer, s, a) <= AsSize(w)
        BY <3>1, <4>1 DEF Covered
      <4>3. Data(fromPeer, s, a) \in Nat /\ f.sz <= Data(fromPeer, s, a)
        BY <3>3
      <4> HIDE DEF f, s
      <4> QED
        BY <2>2, <3>2, <4>2, <4>3 DEF WindowSize, AsSize, w
    <3>5. CASE ~Acked(fromPeer) /\ f.sz > 0
      <4>1. Data(fromPeer, s, n) \in Nat /\ f.sz <= Data(fromPeer, s, n)
        BY <2>1, <3>3
      <4>2. Data(fromPeer, s, n) > 0
        BY <2>2, <3>5, <4>1
      <4>3. peer.stream[s] >= 0
        BY <3>1, <3>5, <4>2 DEF Covered
      <4>4. peer.state[s] # "none"
        BY <3>1, <4>2 DEF StreamAccount
      <4>5. peer.init = initWindowSz
        BY <3>5 DEF PInv, Handshake
      <4>6. peer.stream[s] + Data(fromPeer, s, n) + Updates(toPeer, s) <= w + peer.init - initWindowSz
        BY <3>1, <4>4 DEF Covered
      <4>7. Updates(toPeer, s) \in Nat /\ peer.stream[s] \in Int /\ initWindowSz \in Int
        BY <2>1, <2>2, UpdatesType, AccountOf DEF PeerOf
      <4>8. f.sz <= w
        <5> HIDE DEF f, s, n
        <5> QED
          BY <2>2, <3>2, <4>1, <4>3, <4>5, <4>6, <4>7
      <4> QED
        BY <2>2, <3>2, <4>8 DEF WindowSize, AsSize, w
    <3>6. CASE f.sz = 0
      BY <3>2, <3>6 DEF WindowSize, AsSize, w
    <3> QED
      BY <2>2, <3>4, <3>5, <3>6
  <2> QED
    BY <2>3, <2>4
<1> QED
  BY <1>1, AccountsAgree, PTL

\* Composed with such a peer this endpoint does what RecvFlow says and no
\* more, so that every theorem about Spec holds of PeerSpec too.
THEOREM PeerImplementsRecvFlow == PeerSpec => Spec
<1>1. PeerInit => Init
  BY DEF PeerInit
<1>2. IInv /\ PInv /\ [PeerNext]_allVars => [Next]_vars
  BY StepOfRecvFlow
<1> QED
  BY <1>1, <1>2, AccountsAgree, PTL DEF PeerSpec, Spec

=============================================================================
