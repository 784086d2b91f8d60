------------------------------ MODULE RecvFlow ------------------------------
(***************************************************************************)
(* Receive-side flow control: proto/streams/recv.rs with the parts of      *)
(* streams.rs that call it.                                                *)
(*                                                                         *)
(* DATA is charged to the connection's window and to the stream's, is kept *)
(* "in flight" until somebody gives the capacity back, and the capacity    *)
(* given back is advertised to the peer in WINDOW_UPDATE frames.  Giving   *)
(* back is what is hard: it happens when the user releases, when a handle  *)
(* is dropped, when the data is refused, ignored or of no interest, and    *)
(* any octet that is given back twice or never unbalances the connection   *)
(* for all of its streams.                                                 *)
(*                                                                         *)
(* Every action is one critical section on Inner's mutex, so handles on    *)
(* other threads and the connection task interleave between actions only.  *)
(* The state of state.rs is reduced to what the receive path tells apart;  *)
(* what the sending half of a stream does shows as nondeterministic        *)
(* closing, and a stream leaves the store at an arbitrary moment once      *)
(* nothing refers to it.                                                   *)
(***************************************************************************)
EXTENDS FlowControl, FiniteSets

CONSTANTS
  Streams,        \* stream identifiers
  Promised,       \* those the peer opens with PUSH_PROMISE (client role)
  DefaultWindow,  \* DEFAULT_INITIAL_WINDOW_SIZE, of the connection
  InitWindows,    \* values SETTINGS_INITIAL_WINDOW_SIZE may take
  Targets,        \* arguments of set_target_window_size
  MaxFrame,       \* the longest DATA frame the codec lets through
  MaxBuffered     \* bound of the model: octets a user leaves unread

ASSUME RecvAssumption ==
  /\ IsFiniteSet(Streams)
  /\ Promised \subseteq Streams
  /\ DefaultWindow \in 0 .. MaxWindow
  /\ InitWindows \subseteq 0 .. MaxWindow
  /\ DefaultWindow \in InitWindows
  /\ Targets \subseteq 0 .. MaxWindow
  /\ MaxFrame \in 0 .. MaxWindow
  /\ MaxBuffered \in Nat

VARIABLES
  conn,          \* Recv::flow and Recv::in_flight_data
  initWindowSz,  \* Recv::init_window_sz
  streams,       \* what the store keeps for each stream
  connErr,       \* a connection error was raised; no frame is read any more
  target,        \* history: the connection's target window
  orphaned       \* history: in-flight octets of streams removed from the store

vars == <<conn, initWindowSz, streams, connErr, target, orphaned>>

\* "idle": not in the store yet.  "awaiting": created, no HEADERS received
\* (is_recv_headers).  "streaming": is_recv_streaming.  "ended": END_STREAM
\* received, the sending half still open.  "closed": closed by END_STREAM both
\* ways.  "remoteReset", and "localReset" (is_local_error, which a scheduled
\* reset satisfies).  "forgotten": removed from the store, the id used up.
StreamState ==
  {"idle", "awaiting", "streaming", "ended", "closed", "remoteReset",
   "localReset", "forgotten"}

OpenState == {"awaiting", "streaming", "ended"}

\* In the store, hence reached by Store::try_for_each.
Stored == {s \in Streams : streams[s].state \notin {"idle", "forgotten"}}

\* "waiting": no handle yet, queued for accept or poll_pushed.  "held": the
\* user has one.  "dropped": ref_count went back to zero.
Handle == {"waiting", "held", "dropped"}

\* pendingWU is is_pending_window_update; buffered counts the payload octets
\* in pending_recv, the chunks they arrived in being immaterial.
StreamRecord ==
  [state : StreamState, handle : Handle, isRecv : BOOLEAN, pendingWU : BOOLEAN,
   flow : FlowControls, inFlight : 0 .. MaxWindow, buffered : 0 .. MaxBuffered]

\* Stream::new
NewStream(state, handle, initRecvWindow) ==
  [state |-> state, handle |-> handle, isRecv |-> TRUE, pendingWU |-> FALSE,
   flow |-> NewFlow(initRecvWindow), inFlight |-> 0, buffered |-> 0]

Init ==
  /\ conn = [flow |-> NewFlow(DefaultWindow), inFlight |-> 0]
  /\ initWindowSz = DefaultWindow
  /\ streams = [s \in Streams |-> NewStream("idle", "waiting", 0)]
  /\ connErr = FALSE
  /\ target = DefaultWindow
  /\ orphaned = 0

----------------------------------------------------------------------------
(* The two halves of the connection's account.  Operators whose comment    *)
(* begins with "Mutation" are not part of the model: each is a plausible   *)
(* slip in the operator that follows, kept to show which property sees it. *)

\* Mutation: the octets are charged to the peer's window only.
ConsumeWindowOnly(c, sz) ==
  [flow |-> [c.flow EXCEPT !.window = @ - sz], inFlight |-> c.inFlight + sz]

\* Mutation: the octets are charged to the capacity only.
ConsumeCapacityOnly(c, sz) ==
  [flow |-> [c.flow EXCEPT !.available = @ - sz], inFlight |-> c.inFlight + sz]

\* consume_connection_window, once the window is known to suffice
Consume(c, sz) == [flow |-> SendData(c.flow, sz), inFlight |-> c.inFlight + sz]

\* Mutation: what is no longer in flight is not made available again.
ReleaseWithoutAssign(c, sz) == [c EXCEPT !.inFlight = @ - sz]

\* release_connection_capacity; the result of assign_capacity is ignored
Release(c, sz) ==
  [flow |-> AssignCapacity(c.flow, sz), inFlight |-> c.inFlight - sz]

\* Recv::handle_error on every stream of the store
HandleError(strs) ==
  [s \in Streams |->
     IF strs[s].state \in OpenState THEN [strs[s] EXCEPT !.state = "localReset"]
                                    ELSE strs[s]]

\* A GOAWAY is due and the connection stops reading frames.
FailConnection(strs) == connErr' = TRUE /\ streams' = HandleError(strs)

\* Counts::record_data_frame, which may find that small non-final DATA frames
\* exceed their budget; the budget itself is not modelled here.
RecordDataFrame(strs, eos) ==
  \/ streams' = strs /\ UNCHANGED connErr
  \/ ~eos /\ FailConnection(strs)

----------------------------------------------------------------------------
(* DATA.  Each action is one way through Inner::recv_data.                 *)

\* The connection window does not cover the frame.
RecvDataOverConnWindow(s, sz) ==
  /\ ~connErr
  /\ streams[s].state \in {"streaming", "localReset", "forgotten"}
  /\ WindowSize(conn.flow) < sz
  /\ FailConnection(streams)
  /\ UNCHANGED <<conn, initWindowSz, target, orphaned>>

\* No DATA is expected on this stream, or the stream never existed.
RecvDataUnexpected(s) ==
  /\ ~connErr
  /\ streams[s].state \in {"idle", "awaiting", "ended", "closed", "remoteReset"}
  /\ FailConnection(streams)
  /\ UNCHANGED <<conn, initWindowSz, target, orphaned>>

\* We reset the stream and the peer may not know yet.
RecvDataIgnored(s, sz) ==
  /\ ~connErr
  /\ streams[s].state = "localReset"
  /\ WindowSize(conn.flow) >= sz
  /\ conn' = Release(Consume(conn, sz), sz)
  /\ RecordDataFrame(streams, FALSE)
  /\ UNCHANGED <<initWindowSz, target, orphaned>>

\* The stream was removed from the store: the frame is ignored and the
\* connection answers with RST_STREAM, which puts an entry with two empty
\* windows back (Inner::send_reset), unless too many resets were sent.
RecvDataForgotten(s, sz) ==
  /\ ~connErr
  /\ streams[s].state = "forgotten"
  /\ WindowSize(conn.flow) >= sz
  /\ conn' = Release(Consume(conn, sz), sz)
  /\ LET reset == [streams EXCEPT ![s] = NewStream("localReset", "dropped", 0)]
     IN  \/ streams' = reset /\ UNCHANGED connErr
         \/ FailConnection(streams)
  /\ UNCHANGED <<initWindowSz, target, orphaned>>

\* A stream above the id named in our GOAWAY: only the connection counts it.
RecvDataBeyondGoAway(sz) ==
  /\ ~connErr
  /\ WindowSize(conn.flow) >= sz
  /\ conn' = Release(Consume(conn, sz), sz)
  /\ UNCHANGED <<initWindowSz, streams, connErr, target, orphaned>>

\* The frame overruns the stream's window or contradicts content-length: a
\* stream error, answered with RST_STREAM (reset_on_recv_stream_err), or with
\* GOAWAY when too many were sent.  The user never sees the data.
RecvDataStreamError(s, sz) ==
  /\ ~connErr
  /\ streams[s].state = "streaming"
  /\ WindowSize(conn.flow) >= sz
  /\ conn' = Release(Consume(conn, sz), sz)
  /\ \/ /\ streams' = [streams EXCEPT ![s].state = "localReset"]
        /\ UNCHANGED connErr
     \/ FailConnection(streams)
  /\ UNCHANGED <<initWindowSz, target, orphaned>>

\* recv_close: HalfClosedRemote, or Closed when our half was closed before.
AfterData(eos) == IF eos THEN {"ended", "closed"} ELSE {"streaming"}

\* The body's handle is gone (is_recv is false), other handles remain.
RecvDataUncared(s, sz, eos) ==
  /\ ~connErr
  /\ streams[s].state = "streaming" /\ ~streams[s].isRecv
  /\ WindowSize(conn.flow) >= sz
  /\ WindowSize(streams[s].flow) >= sz
  /\ conn' = Release(Consume(conn, sz), sz)
  /\ \E st \in AfterData(eos) :
       RecordDataFrame([streams EXCEPT ![s].state = st], eos)
  /\ UNCHANGED <<initWindowSz, target, orphaned>>

\* Mutation: the stream still counts the octets as in flight.
ReleaseStreamKeepsInFlight(stream, sz) ==
  LET flow == AssignCapacity(stream.flow, sz)
  IN  [stream EXCEPT !.flow = flow, !.pendingWU = @ \/ IsUnclaimed(flow)]

\* Mutation: nobody queues the stream for a WINDOW_UPDATE.
ReleaseStreamUnqueued(stream, sz) ==
  [stream EXCEPT !.inFlight = @ - sz, !.flow = AssignCapacity(@, sz)]

\* Recv::release_capacity on the stream's side
ReleaseStream(stream, sz) ==
  LET flow == AssignCapacity(stream.flow, sz)
  IN  [stream EXCEPT !.inFlight = @ - sz,
                     !.flow = flow,
                     !.pendingWU = @ \/ IsUnclaimed(flow)]

\* Of sz octets, charged to the stream's window, payload join pending_recv.
Take(stream, sz, payload) ==
  [stream EXCEPT !.flow = SendData(@, sz), !.inFlight = @ + sz,
                 !.buffered = @ + payload]

\* Data for the user.  Padding counts for flow control and is released here.
\* A user may release before reading, so only MaxBuffered bounds the buffer.
RecvDataAccepted(s, payload, padding, eos) ==
  LET sz    == payload + padding
      taken == Take(streams[s], sz, payload)
      kept  == IF padding > 0 THEN ReleaseStream(taken, padding) ELSE taken
  IN  /\ ~connErr
      /\ streams[s].state = "streaming" /\ streams[s].isRecv
      /\ WindowSize(conn.flow) >= sz
      /\ WindowSize(streams[s].flow) >= sz
      /\ streams[s].buffered + payload <= MaxBuffered
      /\ conn' = Release(Consume(conn, sz), padding)
      /\ \E st \in AfterData(eos) :
           RecordDataFrame([streams EXCEPT ![s] = [kept EXCEPT !.state = st]], eos)
      /\ UNCHANGED <<initWindowSz, target, orphaned>>

----------------------------------------------------------------------------
(* The life of a stream, as far as the receive path sees it.               *)

\* A stream enters the store.  The client's own requests have a handle and
\* wait for HEADERS; a server's incoming stream starts with its HEADERS and
\* without a handle; so does a promised stream, reserved before its HEADERS.
OpenStream(s) ==
  /\ ~connErr
  /\ streams[s].state = "idle"
  /\ \E st \in {"awaiting", "streaming"} :
     \E h \in {"waiting", "held"} :
       /\ s \in Promised => st = "awaiting" /\ h = "waiting"
       /\ s \notin Promised => (st = "awaiting") = (h = "held")
       /\ streams' = [streams EXCEPT ![s] = NewStream(st, h, initWindowSz)]
  /\ UNCHANGED <<conn, initWindowSz, connErr, target, orphaned>>

\* HEADERS of the response, perhaps all there is.
RecvHeaders(s) ==
  /\ ~connErr
  /\ streams[s].state = "awaiting"
  /\ \E st \in {"streaming", "ended", "closed"} :
       streams' = [streams EXCEPT ![s].state = st]
  /\ UNCHANGED <<conn, initWindowSz, connErr, target, orphaned>>

\* next_incoming or poll_pushed gives out the first handle.
Accept(s) ==
  /\ s \in Stored
  /\ streams[s].handle = "waiting"
  /\ streams' = [streams EXCEPT ![s].handle = "held"]
  /\ UNCHANGED <<conn, initWindowSz, connErr, target, orphaned>>

\* The sending half ends after the receiving one.
SendSideCloses(s) ==
  /\ streams[s].state = "ended"
  /\ streams' = [streams EXCEPT ![s].state = "closed"]
  /\ UNCHANGED <<conn, initWindowSz, connErr, target, orphaned>>

\* The user resets the stream.  A stream that is closed but not reset is
\* marked as reset too ("no matter what").
SendReset(s) ==
  /\ streams[s].handle = "held"
  /\ streams[s].state \in OpenState \cup {"closed"}
  /\ streams' = [streams EXCEPT ![s].state = "localReset"]
  /\ UNCHANGED <<conn, initWindowSz, connErr, target, orphaned>>

\* RST_STREAM from the peer.  It overwrites a closed state while frames wait
\* in the send queue, and is without effect otherwise.  Too many resets of
\* streams nobody accepted end the connection.
RecvReset(s) ==
  /\ ~connErr
  /\ \/ /\ s \in Stored
        /\ streams' = [streams EXCEPT ![s].state = "remoteReset"]
        /\ UNCHANGED connErr
     \/ /\ \/ streams[s].state = "idle"
           \/ s \in Stored \ Promised /\ streams[s].handle = "waiting"
        /\ FailConnection(streams)
  /\ UNCHANGED <<conn, initWindowSz, target, orphaned>>

\* transition_after removes a stream that is closed and that nothing refers
\* to.  It can come back only as an entry for a late RST_STREAM.
RemoveFromStore(s) ==
  /\ streams[s].state \in {"closed", "remoteReset", "localReset"}
  /\ streams[s].handle = "dropped"
  /\ ~streams[s].pendingWU
  /\ streams' = [streams EXCEPT ![s] = NewStream("forgotten", "dropped", 0)]
  /\ orphaned' = orphaned + streams[s].inFlight
  /\ UNCHANGED <<conn, initWindowSz, connErr, target>>

----------------------------------------------------------------------------
(* The user gives capacity back.                                           *)

\* poll_data hands out buffered chunks; it releases nothing.
PollData(s, n) ==
  /\ streams[s].handle = "held" /\ streams[s].isRecv
  /\ n \in 1 .. streams[s].buffered
  /\ streams' = [streams EXCEPT ![s].buffered = @ - n]
  /\ UNCHANGED <<conn, initWindowSz, connErr, target, orphaned>>

\* More than is in flight is refused with ReleaseCapacityTooBig.
ReleaseCapacity(s, sz) ==
  /\ streams[s].handle = "held"
  /\ sz \in 1 .. streams[s].inFlight
  /\ conn' = Release(conn, sz)
  /\ streams' = [streams EXCEPT ![s] = ReleaseStream(@, sz)]
  /\ UNCHANGED <<initWindowSz, connErr, target, orphaned>>

\* Mutation: everything unread is released, also what the user has released.
UnreadIgnoringReleased(stream) == stream.buffered

\* What clear_recv_buffer releases: a user may have released octets ahead of
\* reading them.
Unread(stream) == Lesser(stream.buffered, stream.inFlight)

\* RecvStream is dropped: what is still buffered is discarded and released.
\* Other handles may stay, and the stream's own window is not given back.
DropRecvStream(s) ==
  LET toRelease == Unread(streams[s])
  IN  /\ streams[s].handle = "held" /\ streams[s].isRecv
      /\ conn' = Release(conn, toRelease)
      /\ streams' = [streams EXCEPT ![s].isRecv = FALSE,
                                    ![s].buffered = 0,
                                    ![s].inFlight = @ - toRelease]
      /\ UNCHANGED <<initWindowSz, connErr, target, orphaned>>

\* Mutation: a stream without a handle stays open.
MaybeCancelNever(stream) == stream

\* maybe_cancel: a stream without a handle is reset unless it closed before.
MaybeCancel(stream) ==
  IF stream.state \in OpenState THEN [stream EXCEPT !.state = "localReset"]
                                ELSE stream

\* The last handle goes: drop_stream_ref, with release_closed_capacity.
DropStreamRef(s) ==
  /\ streams[s].handle = "held"
  /\ conn' = Release(conn, streams[s].inFlight)
  /\ streams' = [streams EXCEPT ![s] =
                   [MaybeCancel(@) EXCEPT !.handle = "dropped",
                                          !.inFlight = 0,
                                          !.buffered = 0]]
  /\ UNCHANGED <<initWindowSz, connErr, target, orphaned>>

\* The last handle of the promised stream's parent goes: drop_stream_ref
\* cancels every promise that was never polled.
CancelPromise(s) ==
  /\ s \in Promised /\ s \in Stored
  /\ streams[s].handle = "waiting"
  /\ streams' = [streams EXCEPT ![s] =
                   [MaybeCancel(@) EXCEPT !.handle = "dropped"]]
  /\ UNCHANGED <<conn, initWindowSz, connErr, target, orphaned>>

----------------------------------------------------------------------------
(* Settings, targets and WINDOW_UPDATE frames.                             *)

\* The peer acknowledged our SETTINGS.  The failures of dec_recv_window and
\* inc_window are not modelled: TypeOK shows the windows stay in range.
ApplyLocalSettings(sz) ==
  /\ ~connErr
  /\ sz # initWindowSz
  /\ initWindowSz' = sz
  /\ streams' = [s \in Streams |->
       IF s \in Stored
         THEN [streams[s] EXCEPT !.flow = DecRecvWindow(@, initWindowSz - sz)]
         ELSE streams[s]]
  /\ UNCHANGED <<conn, connErr, target, orphaned>>

\* Mutation: octets in flight are not counted towards the current target.
CurrentTargetForgetsInFlight(c) == c.flow.available

\* The target as set_target_connection_window works it out.
CurrentTarget(c) == c.flow.available + c.inFlight

SetTargetConnectionWindow(sz) ==
  LET current == CurrentTarget(conn)
  IN  /\ conn' = [conn EXCEPT !.flow =
                    IF sz > current THEN AssignCapacity(@, sz - current)
                                    ELSE ClaimCapacity(@, current - sz)]
      /\ target' = sz
      /\ UNCHANGED <<initWindowSz, streams, connErr, orphaned>>

SendConnectionWindowUpdate ==
  /\ ~connErr
  /\ IsUnclaimed(conn.flow)
  /\ conn' = [conn EXCEPT !.flow = IncWindow(@, Unclaimed(@))]
  /\ UNCHANGED <<initWindowSz, streams, connErr, target, orphaned>>

\* The increment of the frame sent for s, zero when none is.
StreamIncrement(stream) ==
  IF stream.state = "streaming" /\ IsUnclaimed(stream.flow)
    THEN Unclaimed(stream.flow) ELSE 0

\* One turn of the loop of send_stream_window_updates.
SendStreamWindowUpdate(s) ==
  /\ ~connErr
  /\ streams[s].pendingWU
  /\ streams' = [streams EXCEPT ![s].pendingWU = FALSE,
                                ![s].flow = IncWindow(@, StreamIncrement(streams[s]))]
  /\ UNCHANGED <<conn, initWindowSz, connErr, target, orphaned>>

----------------------------------------------------------------------------
RecvData(s) ==
  \/ RecvDataUnexpected(s)
  \/ \E sz \in 0 .. MaxFrame :
       \/ RecvDataOverConnWindow(s, sz)
       \/ RecvDataIgnored(s, sz)
       \/ RecvDataForgotten(s, sz)
       \/ RecvDataStreamError(s, sz)
       \/ \E eos \in BOOLEAN :
            \/ RecvDataUncared(s, sz, eos)
            \/ \E padding \in 0 .. sz : RecvDataAccepted(s, sz - padding, padding, eos)

Connection(s) ==
  \/ RecvData(s) \/ OpenStream(s) \/ RecvHeaders(s) \/ RecvReset(s)
  \/ SendSideCloses(s) \/ RemoveFromStore(s) \/ SendStreamWindowUpdate(s)

User(s) ==
  \/ Accept(s) \/ SendReset(s) \/ DropRecvStream(s) \/ DropStreamRef(s)
  \/ CancelPromise(s)
  \/ \E n \in 1 .. streams[s].buffered : PollData(s, n)
  \/ \E sz \in 1 .. streams[s].inFlight : ReleaseCapacity(s, sz)

Next ==
  \/ \E s \in Streams : Connection(s) \/ User(s)
  \/ \E sz \in 0 .. MaxFrame : RecvDataBeyondGoAway(sz)
  \/ \E sz \in InitWindows : ApplyLocalSettings(sz)
  \/ \E sz \in Targets : SetTargetConnectionWindow(sz)
  \/ SendConnectionWindowUpdate

Spec == Init /\ [][Next]_vars

----------------------------------------------------------------------------
(* Properties.                                                             *)

\* Type invariant.  That the windows stay within i32 says that none of the
\* checked additions and subtractions whose failure the code ignores, or
\* answers with GOAWAY, ever fails, whatever the peer and the user do.
TypeOK ==
  /\ conn \in [flow : FlowControls, inFlight : 0 .. MaxWindow]
  /\ initWindowSz \in 0 .. MaxWindow
  /\ streams \in [Streams -> StreamRecord]
  /\ connErr \in BOOLEAN
  /\ target \in 0 .. MaxWindow
  /\ orphaned \in 0 .. MaxWindow

\* set_target_connection_window takes "available plus in flight" for the
\* current target.  It is: no path through recv_data, release or drop leaves
\* octets that are neither available nor in flight, or counts them twice.
LedgerBalanced == conn.flow.available + conn.inFlight = target

\* One token per octet in flight on each stream.
InFlightOctets ==
  {o \in Streams \X (1 .. MaxWindow) : o[2] <= streams[o[1]].inFlight}

\* Recv::in_flight_data, the connection's total, is what the streams hold
\* one by one, plus what removed streams took along.
InFlightAttributed == conn.inFlight = Cardinality(InFlightOctets) + orphaned

\* A stream without handles holds nothing in flight, and DATA that arrives
\* late for it adds nothing, until it leaves the store and after.  Promised
\* streams are the exception, see NothingOrphaned.
DroppedHoldsNothing ==
  \A s \in Streams \ Promised :
    streams[s].handle = "dropped" => streams[s].inFlight = 0

\* A stream that leaves the store leaves nothing in flight behind: "Release
\* any recv window back to connection, no one can access it anymore".  TLC
\* refutes it for promised streams that were never polled.
NothingOrphaned == ~connErr => orphaned = 0

\* What the peer may still send, together with what is in flight, fits a
\* window: lowering the target never lets the peer overrun it later.
ConnExposureBounded ==
  /\ conn.flow.window >= 0
  /\ conn.flow.window + conn.inFlight <= MaxWindow

\* Per stream: the peer is never told of more room than there is, the room
\* never exceeds the initial window less what is in flight, and the window
\* is behind the initial one by at most what one window can carry, which is
\* why lowering the setting cannot overflow it "from the bottom".
StreamWindowBounded ==
  \A s \in Stored :
    LET stream == streams[s]
    IN  /\ stream.flow.window <= stream.flow.available
        /\ stream.flow.available + stream.inFlight <= initWindowSz
        /\ stream.flow.window >= initWindowSz - MaxWindow

\* A connection WINDOW_UPDATE advertises exactly what is free under the
\* current target, so none is sent while as much is in flight as the target
\* allows, even right after the target was lowered.
AdvertisesOnlyFree ==
  [][conn.flow.window' > conn.flow.window =>
       conn.flow.window' = target - conn.inFlight]_vars

\* Abstract specification: however DATA, releases, resets, dropped handles and
\* changes of the target interleave, what the peer sees of the connection's
\* window is the account of module Ledger.
Account == INSTANCE Ledger
             WITH Opening <- DefaultWindow, advertised <- conn.flow.window,
                  held <- conn.inFlight, limit <- target

KeepsLedger == Account!Spec

============================================================================
