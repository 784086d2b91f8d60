------------------------------ MODULE SendFlow ------------------------------
(***************************************************************************)
(* The sending half: proto/streams/prioritize.rs and send.rs, with the     *)
(* parts of streams.rs, counts.rs, stream.rs, store.rs and recv.rs that    *)
(* decide what is queued, when it is written and when a stream ends.       *)
(*                                                                         *)
(* Every stream has a queue of frames and a share of the connection's      *)
(* window that is assigned to it before it may write DATA.  Shares move:   *)
(* they are asked for (requested), given (flow.available), and given back  *)
(* when a user asks for less, when a window shrinks and when a stream is   *)
(* reset or fails, and what one stream gives back goes to the streams      *)
(* that wait in pending_capacity.  Streams wait in up to four queues at a  *)
(* time, and leave the store only once they are in none.                   *)
(*                                                                         *)
(* The variable "inner" is what the mutex of streams.rs protects, so each  *)
(* action is one critical section: a call on a user's handle, a frame      *)
(* that was read, or one turn of the writing loop.  The operators on it    *)
(* are named after the functions they model and take and return its value. *)
(***************************************************************************)
EXTENDS FlowControl, StreamState, FiniteSets, Sequences, SequencesExt, Sums, Loops

CONSTANTS
  NStreams,              \* bound of the model: streams 1, 2, ... are opened
  Peers,                 \* the roles to check: "client", "server"
  DefaultWindow,         \* the connection's initial window
  InitWindows,           \* values SETTINGS_INITIAL_WINDOW_SIZE may take
  Increments,            \* increments of the peer's WINDOW_UPDATE frames
  Sizes,                 \* lengths of the chunks a user sends
  Reservations,          \* arguments of reserve_capacity
  Limits,                \* values SETTINGS_MAX_CONCURRENT_STREAMS may take
  LastStreams,           \* last_stream_id of the peer's GOAWAY frames
  MaxFrame,              \* the longest DATA frame the peer accepts
  ChainThreshold,        \* DATA from this length on is written by the codec later
  MaxResets,             \* max_concurrent_reset_streams (local_reset_max)
  MaxQueue,              \* bound of the model: frames in one stream's queue
  MaxBuffered,           \* bound of the model: octets in one stream's queue
  Ends,                  \* how the connection may end: GOAWAY read, error, EOF
  InformationalAnytime   \* whether users send 1xx heads after the response

ASSUME SendAssumption ==
  /\ NStreams \in Nat \ {0}
  /\ Peers \subseteq {"client", "server"}
  /\ DefaultWindow \in 0 .. MaxWindow
  /\ InitWindows \subseteq 0 .. MaxWindow
  /\ DefaultWindow \in InitWindows
  /\ Increments \subseteq 1 .. MaxWindow
  /\ Sizes \subseteq 0 .. MaxWindow
  /\ Reservations \subseteq 0 .. MaxWindow
  /\ Limits \subseteq Nat
  /\ LastStreams \subseteq 0 .. NStreams
  /\ MaxFrame \in 1 .. MaxWindow
  /\ ChainThreshold \in Nat \ {0}
  /\ MaxResets \in Nat /\ MaxQueue \in Nat /\ MaxBuffered \in Nat
  /\ Ends \subseteq {"goAway", "error", "eof", "drop"}
  /\ InformationalAnytime \in BOOLEAN

VARIABLES
  inner,  \* streams.rs: Inner, with Store, Counts, Send and Prioritize
  codec,  \* the DATA frame the codec is still writing
  phase,  \* conn_error and the connection's own state
  wire    \* history: what the frames written so far mean to the peer

vars == <<inner, codec, phase, wire>>

Streams == 1 .. NStreams

\* A frame in pending_send.  "informational" is a 1xx head.
Frame(kind, sz, eos) == [kind |-> kind, sz |-> sz, eos |-> eos]
Kinds == {"headers", "informational", "data", "trailers", "reset"}
Frames == {frame \in [kind : Kinds, sz : 0 .. MaxWindow, eos : BOOLEAN] :
             frame.kind # "data" => frame.sz = 0}

\* InFlightData: the stream whose DATA frame the codec holds, or
Nothing == 0
Drop == -1

NoFrame == [stream |-> Nothing, rest |-> 0, eos |-> FALSE]

\* "new": not created yet.  "linked": frames and Store::for_each find it.
\* "unlinked": only keys do, those in queues and in handles.  "removed".
Place == {"new", "linked", "unlinked", "removed"}

\* "waiting": pending_accept, no handle yet.  "held".  "dropped".
Handle == {"waiting", "held", "dropped"}

\* requested is requested_send_capacity, buffered is buffered_send_data.
\* Membership of pending_send, pending_capacity, pending_open and
\* pending_reset_expired is read off the queues.
\* TypeOK says how far the numbers go.
Flow == [window : Int, available : Int]

StreamRecord ==
  [place : Place, state : States, handle : Handle, flow : Flow,
   requested : Int, buffered : Int, queue : Seq(Frames), counted : BOOLEAN]

\* streams.rs: Inner.  inFlight is Prioritize::in_flight_data_frame.
InnerRecord ==
  [peer : {"client", "server"}, flow : Flow, initWindow : 0 .. MaxWindow,
   maxStreams : Nat, numStreams : Int, numResets : Int, maxStreamId : Nat,
   sendQ : Seq(Streams), capacityQ : Seq(Streams), openQ : Seq(Streams),
   resetQ : Seq(Streams), inFlight : Streams \cup {Nothing, Drop},
   streams : [Streams -> StreamRecord]]

\* Stream::new
NewStream(place, handle, initWindow) ==
  [place |-> place, state |-> Idle, handle |-> handle,
   flow |-> [window |-> initWindow, available |-> 0],
   requested |-> 0, buffered |-> 0, queue |-> <<>>, counted |-> FALSE]

\* The peer's limit is unknown at first, initial_max_send_streams being
\* larger than the bound; a server counts against its own limit.
Init ==
  /\ \E peer \in Peers :
       inner = [peer |-> peer, flow |-> NewFlow(DefaultWindow),
                initWindow |-> DefaultWindow, maxStreams |-> NStreams,
                numStreams |-> 0, numResets |-> 0, maxStreamId |-> NStreams,
                sendQ |-> <<>>, capacityQ |-> <<>>, openQ |-> <<>>,
                resetQ |-> <<>>, inFlight |-> Nothing,
                streams |-> [s \in Streams |-> NewStream("new", "waiting", 0)]]
  /\ codec = NoFrame
  /\ phase = "running"
  /\ wire = [s \in Streams |-> "idle"]

----------------------------------------------------------------------------
(* Queues, and the end of a stream.                                        *)

\* store::Queue: a stream is in a queue at most once.
Push(q, s) == IF Contains(q, s) THEN q ELSE Append(q, s)
PushFront(q, s) == IF Contains(q, s) THEN q ELSE <<s>> \o q

Linked(i) == {s \in Streams : i.streams[s].place = "linked"}
Stored(i) == {s \in Streams : i.streams[s].place \in {"linked", "unlinked"}}
IsPendingOpen(i, s) == Contains(i.openQ, s)
IsPendingReset(i, s) == Contains(i.resetQ, s)

\* Stream::is_closed: closed, and everything that was queued is written.
IsFlushed(stream) ==
  IsClosed(stream.state) /\ stream.queue = <<>> /\ stream.buffered = 0

\* Mutation of IsReleased: a stream in pending_capacity may leave the store.
IsReleasedWhileWaiting(i, s) ==
  /\ IsFlushed(i.streams[s])
  /\ i.streams[s].handle = "dropped"
  /\ \A q \in {i.sendQ, i.openQ, i.resetQ} : ~Contains(q, s)

\* Mutation of IsReleased: a stream whose reset has not expired may leave.
IsReleasedWhileExpiring(i, s) ==
  /\ IsFlushed(i.streams[s])
  /\ i.streams[s].handle = "dropped"
  /\ \A q \in {i.sendQ, i.capacityQ, i.openQ} : ~Contains(q, s)

\* Stream::is_released
IsReleased(i, s) ==
  /\ IsFlushed(i.streams[s])
  /\ i.streams[s].handle = "dropped"
  /\ \A q \in {i.sendQ, i.capacityQ, i.openQ, i.resetQ} : ~Contains(q, s)

\* What a removed stream leaves behind: the capacity it still had.
Removed(stream) ==
  [NewStream("removed", "dropped", 0) EXCEPT
     !.flow.available = stream.flow.available]

\* Mutations of GivesSlotBack: never, and before a scheduled reset is written.
GivesSlotBackNever(stream) == FALSE
GivesSlotBackEarly(stream) == stream.counted /\ IsFlushed(stream)

\* A stream counts until its last frame, a scheduled reset too, is written.
GivesSlotBack(stream) ==
  stream.counted /\ IsFlushed(stream) /\ ~IsScheduledReset(stream.state)

\* Counts::transition_after
TransitionAfter(i, s, wasReset) ==
  LET stream == i.streams[s]
      unlinks == IsFlushed(stream) /\ ~IsPendingReset(i, s)
      uncounts == GivesSlotBack(stream)
      j == [i EXCEPT
              !.streams[s].place = IF unlinks THEN "unlinked" ELSE @,
              !.streams[s].counted = @ /\ ~uncounts,
              !.numStreams = IF uncounts THEN @ - 1 ELSE @,
              !.numResets = IF unlinks /\ wasReset THEN @ - 1 ELSE @]
  IN  IF IsReleased(j, s) THEN [j EXCEPT !.streams[s] = Removed(@)] ELSE j

\* Counts::transition around a step that takes i to j.
Transition(i, j, s) == TransitionAfter(j, s, IsPendingReset(i, s))

----------------------------------------------------------------------------
(* Capacity.                                                               *)

CanSendData(stream) == IsSendStreaming(stream.state) \/ stream.buffered > 0

\* Mutation of TryAssign: capacity is promised that the peer's window for
\* the stream does not cover.
TryAssignBeyondWindow(i, s) ==
  LET assign == Lesser(AsSize(i.flow.available),
                       i.streams[s].requested - i.streams[s].flow.available)
  IN  IF IsPendingOpen(i, s) \/ assign <= 0 THEN i
      ELSE [i EXCEPT !.flow = ClaimCapacity(@, assign),
                     !.streams[s].flow = AssignCapacity(@, assign),
                     !.sendQ = Push(@, s)]

\* try_assign_capacity.  The subtractions are unsigned in the code, see
\* AssignmentFits.
TryAssign(i, s) ==
  LET stream == i.streams[s]
      additional == Lesser(stream.requested, WindowSize(stream.flow)) - stream.flow.available
      assign == Lesser(AsSize(i.flow.available), additional)
      flow == AssignCapacity(stream.flow, assign)
  IN  IF IsPendingOpen(i, s) \/ additional <= 0 \/ ~CanSendData(stream) THEN i
      ELSE [i EXCEPT
              !.streams[s].flow = flow,
              !.flow = ClaimCapacity(@, assign),
              !.capacityQ = IF flow.available < stream.requested /\ HasUnavailable(flow)
                              THEN Push(@, s) ELSE @,
              !.sendQ = IF stream.buffered > 0 THEN Push(@, s) ELSE @]

\* One turn of the loop of assign_connection_capacity.  A stream that no
\* longer wants capacity is evicted without a transition.
AssignNext(i) ==
  LET s == Head(i.capacityQ)
      j == [i EXCEPT !.capacityQ = Tail(@)]
  IN  IF i.flow.available <= 0 \/ i.capacityQ = <<>> THEN i
      ELSE IF CanSendData(i.streams[s]) THEN Transition(j, TryAssign(j, s), s) ELSE j

\* The loop.  A stream that returns to the queue took the last capacity, so
\* there are no more turns than streams that wait.
AssignPending(i) ==
  Loop([k \in Nat |-> [j \in InnerRecord |-> AssignNext(j)]], i, Len(i.capacityQ))

\* Mutation of AssignConnection: waiting streams are not looked at.
AssignConnectionOnly(i, inc) == [i EXCEPT !.flow = AssignCapacity(@, inc)]

\* assign_connection_capacity
AssignConnection(i, inc) ==
  AssignPending([i EXCEPT !.flow = AssignCapacity(@, inc)])

\* Mutation of Reclaim: what the stream gives up reaches nobody.
ReclaimForNobody(i, s, sz) ==
  IF sz <= 0 THEN i ELSE [i EXCEPT !.streams[s].flow = ClaimCapacity(@, sz)]

\* Takes sz octets of capacity from s and gives them to the others.
Reclaim(i, s, sz) ==
  IF sz <= 0 THEN i
  ELSE AssignConnection([i EXCEPT !.streams[s].flow = ClaimCapacity(@, sz)], sz)

\* Mutation of ReclaimAll: the stream keeps what it was assigned.
ReclaimNone(i, s) == i

ReclaimAll(i, s) == Reclaim(i, s, i.streams[s].flow.available)

ReclaimReserved(i, s) ==
  Reclaim(i, s, i.streams[s].flow.available - i.streams[s].buffered)

\* reserve_capacity: capacity beyond what is buffered.
ReserveCapacity(i, s, capacity) ==
  LET stream == i.streams[s]
      wanted == capacity + stream.buffered
      j == [i EXCEPT !.streams[s].requested = wanted]
  IN  CASE wanted = stream.requested -> i
        [] wanted < stream.requested -> Reclaim(j, s, stream.flow.available - wanted)
        [] OTHER -> IF IsSendClosed(stream.state) THEN i ELSE TryAssign(j, s)

----------------------------------------------------------------------------
(* Queueing frames.                                                        *)

\* schedule_send; what waits to be opened is scheduled when it is.
ScheduleSend(i, s) ==
  IF IsPendingOpen(i, s) THEN i ELSE [i EXCEPT !.sendQ = Push(@, s)]

Buffer(i, s, frame) == [i EXCEPT !.streams[s].queue = Append(@, frame)]

\* queue_frame
QueueFrame(i, s, frame) == ScheduleSend(Buffer(i, s, frame), s)

\* Mutation of ClearQueue: a frame the codec holds will still be taken back.
ClearQueueKeepsInFlight(i, s) ==
  [i EXCEPT !.streams[s].queue = <<>>, !.streams[s].buffered = 0,
            !.streams[s].requested = 0]

\* clear_queue
ClearQueue(i, s) ==
  [i EXCEPT !.streams[s].queue = <<>>, !.streams[s].buffered = 0,
            !.streams[s].requested = 0,
            !.inFlight = IF @ = s THEN Drop ELSE @]

\* Mutation of SendHeaders: the last stream asked for is opened first.
SendHeadersLastFirst(i, s, eos) ==
  LET opened == [i EXCEPT !.streams[s].state = SendOpen(@, eos)]
      queued == IF i.peer = "client" THEN [opened EXCEPT !.openQ = PushFront(@, s)]
                                     ELSE opened
  IN  QueueFrame(queued, s, Frame("headers", 0, eos))

\* Send::send_headers, once send_open has succeeded
SendHeaders(i, s, eos) ==
  LET opened == [i EXCEPT !.streams[s].state = SendOpen(@, eos)]
      queued == IF i.peer = "client" THEN [opened EXCEPT !.openQ = Push(@, s)]
                                     ELSE opened
  IN  QueueFrame(queued, s, Frame("headers", 0, eos))

\* Prioritize::send_data, on a stream that is send-streaming
SendChunk(i, s, sz, eos) ==
  LET buffered == i.streams[s].buffered + sz
      charged == [i EXCEPT !.streams[s].buffered = buffered]
      asked == IF i.streams[s].requested < buffered
                 THEN TryAssign([charged EXCEPT !.streams[s].requested = buffered], s)
                 ELSE charged
      ended == IF eos THEN ReserveCapacity([asked EXCEPT !.streams[s].state = SendClose(@)], s, 0)
                      ELSE asked
      frame == Frame("data", sz, eos)
  IN  IF ended.streams[s].flow.available > 0 \/ ended.streams[s].buffered = 0
        THEN QueueFrame(ended, s, frame)
        ELSE Buffer(ended, s, frame)

\* Send::send_trailers
SendTrailers(i, s) ==
  LET closed == [i EXCEPT !.streams[s].state = SendClose(@)]
  IN  ReserveCapacity(QueueFrame(closed, s, Frame("trailers", 0, TRUE)), s, 0)

ResetFrame == Frame("reset", 0, TRUE)

\* Mutation of SendReset: the queue is cleared although HEADERS are in it.
SendResetClearsHeaders(i, s) ==
  LET stream == i.streams[s]
      reset == [i EXCEPT !.streams[s].state = SetReset("LocalReset")]
  IN  CASE IsReset(stream.state) -> i
        [] ~IsReset(stream.state) /\ IsClosed(stream.state) /\ stream.queue = <<>> -> reset
        [] OTHER -> ReclaimAll(QueueFrame(ClearQueue(reset, s), s, ResetFrame), s)

\* Send::send_reset.  A stream that waits to be opened keeps its queue, so
\* that its HEADERS go out before the RST_STREAM.
SendReset(i, s) ==
  LET stream == i.streams[s]
      early == IsPendingOpen(i, s)
      reset == [i EXCEPT !.streams[s].state = SetReset("LocalReset")]
      cleared == IF early THEN reset ELSE ClearQueue(reset, s)
  IN  CASE IsReset(stream.state) -> i
        [] ~IsReset(stream.state) /\ IsClosed(stream.state) /\ stream.queue = <<>> -> reset
        [] OTHER -> ReclaimAll(QueueFrame(cleared, s, ResetFrame), s)

\* Mutation of EnqueueResetExpiration: no limit.
EnqueueResetUnlimited(i, s) ==
  IF IsLocalError(i.streams[s].state) /\ ~IsPendingReset(i, s)
    THEN [i EXCEPT !.resetQ = Append(@, s), !.numResets = @ + 1] ELSE i

\* Recv::enqueue_reset_expiration
EnqueueResetExpiration(i, s) ==
  IF IsLocalError(i.streams[s].state) /\ ~IsPendingReset(i, s) /\ i.numResets < MaxResets
    THEN [i EXCEPT !.resetQ = Append(@, s), !.numResets = @ + 1] ELSE i

\* Actions::send_reset, without its transition
ResetStream(i, s) == EnqueueResetExpiration(SendReset(i, s), s)

\* Send::schedule_implicit_reset
ScheduleImplicitReset(i, s, reason) ==
  IF IsClosed(i.streams[s].state) THEN i
  ELSE ScheduleSend(
         ReclaimReserved([i EXCEPT !.streams[s].state = SetScheduledReset(reason)], s), s)

\* maybe_cancel: nobody is interested in the stream any more.
MaybeCancel(i, s) ==
  LET stream == i.streams[s]
      answered == /\ i.peer = "server"
                  /\ IsSendClosed(stream.state) /\ IsRecvStreaming(stream.state)
  IN  IF IsClosed(stream.state) THEN i
      ELSE EnqueueResetExpiration(
             ScheduleImplicitReset(i, s, IF answered THEN "NO_ERROR" ELSE "CANCEL"), s)

\* Send::handle_error, after the receiving half has changed the state.
FailSending(i, s) == ReclaimAll(ClearQueue(i, s), s)

FailStream(i, s, error) ==
  Transition(i, FailSending([i EXCEPT !.streams[s].state = HandleError(@, error)], s), s)

\* Store::for_each visits the linked streams in the order of an index map
\* that removals permute; the model takes any order.
Orders == {order \in [1 .. NStreams -> Streams] : Range(order) = Streams}

FailNext(i, s, last, error) ==
  IF s \in Linked(i) /\ s > last THEN FailStream(i, s, error) ELSE i

\* Every linked stream after those up to "last" fails.
FailAfter(i, order, last, error) ==
  Loop([k \in Nat |-> [j \in InnerRecord |-> FailNext(j, order[k], last, error)]],
       i, NStreams)

FailAll(i, order, error) == FailAfter(i, order, 0, error)

----------------------------------------------------------------------------
(* Writing.                                                                *)

\* Mutation of PopPendingOpen: the stream that was opened is not scheduled.
PopPendingOpenUnscheduled(i) ==
  IF i.openQ = <<>> \/ i.numStreams >= i.maxStreams THEN i
  ELSE LET s == Head(i.openQ)
       IN  TryAssign([i EXCEPT !.openQ = Tail(@),
                               !.numStreams = @ + 1,
                               !.streams[s].counted = TRUE], s)

\* pop_pending_open, and what buffer_pending does with the stream.
PopPendingOpen(i) ==
  IF i.openQ = <<>> \/ i.numStreams >= i.maxStreams THEN i
  ELSE LET s == Head(i.openQ)
       IN  TryAssign([i EXCEPT !.openQ = Tail(@),
                               !.numStreams = @ + 1,
                               !.streams[s].counted = TRUE,
                               !.sendQ = PushFront(@, s)], s)

\* What pop_frame returns: the stream (Nothing when no frame was found), the
\* frame as it is written, and what of a DATA frame stays behind.
Popped(i, s, frame, rest, eos) ==
  [inner |-> i, stream |-> s, frame |-> frame, rest |-> rest, eos |-> eos]

PopResult ==
  [inner : InnerRecord, stream : Streams \cup {Nothing}, frame : [kind : Kinds, sz : Int, eos : BOOLEAN],
   rest : Int, eos : BOOLEAN]

NothingPopped(i) == Popped(i, Nothing, ResetFrame, 0, FALSE)

\* The end of pop_frame: the stream is queued again for its next frame.
Requeue(i, s) ==
  LET more == i.streams[s].queue # <<>> \/ IsScheduledReset(i.streams[s].state)
  IN  TransitionAfter(IF more THEN [i EXCEPT !.sendQ = Push(@, s)] ELSE i, s,
                      IsPendingReset(i, s))

\* A DATA frame waits while its stream has no capacity, or has some that
\* the window the peer knows of does not cover.
DataLength(stream) ==
  Lesser(Lesser(Head(stream.queue).sz, MaxFrame), stream.flow.available)

IsBlocked(stream) ==
  LET len == DataLength(stream)
  IN  \/ Head(stream.queue).sz > 0 /\ stream.flow.available = 0
      \/ len > 0 /\ len > WindowSize(stream.flow)

\* Mutation of Charge: the connection is not charged.
ChargeStreamOnly(i, s, len) ==
  [i EXCEPT !.streams[s].flow = SendData(@, len),
            !.streams[s].buffered = @ - len, !.streams[s].requested = @ - len]

\* Stream::send_data, and the connection's side of it
Charge(i, s, len) ==
  [i EXCEPT !.streams[s].flow = SendData(@, len),
            !.streams[s].buffered = @ - len, !.streams[s].requested = @ - len,
            !.flow = SendData(AssignCapacity(@, len), len)]

\* Mutation of PopData: a DATA frame cut short keeps END_STREAM.
PopDataKeepsEndStream(i, s) ==
  LET stream == i.streams[s]
      frame == Head(stream.queue)
      len == DataLength(stream)
      j == [Charge(i, s, len) EXCEPT !.streams[s].queue = Tail(@)]
  IN  Popped(Requeue(j, s), s, Frame("data", len, frame.eos), frame.sz - len, frame.eos)

PopData(i, s) ==
  LET stream == i.streams[s]
      frame == Head(stream.queue)
      len == DataLength(stream)
      j == [Charge(i, s, len) EXCEPT !.streams[s].queue = Tail(@)]
  IN  Popped(Requeue(j, s), s, Frame("data", len, frame.eos /\ frame.sz = len),
             frame.sz - len, frame.eos)

PopOther(i, s) ==
  Popped(Requeue([i EXCEPT !.streams[s].queue = Tail(@)], s), s,
         Head(i.streams[s].queue), 0, FALSE)

\* The reset that was scheduled, now that everything before it is written.
PopScheduledReset(i, s) ==
  Popped(Requeue([i EXCEPT !.streams[s].state = SetReset("LocalReset")], s), s,
         ResetFrame, 0, FALSE)

DiscardsData(stream) ==
  IsScheduledReset(stream.state) /\ stream.state.by.reason # "NO_ERROR"

\* One turn of the loop of pop_frame, on the stream it takes out of
\* pending_send.
PopNext(i) ==
  LET s == Head(i.sendQ)
      stream == i.streams[s]
      j == [i EXCEPT !.sendQ = Tail(@)]
      data == stream.queue # <<>> /\ Head(stream.queue).kind = "data"
  IN  CASE data /\ DiscardsData(stream) ->
             NothingPopped([FailSending(j, s) EXCEPT !.sendQ = Push(@, s)])
        [] data /\ ~DiscardsData(stream) ->
             IF IsBlocked(stream) THEN NothingPopped(j) ELSE PopData(j, s)
        [] ~data /\ stream.queue # <<>> -> PopOther(j, s)
        [] stream.queue = <<>> /\ IsScheduledReset(stream.state) ->
             PopScheduledReset(j, s)
        [] OTHER -> NothingPopped(TransitionAfter(j, s, IsPendingReset(j, s)))

\* The loop ends at a frame, or when no stream is left.
PopTurn(popped) ==
  IF popped.stream # Nothing \/ popped.inner.sendQ = <<>> THEN popped
  ELSE PopNext(popped.inner)

\* Between two discarded queues there are at most NStreams turns without a
\* frame, and a queue is discarded once.
MaxTurns == NStreams * (NStreams + 2)

\* pop_frame
PopFrame(i) ==
  Loop([k \in Nat |-> [popped \in PopResult |-> PopTurn(popped)]],
       NothingPopped(i), MaxTurns)

\* Mutation of PushBackFrame: the stream is not scheduled again.
PushBackFrameUnscheduled(i, s, rest, eos) ==
  [i EXCEPT !.streams[s].queue = <<Frame("data", rest, eos)>> \o @]

\* push_back_frame: what was not written returns to the head of the queue.
PushBackFrame(i, s, rest, eos) ==
  LET j == [i EXCEPT !.streams[s].queue = <<Frame("data", rest, eos)>> \o @]
  IN  IF i.streams[s].flow.available > 0 THEN [j EXCEPT !.sendQ = Push(@, s)] ELSE j

\* The peer's view of a stream as frames of this endpoint reach it.
\* "unopened": the first frame on a stream of this endpoint was RST_STREAM.
AfterFrame(w, frame, peer) ==
  CASE frame.kind = "headers" /\ w = "idle" ->
         IF frame.eos THEN "ended" ELSE "open"
    [] frame.kind = "informational" /\ w = "idle" /\ peer = "server" -> "idle"
    [] frame.kind \in {"data", "trailers"} /\ w = "open" ->
         IF frame.eos THEN "ended" ELSE "open"
    [] frame.kind = "reset" /\ w \in {"open", "ended"} -> "reset"
    [] frame.kind = "reset" /\ w = "idle" ->
         IF peer = "server" THEN "reset" ELSE "unopened"
    [] OTHER -> "illegal"

----------------------------------------------------------------------------
(* Actions: one turn of the loop of buffer_pending, and its end.           *)

BufferPending ==
  /\ phase # "dropped"
  /\ codec = NoFrame
  /\ LET popped == PopFrame(PopPendingOpen(inner))
         s == popped.stream
         chained == popped.frame.kind = "data" /\ popped.frame.sz >= ChainThreshold
     IN  /\ wire' = IF s = Nothing \/ phase = "failed" THEN wire
                    ELSE [wire EXCEPT ![s] = AfterFrame(@, popped.frame, inner.peer)]
         /\ IF s # Nothing /\ chained
              THEN /\ codec' = [stream |-> s, rest |-> popped.rest, eos |-> popped.eos]
                   /\ inner' = [popped.inner EXCEPT !.inFlight = s]
              ELSE /\ UNCHANGED codec
                   /\ inner' = IF popped.rest > 0
                                 THEN PushBackFrame(popped.inner, s, popped.rest, popped.eos)
                                 ELSE popped.inner
  /\ UNCHANGED phase

\* The codec has written the frame it held: reclaim_frame.
ReclaimFrame ==
  /\ phase # "dropped"
  /\ codec # NoFrame
  /\ codec' = NoFrame
  /\ LET j == [inner EXCEPT !.inFlight = Nothing]
     IN  inner' = IF inner.inFlight # Drop /\ codec.rest > 0
                    THEN PushBackFrame(j, codec.stream, codec.rest, codec.eos) ELSE j
  /\ UNCHANGED <<phase, wire>>

----------------------------------------------------------------------------
(* Actions of the user's handles.                                          *)

Unchanged == UNCHANGED <<codec, phase, wire>>

Held(s) == s \in Stored(inner) /\ inner.streams[s].handle = "held"

HasRoom(s, sz) ==
  /\ Len(inner.streams[s].queue) < MaxQueue
  /\ inner.streams[s].buffered + sz <= MaxBuffered

\* Identifiers are used in order.
IsNext(s) ==
  /\ inner.streams[s].place = "new"
  /\ \A t \in 1 .. s - 1 : inner.streams[t].place # "new"

\* send_request
SendRequest(s, eos) ==
  /\ inner.peer = "client" /\ phase = "running" /\ IsNext(s)
  /\ inner' = SendHeaders([inner EXCEPT
                !.streams[s] = NewStream("linked", "held", inner.initWindow)], s, eos)
  /\ Unchanged

\* next_incoming gives out the first handle.
Accept(s) ==
  /\ s \in Stored(inner) /\ inner.streams[s].handle = "waiting"
  /\ inner' = [inner EXCEPT !.streams[s].handle = "held"]
  /\ Unchanged

\* send_response
SendResponse(s, eos) ==
  /\ Held(s) /\ inner.peer = "server" /\ HasRoom(s, 0)
  /\ CanSendOpen(inner.streams[s].state)
  /\ inner' = Transition(inner, SendHeaders(inner, s, eos), s)
  /\ Unchanged

\* send_informational_headers checks no state.
SendInformational(s) ==
  /\ Held(s) /\ inner.peer = "server" /\ HasRoom(s, 0)
  /\ InformationalAnytime \/ CanSendOpen(inner.streams[s].state)
  /\ inner' = Transition(inner, QueueFrame(inner, s, Frame("informational", 0, FALSE)), s)
  /\ Unchanged

\* StreamRef::send_data
SendDataFrame(s, sz, eos) ==
  /\ Held(s) /\ HasRoom(s, sz)
  /\ IsSendStreaming(inner.streams[s].state)
  /\ inner' = Transition(inner, SendChunk(inner, s, sz, eos), s)
  /\ Unchanged

SendTrailersFrame(s) ==
  /\ Held(s) /\ HasRoom(s, 0)
  /\ IsSendStreaming(inner.streams[s].state)
  /\ inner' = Transition(inner, SendTrailers(inner, s), s)
  /\ Unchanged

\* StreamRef::reserve_capacity has no transition around it.  A server's user
\* has no SendStream to call it on before send_response.
Reserve(s, capacity) ==
  /\ Held(s) /\ ~CanSendOpen(inner.streams[s].state)
  /\ inner' = ReserveCapacity(inner, s, capacity)
  /\ Unchanged

UserReset(s) ==
  /\ Held(s)
  /\ inner' = Transition(inner, ResetStream(inner, s), s)
  /\ Unchanged

\* The last handle goes: drop_stream_ref.
DropStreamRef(s) ==
  /\ Held(s)
  /\ LET dropped == [inner EXCEPT !.streams[s].handle = "dropped"]
     IN  inner' = Transition(inner, MaybeCancel(dropped, s), s)
  /\ Unchanged

----------------------------------------------------------------------------
(* Actions of the connection task: frames from the peer.                   *)

Reading == phase \in {"running", "goneAway"}

\* A connection error: every stream fails and GOAWAY is due.
FailConnection(i) ==
  /\ "error" \in Ends
  /\ \E order \in Orders : inner' = FailAll(i, order, "LocalGoAway")
  /\ phase' = "failed"
  /\ UNCHANGED <<codec, wire>>

\* The peer can bring it about at any time: by a frame on a stream that is
\* idle or waits to be opened, by a WINDOW_UPDATE that overflows the
\* connection's window, by a GOAWAY that names a later stream than the last.
ConnectionError == Reading /\ FailConnection(inner)

\* HEADERS open a stream at a server.  A malformed request is reset, one
\* whose head is too large is answered with 431 and a scheduled reset.
RecvRequest(s, eos, handle) ==
  LET opened == [inner EXCEPT
                   !.streams[s] = [NewStream("linked", handle, inner.initWindow)
                                     EXCEPT !.state = RecvOpen(@, eos, FALSE),
                                            !.counted = TRUE],
                   !.numStreams = @ + 1]
  IN  /\ inner.peer = "server" /\ Reading /\ IsNext(s)
      /\ inner.numStreams < inner.maxStreams
      /\ \/ handle = "waiting" /\ inner' = opened
         \/ /\ handle = "dropped"
            /\ inner' = Transition(opened, ResetStream(opened, s), s)
         \/ /\ handle = "dropped"
            /\ inner' = Transition(opened,
                 EnqueueResetExpiration(
                   ScheduleImplicitReset(SendHeaders(opened, s, TRUE), s, "PROTOCOL_ERROR"),
                   s), s)
      /\ Unchanged

\* A frame of the peer on a stream that is found by its identifier.
Receives(s) == Reading /\ s \in Linked(inner)

\* The response's HEADERS, on a client.
RecvResponse(s, eos) ==
  LET st == inner.streams[s].state
  IN  /\ Receives(s) /\ ~IsPendingOpen(inner, s)
      /\ CanRecvOpen(st)
      /\ inner' = Transition(inner,
                    [inner EXCEPT !.streams[s].state = RecvOpen(st, eos, FALSE)], s)
      /\ Unchanged

\* The last DATA frame, or trailers.
RecvEndStream(s) ==
  /\ Receives(s)
  /\ IsRecvStreaming(inner.streams[s].state)
  /\ inner' = Transition(inner, [inner EXCEPT !.streams[s].state = RecvClose(@)], s)
  /\ Unchanged

\* A malformed message: reset_on_recv_stream_err.  A stream that this
\* endpoint has reset ignores what still arrives.
RecvStreamError(s) ==
  /\ Receives(s) /\ ~IsPendingOpen(inner, s)
  /\ ~IsLocalError(inner.streams[s].state)
  /\ inner' = Transition(inner, ResetStream(inner, s), s)
  /\ Unchanged

RecvRstStream(s) ==
  /\ Receives(s) /\ ~IsPendingOpen(inner, s)
  /\ LET reset == [inner EXCEPT
                     !.streams[s].state = RecvReset(@, Contains(inner.sendQ, s))]
     IN  inner' = Transition(inner, FailSending(reset, s), s)
  /\ Unchanged

\* Send::recv_stream_window_update; on overflow the stream is reset.  ok says
\* whether the window could be raised.
CannotSend(stream) == IsSendClosed(stream.state) /\ stream.buffered = 0

\* Mutation of StreamWindowUpdate: the window opens, no capacity is assigned.
StreamWindowUpdateOnly(i, s, inc) ==
  LET stream == i.streams[s]
  IN  CASE CannotSend(stream) -> [inner |-> i, ok |-> TRUE]
        [] ~CannotSend(stream) /\ CanIncWindow(stream.flow, inc) ->
             [inner |-> [i EXCEPT !.streams[s].flow = IncWindow(@, inc)], ok |-> TRUE]
        [] OTHER -> [inner |-> SendReset(i, s), ok |-> FALSE]

StreamWindowUpdate(i, s, inc) ==
  LET stream == i.streams[s]
  IN  CASE CannotSend(stream) -> [inner |-> i, ok |-> TRUE]
        [] ~CannotSend(stream) /\ CanIncWindow(stream.flow, inc) ->
             [inner |-> TryAssign([i EXCEPT !.streams[s].flow = IncWindow(@, inc)], s),
              ok |-> TRUE]
        [] OTHER -> [inner |-> SendReset(i, s), ok |-> FALSE]

\* There is no transition around the update.
RecvStreamWindowUpdate(s, inc) ==
  /\ Receives(s) /\ ~IsPendingOpen(inner, s)
  /\ LET update == StreamWindowUpdate(inner, s, inc)
     IN  inner' = IF update.ok THEN update.inner
                               ELSE EnqueueResetExpiration(update.inner, s)
  /\ Unchanged

RecvConnectionWindowUpdate(inc) ==
  /\ Reading
  /\ CanIncWindow(inner.flow, inc)
  /\ inner' = AssignConnection([inner EXCEPT !.flow = IncWindow(@, inc)], inc)
  /\ Unchanged

\* Mutation of Shrink: assigned capacity stays, although the window went.
ShrinkWindowOnly(stream, dec) == [stream EXCEPT !.flow = DecSendWindow(@, dec)]

\* One stream under a smaller SETTINGS_INITIAL_WINDOW_SIZE: capacity that the
\* window no longer covers is taken away.
Shrink(stream, dec) ==
  LET flow == DecSendWindow(stream.flow, dec)
  IN  [stream EXCEPT !.flow =
         IF flow.available > WindowSize(flow)
           THEN ClaimCapacity(flow, flow.available - WindowSize(flow)) ELSE flow]

\* Send::apply_remote_settings, a smaller window.  dec_send_window does not
\* fail, see TypeOK.
RecvSmallerInitialWindow(sz) ==
  LET streams == [s \in Streams |->
        IF s \in Linked(inner) /\ ~CannotSend(inner.streams[s])
          THEN Shrink(inner.streams[s], inner.initWindow - sz) ELSE inner.streams[s]]
      reclaimed == Total([s \in Streams |-> inner.streams[s].flow.available
                                              - streams[s].flow.available], NStreams)
  IN  /\ Reading /\ sz < inner.initWindow
      /\ inner' = AssignConnection([inner EXCEPT !.initWindow = sz,
                                                 !.streams = streams], reclaimed)
      /\ Unchanged

\* A larger window, stream by stream until one overflows.
UpdateResult == [inner : InnerRecord, ok : BOOLEAN]

UpdateNext(acc, s, inc) ==
  IF acc.ok /\ s \in Linked(acc.inner) THEN StreamWindowUpdate(acc.inner, s, inc) ELSE acc

UpdateAll(i, order, inc) ==
  Loop([k \in Nat |-> [acc \in UpdateResult |-> UpdateNext(acc, order[k], inc)]],
       [inner |-> i, ok |-> TRUE], NStreams)

RecvLargerInitialWindow(sz) ==
  /\ Reading /\ sz > inner.initWindow
  /\ \E order \in Orders :
       LET updated == UpdateAll([inner EXCEPT !.initWindow = sz], order,
                                sz - inner.initWindow)
       IN  IF updated.ok THEN inner' = updated.inner /\ Unchanged
                         ELSE FailConnection(updated.inner)

\* Counts::apply_remote_settings
RecvMaxConcurrentStreams(limit) ==
  /\ Reading /\ inner.peer = "client"
  /\ limit # inner.maxStreams
  /\ inner' = [inner EXCEPT !.maxStreams = limit]
  /\ Unchanged

\* recv_go_away: streams the peer will not process fail; the identifier
\* may only go down.
RecvGoAway(last) ==
  /\ Reading /\ "goAway" \in Ends
  /\ last <= inner.maxStreamId
  /\ \E order \in Orders :
       inner' = [IF inner.peer = "client"
                   THEN FailAfter(inner, order, last, "RemoteGoAway") ELSE inner
                     EXCEPT !.maxStreamId = last]
  /\ phase' = "goneAway"
  /\ UNCHANGED <<codec, wire>>

\* clear_expired_reset_streams: the stream that was reset longest ago.
Expire(i) == TransitionAfter([i EXCEPT !.resetQ = Tail(@)], Head(i.resetQ), TRUE)

ExpireReset ==
  /\ phase # "dropped"
  /\ inner.resetQ # <<>>
  /\ inner' = Expire(inner)
  /\ Unchanged

----------------------------------------------------------------------------
(* The end of the connection.                                              *)

\* clear_queues: each queue is emptied, with a transition for each stream.
ClearResets(i) == Loop([k \in Nat |-> [j \in InnerRecord |-> Expire(j)]], i, Len(i.resetQ))

\* Streams wait in pending_accept in the order of their identifiers.
Forsake(i, s) ==
  IF s \in Stored(i) /\ i.streams[s].handle = "waiting"
    THEN TransitionAfter([i EXCEPT !.streams[s].handle = "dropped"], s, FALSE) ELSE i

ClearAccept(i) == Loop([s \in Nat |-> [j \in InnerRecord |-> Forsake(j, s)]], i, NStreams)

\* The transition of a stream that has left a queue.
Leave(i, s) == TransitionAfter(i, s, IsPendingReset(i, s))

LeaveCapacity(i) == Leave([i EXCEPT !.capacityQ = Tail(@)], Head(i.capacityQ))

ClearCapacity(i) ==
  Loop([k \in Nat |-> [j \in InnerRecord |-> LeaveCapacity(j)]], i, Len(i.capacityQ))

\* clear_pending_send; a scheduled reset becomes one that was made.
LeaveSend(i) ==
  LET s == Head(i.sendQ)
  IN  Leave([i EXCEPT !.sendQ = Tail(@),
                      !.streams[s].state =
                         IF IsScheduledReset(@) THEN SetReset("LocalReset") ELSE @], s)

ClearSend(i) ==
  Loop([k \in Nat |-> [j \in InnerRecord |-> LeaveSend(j)]], i, Len(i.sendQ))

LeaveOpen(i) == Leave([i EXCEPT !.openQ = Tail(@)], Head(i.openQ))

ClearOpen(i) ==
  Loop([k \in Nat |-> [j \in InnerRecord |-> LeaveOpen(j)]], i, Len(i.openQ))

\* Inner::recv_eof: the peer closed the connection, or it is dropped here.
RecvEof(dropped) ==
  /\ phase # "dropped"
  /\ IF dropped THEN "drop" \in Ends ELSE "eof" \in Ends /\ Reading
  /\ \E order \in Orders :
       LET failed == ClearResets(FailAll(inner, order, "Io"))
           accepted == IF dropped THEN ClearAccept(failed) ELSE failed
       IN  inner' = ClearOpen(ClearSend(ClearCapacity(accepted)))
  /\ phase' = IF dropped THEN "dropped" ELSE "failed"
  /\ UNCHANGED <<codec, wire>>

----------------------------------------------------------------------------
User(s) ==
  \/ \E eos \in BOOLEAN : SendRequest(s, eos) \/ SendResponse(s, eos)
  \/ \E sz \in Sizes, eos \in BOOLEAN : SendDataFrame(s, sz, eos)
  \/ \E capacity \in Reservations : Reserve(s, capacity)
  \/ Accept(s) \/ SendInformational(s) \/ SendTrailersFrame(s)
  \/ UserReset(s) \/ DropStreamRef(s)

Receive(s) ==
  \/ \E eos \in BOOLEAN, handle \in {"waiting", "dropped"} : RecvRequest(s, eos, handle)
  \/ \E eos \in BOOLEAN : RecvResponse(s, eos)
  \/ \E inc \in Increments : RecvStreamWindowUpdate(s, inc)
  \/ RecvEndStream(s) \/ RecvStreamError(s) \/ RecvRstStream(s)

Write == BufferPending \/ ReclaimFrame

Next ==
  \/ \E s \in Streams : User(s) \/ Receive(s)
  \/ Write \/ ExpireReset \/ ConnectionError
  \/ \E inc \in Increments : RecvConnectionWindowUpdate(inc)
  \/ \E sz \in InitWindows : RecvSmallerInitialWindow(sz) \/ RecvLargerInitialWindow(sz)
  \/ \E limit \in Limits : RecvMaxConcurrentStreams(limit)
  \/ \E last \in LastStreams : RecvGoAway(last)
  \/ \E dropped \in BOOLEAN : RecvEof(dropped)

Spec == Init /\ [][Next]_vars

----------------------------------------------------------------------------
(* Properties.                                                             *)

\* Type invariant.  That window stays above MinWindow says that lowering the
\* initial window never fails.
TypeOK ==
  /\ inner.flow \in FlowControls
  /\ \A s \in Streams :
       LET stream == inner.streams[s]
       IN  /\ stream.place \in Place /\ stream.handle \in Handle
           /\ stream.state \in States
           /\ stream.flow.window \in -MaxWindow .. MaxWindow
           /\ stream.flow.available \in 0 .. MaxWindow
           /\ stream.requested \in 0 .. MaxWindow + MaxBuffered
           /\ stream.buffered \in 0 .. MaxBuffered
           /\ \A f \in ToSet(stream.queue) : f \in Frames
  /\ inner.numStreams \in 0 .. NStreams
  /\ inner.numResets \in 0 .. MaxResets
  /\ inner.inFlight \in Streams \cup {Nothing, Drop}
  /\ phase \in {"running", "goneAway", "failed", "dropped"}

Assigned == Total([s \in Streams |-> inner.streams[s].flow.available], NStreams)

\* Capacity is neither made nor lost as it moves between the connection and
\* the streams: what the peer's window allows is either unassigned or
\* assigned to one stream.  A DATA frame is admitted against its stream's
\* share alone, and this is why the connection's window always covers it.
CapacityConserved ==
  /\ inner.flow.window = inner.flow.available + Assigned
  /\ inner.flow.available >= 0

\* A share never exceeds what was asked for nor what the stream's own window
\* allows, whatever order settings, updates and resets come in: the unsigned
\* subtractions in try_assign_capacity do not wrap.
AssignmentFits ==
  \A s \in Stored(inner) :
    LET stream == inner.streams[s]
    IN  /\ stream.flow.available <= stream.requested
        /\ stream.flow.available <= WindowSize(stream.flow)

\* The frames of a stream reach the peer as HTTP/2 allows: HEADERS first,
\* nothing but RST_STREAM after END_STREAM, nothing after RST_STREAM.  The
\* exception is a stream the peer's GOAWAY refused, see ResetNeverFirst.
WireLegal ==
  \A s \in Streams :
    /\ wire[s] # "illegal"
    /\ wire[s] = "unopened" => inner.maxStreamId < s

\* A client's streams are opened in the order of their identifiers: opening
\* one closes every idle stream below it, and HEADERS that are still queued
\* for such a stream would be a connection error at the peer.
OpensInOrder ==
  inner.peer = "client" =>
    \A s, t \in Streams :
      s < t /\ wire[t] # "idle" /\ wire[s] = "idle" =>
        \A f \in ToSet(inner.streams[s].queue) : f.kind # "headers"

\* A stream the peer sees as active: opened, and not known to it to be over.
StillOpen(s) ==
  LET stream == inner.streams[s]
  IN  /\ s \in Stored(inner) /\ wire[s] \in {"open", "ended"}
      /\ ~IsFlushed(stream) \/ IsScheduledReset(stream.state)

\* A client opens a stream only while fewer streams than the peer's limit
\* are active: the slot of a stream is free again no earlier than the frame
\* that ends it, its RST_STREAM for one, is written.
OpensWithinLimit ==
  [][\A s \in Streams :
       inner.peer = "client" /\ wire[s] = "idle" /\ wire'[s] = "open" =>
         Cardinality({t \in Streams \ {s} : StillOpen(t)}) < inner.maxStreams]_vars

\* What a stream has to write and may ask capacity for.
Wanted(stream) ==
  IF IsSendStreaming(stream.state) THEN stream.requested ELSE stream.buffered

\* A stream that wants capacity its own window would allow is in
\* pending_capacity, and only because the connection has none to give: no
\* order of updates, settings, resets and reservations loses it, which would
\* leave its user waiting for ever.
NoWaiterForgotten ==
  phase \in {"running", "goneAway"} =>
    \A s \in Linked(inner) :
      LET stream == inner.streams[s]
          wants == Lesser(Wanted(stream), WindowSize(stream.flow)) > stream.flow.available
      IN  wants /\ CanSendData(stream) /\ ~IsPendingOpen(inner, s) =>
            Contains(inner.capacityQ, s) /\ inner.flow.available = 0

\* What pop_frame would write for this stream at once.
CanWrite(stream) ==
  Head(stream.queue).kind # "data" \/ DiscardsData(stream) \/ ~IsBlocked(stream)

\* The codec has a part of a DATA frame that will return to the head of the
\* queue of s.
WillReturn(s) == inner.inFlight = s /\ codec.rest > 0

\* A stream whose next frame could be written is in pending_send, or waits in
\* pending_open: no frame is forgotten in a queue.  While DATA is to return,
\* the next frame is that one, and an empty DATA frame queued behind it is
\* not scheduled.
NoFrameForgotten ==
  phase \in {"running", "goneAway"} =>
    \A s \in Stored(inner) :
      inner.streams[s].queue # <<>> /\ CanWrite(inner.streams[s]) /\ ~WillReturn(s) =>
        Contains(inner.sendQ, s) \/ IsPendingOpen(inner, s)

\* The length of the DATA frames in a queue.
Octets(queue) == Total([k \in 1 .. Len(queue) |-> queue[k].sz], Len(queue))

\* buffered_send_data is the length of the DATA frames in the queue and of
\* the rest of the one the codec writes, unless the queue was cleared under
\* it: that rest will be dropped and not come back.
BufferedExact ==
  \A s \in Stored(inner) :
    inner.streams[s].buffered =
      Octets(inner.streams[s].queue) + IF inner.inFlight = s THEN codec.rest ELSE 0

\* Queues hold keys of streams that are still in the store, and so does the
\* codec while it holds DATA that will return: resolving a key never panics.
NoDanglingKeys ==
  LET keys == UNION {ToSet(q) : q \in {inner.sendQ, inner.capacityQ, inner.openQ, inner.resetQ}}
  IN  /\ keys \subseteq Stored(inner)
      /\ codec.rest > 0 /\ inner.inFlight # Drop => codec.stream \in Stored(inner)

\* While the connection runs, the streams that count against the concurrency
\* limit are those in the store that took a slot: a stream never leaves the
\* store with its slot, nor gives it back twice.  TLC refutes it for a server:
\* RST_STREAM from the peer empties the queue of a stream that is out of
\* pending_send because its DATA is blocked, yet does not overwrite a reset
\* that is scheduled; that reset is never sent, and the slot is never free.
CountsExact ==
  phase \in {"running", "goneAway"} =>
    inner.numStreams = Cardinality({s \in Stored(inner) : inner.streams[s].counted})

\* A server's stream that is over has given back all it was assigned.
NothingKept ==
  inner.peer = "server" =>
    \A s \in Streams :
      inner.streams[s].place = "removed" => inner.streams[s].flow.available = 0

\* "clearing the queue would drop those HEADERS and let a RST_STREAM become
\* the first frame on an idle stream.  HTTP/2 forbids that."  TLC refutes it:
\* GOAWAY clears the queue of a stream that waits to be opened, and the reset
\* scheduled when its handle was dropped goes out once a slot is free.
ResetNeverFirst == \A s \in Streams : wire[s] # "unopened"

============================================================================
