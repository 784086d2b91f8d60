----------------------------- MODULE Connection -----------------------------
(***************************************************************************)
(* The connection task: proto/connection.rs with settings.rs, ping_pong.rs *)
(* and go_away.rs, the poll functions and handshakes of client.rs and      *)
(* server.rs around it, and the part of streams.rs that decides when it is *)
(* woken and when it may end.                                              *)
(*                                                                         *)
(* One task polls the connection.  A poll works through a fixed order of   *)
(* duties: a GOAWAY, a PONG, a PING, the acknowledgement of SETTINGS, own  *)
(* SETTINGS, a refusal, and only then one frame of the peer; when it can   *)
(* not go on it writes what the streams have queued, flushes and parks.    *)
(* "pc" is the duty the task is at; a duty that does not apply is passed   *)
(* over in the step before.  Between two steps other threads run: handles  *)
(* lock "inner" (streams.rs: Inner), the user of PING changes "pings" by   *)
(* atomic operations, and the transport moves frames.  The task is polled  *)
(* again only if somebody wakes it, so every step that leaves it parked    *)
(* must have told somebody to.                                             *)
(*                                                                         *)
(* Streams are reduced to what the connection asks of them: which count as *)
(* active, which have a frame to write, which wait to be opened.           *)
(***************************************************************************)
EXTENDS GoAway, FiniteSets, Sequences

CONSTANTS
  RecvLimit,    \* our SETTINGS_MAX_CONCURRENT_STREAMS
  MaxRefusals,  \* max_local_error_reset_streams, which refusals count against
  CodecRoom,    \* frames the codec buffers before it must write
  WireRoom,     \* frames the transport holds
  InRoom,       \* bound of the model: frames the peer sends ahead
  Limits,       \* what SETTINGS may say of the peer's limit: {} or {limit}
  Scenes        \* what the environment does; each field bounds the model

\* A scene says the role of the endpoint, which frames the peer sends of its
\* own accord and how many, which calls the owner of the Connection makes and
\* how many, the error codes of both, how many requests and PINGs the users send,
\* and the limit in the peer's first SETTINGS.
SceneSpace ==
  [role : {"client", "server"},
   frames : SUBSET {"headers", "reset", "ping", "pong", "settings", "goAway",
                    "bad", "eof", "broken"},
   sends : Nat,
   calls : SUBSET {"graceful", "abrupt", "settings"}, made : Nat,
   reasons : SUBSET (Reasons \ {"protocol", "calm"}),
   requests : Nat, pings : Nat, limit : Limits]

ASSUME ConnectionAssumption ==
  /\ {"no_error", "protocol", "calm"} \subseteq Reasons
  /\ RecvLimit \in Nat /\ MaxRefusals \in Nat
  /\ \A l \in Limits : l \subseteq Nat
  /\ CodecRoom \in Nat \ {0} /\ WireRoom \in Nat \ {0} /\ InRoom \in Nat
  /\ Scenes \subseteq SceneSpace

VARIABLES
  scene,   \* the scene, which never changes
  pc,      \* where the connection task is
  conn,    \* ConnectionInner but for the next three
  goAway,  \* GoAway
  pings,   \* UserPingsInner, shared with the user of PING
  inner,   \* streams.rs: Inner, behind its mutex
  codec,   \* frames buffered, and what the transport will wake the task for
  net,     \* frames under way, out to the peer and in from it
  exec,    \* the executor: whether the task is woken; the result of the poll
  pinger,  \* the thread that uses PING
  peer,    \* the other endpoint
  log      \* history: the least identifier told in a GOAWAY, SETTINGS applied

task == <<conn, goAway, exec>>
vars == <<scene, pc, conn, goAway, pings, inner, codec, net, exec, pinger, peer, log>>

role == scene.role
Ids == 1 .. MaxId - 1

\* A limit no number of streams reaches.
Unlimited == MaxId

\* A frame on its way.  "epoch" counts the SETTINGS the peer sent before it.
Out(kind, arg) == [kind |-> kind, arg |-> arg]
In(kind, arg) == [kind |-> kind, arg |-> arg, epoch |-> peer.epoch]

PC ==
  {"handshake", "preface", "parked", "check", "goAway", "pong", "ping",
   "register", "settings", "local", "refuse", "read", "wakePong", "complete",
   "flush", "idle", "after", "shutdown", "finished", "dropWake", "gone"}

\* UserPings: the five values of the atomic.
PingStates == {"empty", "pendingPing", "pendingPong", "receivedPong", "closed"}

\* state and reason are connection.rs: State; error is the reason of the peer's
\* last GOAWAY, refusal is pending_refusal, shutdown is pending_ping, pong is
\* pending_pong; local, remote and initial are settings.rs: Settings.
NewConnection ==
  [state |-> "open", reason |-> "no_error", error |-> {}, refusal |-> {},
   shutdown |-> "none", pong |-> FALSE, local |-> "waitingAck", remote |-> {},
   initial |-> TRUE]

\* task says whether actions.task holds a waker.  next is the next identifier
\* of the side that opens streams, limit is max_send_streams.
NewInner ==
  [task |-> FALSE, connError |-> FALSE, last |-> 0, maxId |-> MaxId, next |-> 1,
   sendMaxId |-> MaxId, limit |-> Unlimited, refusals |-> 0, active |-> {},
   accept |-> {}, queued |-> {}, opening |-> {}, held |-> {}, sender |-> FALSE]

Init ==
  /\ scene \in Scenes
  /\ pc = IF role = "server" THEN "handshake" ELSE "parked"
  /\ conn = NewConnection
  /\ goAway = NewGoAway
  /\ pings = [state |-> "empty", pingTask |-> FALSE, pongTask |-> FALSE]
  /\ inner = [NewInner EXCEPT !.sender = (role = "client")]
  /\ codec = [buf |-> <<Out("settings", 0)>>, wants |-> {}]
  /\ net = [out |-> <<>>,
            in |-> <<[kind |-> "settings", arg |-> scene.limit, epoch |-> 0]>>]
  /\ exec = [woken |-> TRUE, had |-> FALSE, result |-> "none",
             calls |-> 0]
  /\ pinger = [at |-> "idle", woken |-> FALSE, sent |-> 0]
  /\ peer = [epoch |-> 1, acked |-> 0, sent |-> 0, next |-> 1, opened |-> {},
             mine |-> MaxId, broke |-> FALSE, done |-> FALSE]
  /\ log = [told |-> MaxId, applied |-> 0]

----------------------------------------------------------------------------
(* The codec.                                                              *)

HasCapacity == Len(codec.buf) < CodecRoom

Buffer(frame) == codec' = [codec EXCEPT !.buf = Append(@, frame)]

\* FramedWrite::flush writes what the transport takes.  All of it: the task
\* goes on at done; otherwise the transport will wake it, and it is at blocked.
Flush(done, blocked) ==
  LET room == WireRoom - Len(net.out)
      n == IF Len(codec.buf) <= room THEN Len(codec.buf) ELSE room
      rest == SubSeq(codec.buf, n + 1, Len(codec.buf))
  IN  /\ net' = [net EXCEPT !.out = @ \o SubSeq(codec.buf, 1, n)]
      /\ codec' = [buf |-> rest,
                   wants |-> IF rest = <<>> THEN codec.wants
                                            ELSE codec.wants \cup {"write"}]
      /\ pc' = IF rest = <<>> THEN done ELSE blocked

\* The duties that have a frame to buffer.
NeedsRoom ==
  \/ pc = "goAway" /\ goAway.pending /= {}
  \/ pc \in {"pong", "settings", "local", "refuse", "complete"}
  \/ pc = "ping" /\ \/ conn.shutdown = "unsent"
                    \/ conn.shutdown = "none" /\ pings.state = "pendingPing"

\* Mutation of MakeRoom: SETTINGS are taken before there is room to acknowledge.
MakeRoomTakesSettings ==
  /\ NeedsRoom /\ ~HasCapacity
  /\ Flush(pc, IF pc = "complete" THEN "after" ELSE "complete")
  /\ conn' = IF pc' /= pc THEN [conn EXCEPT !.remote = {}] ELSE conn
  /\ UNCHANGED <<scene, goAway, exec, pings, inner, pinger, peer, log>>

\* FramedWrite::poll_ready without room: flush, and give up if that blocks.
MakeRoom ==
  /\ NeedsRoom /\ ~HasCapacity
  /\ Flush(pc, IF pc = "complete" THEN "after" ELSE "complete")
  /\ UNCHANGED <<scene, task, pings, inner, pinger, peer, log>>

----------------------------------------------------------------------------
(* What the next duty is.                                                  *)

\* Settings::poll_send and pending_refusal; then a frame may be read.
Turn(c) ==
  CASE c.remote /= {} -> "settings"
    [] c.remote = {} /\ c.local = "toSend" -> "local"
    [] c.remote = {} /\ c.local /= "toSend" /\ c.refusal /= {} -> "refuse"
    [] OTHER -> "read"

\* Mutation of Duty: frames are read before SETTINGS are acknowledged.
DutyReadsFirst(c, g) ==
  IF g.pending /= {} \/ g.closeNow THEN "goAway"
  ELSE IF c.pong THEN "pong" ELSE "read"

\* After the answer to the peer's PING.  A user's PING is looked for if somebody
\* took the PingPong handle and no PING of a graceful shutdown is unanswered.
Pinging(c) ==
  IF c.shutdown = "unsent" \/ (c.shutdown = "none" /\ scene.pings > 0)
    THEN "ping" ELSE Turn(c)

\* The start of the loop in poll2.
Duty(c, g) ==
  CASE g.pending /= {} \/ g.closeNow -> "goAway"
    [] g.pending = {} /\ ~g.closeNow /\ c.pong -> "pong"
    [] OTHER -> Pinging(c)

\* The loop in Connection::poll, by the connection's state.
Resume(c, g) ==
  CASE c.state = "open" -> Duty(c, g)
    [] c.state = "closing" -> "shutdown"
    [] c.state = "closed" -> "finished"

Closing(c, reason) == [c EXCEPT !.state = "closing", !.reason = reason]

\* Inner::handle_error on all streams: they are over, nothing stays queued.
FailAll(i) ==
  [i EXCEPT !.connError = TRUE, !.active = {}, !.queued = {}, !.opening = {}]

GoAwayFrame(i, reason) == [id |-> i.last, reason |-> reason]

\* DynConnection::go_away_now
CloseNow(i, reason) == goAway' = GoAwayNow(goAway, GoAwayFrame(i, reason))

\* handle_go_away: if this error was announced already, just close.
ConnectionError(c, i, reason) ==
  IF \E f \in goAway.going : f.reason = reason
    THEN /\ conn' = Closing(c, reason) /\ inner' = i
         /\ pc' = "shutdown" /\ UNCHANGED goAway
    ELSE /\ conn' = c /\ inner' = FailAll(i)
         /\ CloseNow(i, reason) /\ pc' = "goAway"

\* The last handle besides the connection's is gone, and no stream is active.
HasRefs(i) == i.active /= {} \/ i.held /= {} \/ i.sender

----------------------------------------------------------------------------
(* Handshakes, and the start of a poll.                                    *)

Idle == <<scene, conn, goAway, pings, inner, pinger, peer, log>>

\* server.rs: Handshake flushes SETTINGS, then reads the client's preface.
Handshake ==
  /\ pc = "handshake" /\ exec.woken
  /\ Flush("preface", "handshake")
  /\ exec' = [exec EXCEPT !.woken = (codec'.buf = <<>>)]
  /\ UNCHANGED Idle

\* The preface is there as soon as the client has written it.
ReadPreface ==
  /\ pc = "preface"
  /\ pc' = "parked"
  /\ exec' = [exec EXCEPT !.woken = TRUE]
  /\ UNCHANGED <<Idle, codec, net>>

\* Mutation of StartPoll: the snapshot of client.rs is always "no".
StartPollWithoutSnapshot ==
  /\ pc = "parked" /\ exec.woken
  /\ exec' = [exec EXCEPT !.woken = FALSE, !.had = FALSE]
  /\ pc' = IF role = "client" THEN "check" ELSE Resume(conn, goAway)
  /\ UNCHANGED <<Idle, codec, net>>

\* The executor polls a task that was woken.  A client first notes whether it
\* has streams or handles.
StartPoll ==
  /\ pc = "parked" /\ exec.woken
  /\ exec' = [exec EXCEPT !.woken = FALSE,
                          !.had = role = "client" /\ HasRefs(inner)]
  /\ pc' = IF role = "client" THEN "check" ELSE Resume(conn, goAway)
  /\ UNCHANGED <<Idle, codec, net>>

\* maybe_close_connection_if_no_streams
CheckReferences ==
  /\ pc = "check"
  /\ IF HasRefs(inner) THEN UNCHANGED goAway ELSE CloseNow(inner, "no_error")
  /\ pc' = Resume(conn, goAway')
  /\ UNCHANGED <<scene, conn, pings, inner, codec, net, exec, pinger, peer, log>>

\* Anything else than the preface is an error, and there is no connection.
BadPreface ==
  /\ pc = "preface" /\ "bad" \in scene.frames
  /\ exec' = [exec EXCEPT !.result = "protocol"]
  /\ peer' = [peer EXCEPT !.broke = TRUE]
  /\ pc' = "gone"
  /\ UNCHANGED <<scene, conn, goAway, pings, inner, codec, net, pinger, log>>

----------------------------------------------------------------------------
(* The duties.                                                             *)

\* What poll2 does with a reason of poll_go_away when the connection is to
\* close: Ok if the user asked for it, else the error, which handle_go_away
\* finds announced.
CloseWith(reason) ==
  IF goAway.user THEN Closing(conn, "no_error") ELSE Closing(conn, reason)

\* send_pending_go_away with a frame to send.
SendGoAway ==
  /\ pc = "goAway" /\ HasCapacity
  /\ \E f \in goAway.pending :
       /\ Buffer(Out("goAway", f))
       /\ log' = [log EXCEPT !.told = IF f.id < @ THEN f.id ELSE @]
       /\ IF goAway.closeNow
            THEN conn' = CloseWith(f.reason) /\ pc' = "shutdown"
            ELSE UNCHANGED conn /\ pc' = IF conn.pong THEN "pong" ELSE Pinging(conn)
  /\ goAway' = [goAway EXCEPT !.pending = {}]
  /\ UNCHANGED <<scene, pings, inner, net, exec, pinger, peer>>

\* should_close_now: the last GOAWAY was sent before.
CloseAfterGoAway ==
  /\ pc = "goAway" /\ ShouldCloseNow(goAway)
  /\ \E f \in goAway.going : conn' = CloseWith(f.reason)
  /\ pc' = "shutdown"
  /\ UNCHANGED <<scene, goAway, pings, inner, codec, net, exec, pinger, peer, log>>

SendPong ==
  /\ pc = "pong" /\ HasCapacity
  /\ Buffer(Out("pong", 0))
  /\ conn' = [conn EXCEPT !.pong = FALSE]
  /\ pc' = Pinging(conn)
  /\ UNCHANGED <<scene, goAway, pings, inner, net, exec, pinger, peer, log>>

\* send_pending_ping: the PING of a graceful shutdown comes before the user's.
SendShutdownPing ==
  /\ pc = "ping" /\ conn.shutdown = "unsent" /\ HasCapacity
  /\ Buffer(Out("ping", "shutdown"))
  /\ conn' = [conn EXCEPT !.shutdown = "sent"]
  /\ pc' = Turn(conn)
  /\ UNCHANGED <<scene, goAway, pings, inner, net, exec, pinger, peer, log>>

SendUserPing ==
  /\ pc = "ping" /\ conn.shutdown = "none" /\ pings.state = "pendingPing" /\ HasCapacity
  /\ Buffer(Out("ping", "user"))
  /\ pings' = [pings EXCEPT !.state = "pendingPong"]
  /\ pc' = Turn(conn)
  /\ UNCHANGED <<scene, task, inner, net, pinger, peer, log>>

NoUserPing ==
  /\ pc = "ping" /\ conn.shutdown = "none" /\ pings.state /= "pendingPing"
  /\ pc' = "register"
  /\ UNCHANGED <<Idle, codec, net, exec>>

\* ping_task.register: the state was looked at before, without a lock.
RegisterPing ==
  /\ pc = "register"
  /\ pings' = [pings EXCEPT !.pingTask = TRUE]
  /\ pc' = Turn(conn)
  /\ UNCHANGED <<scene, task, inner, codec, net, pinger, peer, log>>

\* Settings::poll_send with SETTINGS of the peer: they take effect when the
\* acknowledgement is in the buffer.  The first SETTINGS also lift the limit
\* they do not mention.
SendSettingsAck ==
  /\ pc = "settings" /\ HasCapacity
  /\ Buffer(Out("ack", 0))
  /\ \E limit \in conn.remote :
       inner' = [inner EXCEPT !.limit =
                   IF limit /= {} THEN CHOOSE l \in limit : TRUE
                   ELSE IF conn.initial THEN Unlimited ELSE @]
  /\ conn' = [conn EXCEPT !.remote = {}, !.initial = FALSE]
  /\ log' = [log EXCEPT !.applied = @ + 1]
  /\ pc' = Turn(conn')
  /\ UNCHANGED <<scene, goAway, pings, net, exec, pinger, peer>>

SendLocalSettings ==
  /\ pc = "local" /\ HasCapacity
  /\ Buffer(Out("settings", 0))
  /\ conn' = [conn EXCEPT !.local = "waitingAck"]
  /\ pc' = Turn(conn')
  /\ UNCHANGED <<scene, goAway, pings, inner, net, exec, pinger, peer, log>>

\* Mutation of SendRefusal: one refusal too many.
SendRefusalOnceMore ==
  /\ pc = "refuse" /\ HasCapacity
  /\ IF inner.refusals <= MaxRefusals
       THEN /\ \E id \in conn.refusal : Buffer(Out("reset", id))
            /\ inner' = [inner EXCEPT !.refusals = @ + 1]
            /\ conn' = [conn EXCEPT !.refusal = {}]
            /\ pc' = "read" /\ UNCHANGED goAway
       ELSE ConnectionError(conn, inner, "calm") /\ UNCHANGED codec
  /\ UNCHANGED <<scene, pings, net, exec, pinger, peer, log>>

\* A refused stream is reset.  Too many, and the connection ends.
SendRefusal ==
  /\ pc = "refuse" /\ HasCapacity
  /\ IF inner.refusals < MaxRefusals
       THEN /\ \E id \in conn.refusal : Buffer(Out("reset", id))
            /\ inner' = [inner EXCEPT !.refusals = @ + 1]
            /\ conn' = [conn EXCEPT !.refusal = {}]
            /\ pc' = "read" /\ UNCHANGED goAway
       ELSE ConnectionError(conn, inner, "calm") /\ UNCHANGED codec
  /\ UNCHANGED <<scene, pings, net, exec, pinger, peer, log>>

----------------------------------------------------------------------------
(* One frame of the peer: poll_next and recv_frame.                        *)

Receives(kind) == pc = "read" /\ net.in /= <<>> /\ Head(net.in).kind = kind
Arg == Head(net.in).arg
Consume == net' = [net EXCEPT !.in = Tail(@)]

\* What reading changes in most cases is conn or inner; the loop goes on.
ReadOn(c, i) ==
  /\ conn' = c /\ inner' = i /\ pc' = Duty(c, goAway)
  /\ UNCHANGED <<goAway, pings>>

ReadFails(reason) == ConnectionError(conn, inner, reason) /\ UNCHANGED pings

Rest == <<scene, codec, exec, pinger, peer, log>>

\* Nothing to read: the transport will wake the task.
ReadNothing ==
  /\ pc = "read" /\ net.in = <<>>
  /\ codec' = [codec EXCEPT !.wants = @ \cup {"read"}]
  /\ pc' = "complete"
  /\ UNCHANGED <<Idle, net, exec>>

\* Inner::recv_headers and Recv::open on a server.  Streams above the
\* identifier of our last GOAWAY are ignored.
ReadHeaders ==
  LET id == Arg
      seen == [inner EXCEPT !.next = id + 1]
  IN  /\ Receives("headers")
      /\ CASE id > inner.maxId -> ReadOn(conn, inner)
           [] id <= inner.maxId /\ id < inner.next -> ReadFails("protocol")
           [] id <= inner.maxId /\ id >= inner.next
                /\ Cardinality(inner.active) >= RecvLimit ->
                ReadOn([conn EXCEPT !.refusal = {id}], seen)
           [] OTHER ->
                ReadOn(conn, [seen EXCEPT !.last = id, !.active = @ \cup {id},
                                          !.accept = @ \cup {id}])
      /\ Consume /\ UNCHANGED Rest

\* Mutation of ReadReset: streams we said to ignore are looked up.
ReadResetAlways ==
  /\ Receives("reset")
  /\ IF Arg >= inner.next
       THEN ReadFails("protocol")
       ELSE ReadOn(conn, [inner EXCEPT !.active = @ \ {Arg}, !.queued = @ \ {Arg}])
  /\ Consume /\ UNCHANGED Rest

\* Inner::recv_reset on a server
ReadReset ==
  /\ Receives("reset")
  /\ CASE Arg > inner.maxId -> ReadOn(conn, inner)
       [] Arg <= inner.maxId /\ Arg >= inner.next -> ReadFails("protocol")
       [] OTHER ->
            ReadOn(conn, [inner EXCEPT !.active = @ \ {Arg}, !.queued = @ \ {Arg}])
  /\ Consume /\ UNCHANGED Rest

\* The response to a request; a stream that was cancelled ignores it.
ReadResponse ==
  /\ Receives("response")
  /\ ReadOn(conn, IF Arg \in inner.queued THEN inner
                  ELSE [inner EXCEPT !.active = @ \ {Arg}])
  /\ Consume /\ UNCHANGED Rest

ReadPing ==
  /\ Receives("ping")
  /\ ReadOn([conn EXCEPT !.pong = TRUE], inner)
  /\ Consume /\ UNCHANGED Rest

\* Mutation of ReadShutdownPong: requests are still taken.
ReadShutdownPongOnly ==
  /\ Receives("pong") /\ Arg = "shutdown" /\ conn.shutdown /= "none"
  /\ conn' = [conn EXCEPT !.shutdown = "none"]
  /\ goAway' = SetGoAway(goAway, GoAwayFrame(inner, "no_error"))
  /\ pc' = Duty(conn', goAway')
  /\ Consume /\ UNCHANGED <<inner, pings, Rest>>

\* PingPong::recv_ping with the answer of a graceful shutdown's PING: now the
\* last stream is known, and later ones will be ignored.
ReadShutdownPong ==
  /\ Receives("pong") /\ Arg = "shutdown" /\ conn.shutdown /= "none"
  /\ conn' = [conn EXCEPT !.shutdown = "none"]
  /\ inner' = [inner EXCEPT !.maxId = inner.last]
  /\ goAway' = SetGoAway(goAway, GoAwayFrame(inner, "no_error"))
  /\ pc' = Duty(conn', goAway')
  /\ Consume /\ UNCHANGED <<pings, Rest>>

\* Mutation of ReadUserPong: the user is not woken.
ReadUserPongQuietly ==
  /\ Receives("pong") /\ Arg = "user" /\ pings.state = "pendingPong"
  /\ pings' = [pings EXCEPT !.state = "receivedPong"]
  /\ pc' = Duty(conn, goAway)
  /\ Consume /\ UNCHANGED <<conn, goAway, inner, Rest>>

\* receive_pong, whose wake is a step of its own
ReadUserPong ==
  /\ Receives("pong") /\ Arg = "user" /\ pings.state = "pendingPong"
  /\ pings' = [pings EXCEPT !.state = "receivedPong"]
  /\ pc' = "wakePong"
  /\ Consume /\ UNCHANGED <<conn, goAway, inner, Rest>>

\* An answer to no PING of ours is ignored.
ReadUnknownPong ==
  /\ Receives("pong")
  /\ \/ Arg = "shutdown" /\ conn.shutdown = "none"
     \/ Arg = "user" /\ pings.state /= "pendingPong"
     \/ Arg = "other"
  /\ ReadOn(conn, inner)
  /\ Consume /\ UNCHANGED Rest

\* AtomicWaker::wake on pong_task
WakePinger ==
  /\ pings' = [pings EXCEPT !.pongTask = FALSE]
  /\ pinger' = [pinger EXCEPT !.woken = @ \/ pings.pongTask]

WakePong ==
  /\ pc = "wakePong"
  /\ WakePinger
  /\ pc' = Duty(conn, goAway)
  /\ UNCHANGED <<scene, task, inner, codec, net, peer, log>>

ReadSettings ==
  /\ Receives("settings")
  /\ ReadOn([conn EXCEPT !.remote = {Arg}], inner)
  /\ Consume /\ UNCHANGED Rest

ReadSettingsAck ==
  /\ Receives("ack")
  /\ IF conn.local = "waitingAck" THEN ReadOn([conn EXCEPT !.local = "synced"], inner)
                                  ELSE ReadFails("protocol")
  /\ Consume /\ UNCHANGED Rest

\* Inner::recv_go_away: no new requests, and those above the identifier fail.
\* What such a stream may still write is a matter of SendFlow.
ReadGoAway ==
  LET refused == IF role = "client" THEN {id \in Ids : id > Arg.id} ELSE {}
  IN  /\ Receives("goAway")
      /\ IF Arg.id > inner.sendMaxId
           THEN ReadFails("protocol")
           ELSE ReadOn([conn EXCEPT !.error = {Arg.reason}],
                       [inner EXCEPT !.connError = TRUE, !.sendMaxId = Arg.id,
                                     !.active = @ \ refused, !.queued = @ \ refused,
                                     !.opening = @ \ refused])
      /\ Consume /\ UNCHANGED Rest

\* Any frame that is a connection error.
ReadBad == Receives("bad") /\ ReadFails("protocol") /\ Consume /\ UNCHANGED Rest

\* The peer closed: recv_eof(false) and Done.
ReadEof ==
  /\ Receives("eof")
  /\ conn' = Closing(conn, "no_error") /\ inner' = FailAll(inner)
  /\ pc' = "shutdown"
  /\ Consume /\ UNCHANGED <<goAway, pings, Rest>>

\* The peer closed within a frame: handle_poll2_result with UnexpectedEof, for
\* which a server, or a client that was told to go, reports no error.
ReadBroken ==
  LET excused == role = "server" \/ conn.error = {"no_error"}
  IN  /\ Receives("broken")
      /\ inner' = FailAll(inner)
      /\ conn' = IF excused THEN [conn EXCEPT !.state = "closed", !.reason = "no_error"]
                            ELSE conn
      /\ exec' = IF excused THEN exec ELSE [exec EXCEPT !.result = "io"]
      /\ pc' = "finished"
      /\ Consume /\ UNCHANGED <<scene, goAway, pings, codec, pinger, peer, log>>

----------------------------------------------------------------------------
(* Pending: Streams::poll_complete, and the end of the poll.  The code      *)
(* holds the lock for as many frames as the codec has room for; here it is *)
(* taken for each, which only adds interleavings.                          *)

\* The last frame of a stream, RST_STREAM for one: it is active no longer.
WriteLastFrame ==
  /\ pc = "complete" /\ HasCapacity
  /\ \E id \in inner.queued \cap inner.active :
       /\ Buffer(Out("end", id))
       /\ inner' = [inner EXCEPT !.active = @ \ {id}, !.queued = @ \ {id}]
  /\ UNCHANGED <<scene, pc, task, pings, net, pinger, peer, log>>

CanOpen(i) == i.opening /= {} /\ Cardinality(i.active) < i.limit

\* pop_pending_open, in the order of identifiers
OpenStream ==
  /\ pc = "complete" /\ HasCapacity /\ CanOpen(inner)
  /\ \E id \in inner.opening :
       /\ \A other \in inner.opening : id <= other
       /\ Buffer(Out("headers", id))
       /\ inner' = [inner EXCEPT !.active = @ \cup {id}, !.opening = @ \ {id}]
  /\ UNCHANGED <<scene, pc, task, pings, net, pinger, peer, log>>

\* BufferStatus::Complete: the task is registered under the same lock.
AllBuffered ==
  /\ pc = "complete" /\ HasCapacity
  /\ inner.queued \cap inner.active = {} /\ ~CanOpen(inner)
  /\ inner' = [inner EXCEPT !.task = TRUE]
  /\ pc' = "flush"
  /\ UNCHANGED <<scene, task, pings, codec, net, pinger, peer, log>>

FlushAll ==
  /\ pc = "flush"
  /\ Flush("idle", "after")
  /\ UNCHANGED <<scene, task, pings, inner, pinger, peer, log>>

\* The check in Connection::poll once everything is flushed.
CheckIdle ==
  LET close == /\ conn.error /= {} \/ ShouldCloseOnIdle(goAway)
               /\ inner.active = {}
  IN  /\ pc = "idle"
      /\ IF close THEN CloseNow(inner, "no_error") /\ pc' = "goAway"
                  ELSE UNCHANGED goAway /\ pc' = "after"
      /\ UNCHANGED <<scene, conn, pings, inner, codec, net, exec, pinger, peer, log>>

\* A client whose last stream or handle went away during the poll wakes itself.
ParkClient ==
  /\ pc = "after" /\ role = "client"
  /\ exec' = [exec EXCEPT !.woken = @ \/ (exec.had /\ ~HasRefs(inner))]
  /\ pc' = "parked"
  /\ UNCHANGED <<Idle, codec, net>>

\* poll_accept gives a new request to the user, who then accepts the next.
ParkServer ==
  /\ pc = "after" /\ role = "server"
  /\ IF inner.accept = {}
       THEN UNCHANGED <<inner, exec>>
       ELSE /\ \E id \in inner.accept : inner' = [inner EXCEPT !.accept = @ \ {id}]
            /\ exec' = [exec EXCEPT !.woken = TRUE]
  /\ pc' = "parked"
  /\ UNCHANGED <<scene, conn, goAway, pings, codec, net, pinger, peer, log>>

\* State::Closing: Codec::shutdown
Shutdown ==
  /\ pc = "shutdown"
  /\ Flush("finished", "after")
  /\ conn' = IF codec'.buf = <<>> THEN [conn EXCEPT !.state = "closed"] ELSE conn
  /\ UNCHANGED <<scene, goAway, pings, inner, exec, pinger, peer, log>>

\* take_error: the peer's error goes before ours.
TakeError(ours, theirs) ==
  CASE theirs \ {"no_error"} /= {} -> "theirs"
    [] theirs \ {"no_error"} = {} /\ ours = "no_error" -> "ok"
    [] OTHER -> ours

\* The poll is over, and its caller drops the connection: recv_eof(true), and
\* UserPingsRx stores USER_STATE_CLOSED before it wakes.
Finish ==
  /\ pc = "finished"
  /\ exec' = [exec EXCEPT !.result =
                IF @ = "none" THEN TakeError(conn.reason, conn.error) ELSE @]
  /\ inner' = [FailAll(inner) EXCEPT !.accept = {}]
  /\ pings' = [pings EXCEPT !.state = "closed"]
  /\ pc' = "dropWake"
  /\ UNCHANGED <<scene, conn, goAway, codec, net, pinger, peer, log>>

WakeOnDrop ==
  /\ pc = "dropWake"
  /\ WakePinger
  /\ pc' = "gone"
  /\ UNCHANGED <<scene, task, inner, codec, net, peer, log>>

----------------------------------------------------------------------------
(* Handles, on other threads.                                              *)

\* The waker in actions.task is taken.
WakeTask(i) ==
  /\ inner' = [i EXCEPT !.task = FALSE]
  /\ exec' = [exec EXCEPT !.woken = @ \/ inner.task]

Others == <<scene, pc, conn, goAway, pings, codec, net, pinger, peer, log>>

\* A server's user answers with END_STREAM and drops its handles: the stream
\* ends with the frame this queues.
FinishStream(id) ==
  /\ role = "server"
  /\ id \in inner.active \ (inner.accept \cup inner.queued)
  /\ WakeTask([inner EXCEPT !.queued = @ \cup {id}])
  /\ UNCHANGED Others

\* SendRequest::send_request, of a request without a body
SendRequest ==
  /\ inner.sender /\ ~inner.connError
  /\ inner.next \in Ids /\ inner.next <= scene.requests
  /\ WakeTask([inner EXCEPT !.next = @ + 1, !.opening = @ \cup {inner.next},
                            !.held = @ \cup {inner.next}])
  /\ UNCHANGED Others

\* drop_stream_ref by a client: an open stream is cancelled by RST_STREAM, a
\* closed one may let the connection close.  One that waits to be opened is
\* cancelled too, but schedule_send does not wake the task for it.
DropHandle(id) ==
  /\ id \in inner.held
  /\ LET dropped == [inner EXCEPT !.held = @ \ {id}]
         cancelled == [dropped EXCEPT !.queued = @ \cup {id}]
     IN  CASE id \in inner.opening -> inner' = cancelled /\ UNCHANGED exec
           [] id \in inner.active -> WakeTask(cancelled)
           [] OTHER -> WakeTask(dropped)
  /\ UNCHANGED Others

\* Drop for Streams: the last SendRequest goes, refs is 1 if no handle is left.
DropSendRequest ==
  /\ inner.sender
  /\ LET dropped == [inner EXCEPT !.sender = FALSE]
     IN  IF inner.held = {} THEN WakeTask(dropped)
                            ELSE inner' = dropped /\ UNCHANGED exec
  /\ UNCHANGED Others

----------------------------------------------------------------------------
(* Calls on a server's Connection, between polls.  The caller polls again.  *)

Call(name) == name \in scene.calls /\ pc = "parked" /\ exec.calls < scene.made

Called == exec' = [exec EXCEPT !.woken = TRUE, !.calls = @ + 1]

\* go_away_gracefully and ping_shutdown
GracefulShutdown ==
  /\ Call("graceful") /\ role = "server"
  /\ ~IsGoingAway(goAway)
  /\ goAway' = SetGoAway(goAway, [id |-> MaxId, reason |-> "no_error"])
  /\ conn' = [conn EXCEPT !.shutdown = "unsent"]
  /\ inner' = [inner EXCEPT !.maxId = MaxId]
  /\ Called
  /\ UNCHANGED <<scene, pc, pings, codec, net, pinger, peer, log>>

\* go_away_from_user
AbruptShutdown(reason) ==
  /\ Call("abrupt") /\ role = "server"
  /\ goAway' = GoAwayFromUser(goAway, GoAwayFrame(inner, reason))
  /\ inner' = FailAll(inner)
  /\ Called
  /\ UNCHANGED <<scene, pc, conn, pings, codec, net, pinger, peer, log>>

\* set_initial_window_size: send_settings, refused while one is under way
SetInitialWindowSize ==
  /\ Call("settings")
  /\ conn.local = "synced"
  /\ conn' = [conn EXCEPT !.local = "toSend"]
  /\ Called
  /\ UNCHANGED <<scene, pc, goAway, pings, inner, codec, net, pinger, peer, log>>

----------------------------------------------------------------------------
(* The user of PING, on its own thread.                                    *)

OnlyPinger == <<scene, pc, conn, goAway, inner, codec, net, peer, log>>

\* UserPings::send_ping: one compare-exchange, then a wake.
SendPing ==
  /\ pinger.at = "idle" /\ pinger.sent < scene.pings
  /\ pc \notin {"handshake", "preface"}
  /\ \/ /\ pings.state = "empty"
        /\ pings' = [pings EXCEPT !.state = "pendingPing"]
        /\ pinger' = [pinger EXCEPT !.at = "wake", !.sent = @ + 1]
     \/ /\ pings.state = "closed"
        /\ pinger' = [pinger EXCEPT !.at = "told"]
        /\ UNCHANGED pings
  /\ UNCHANGED <<exec, OnlyPinger>>

WakeForPing ==
  /\ pinger.at = "wake"
  /\ exec' = [exec EXCEPT !.woken = @ \/ pings.pingTask]
  /\ pings' = [pings EXCEPT !.pingTask = FALSE]
  /\ pinger' = [pinger EXCEPT !.at = "register"]
  /\ UNCHANGED OnlyPinger

\* poll_pong registers first, then looks.
RegisterForPong ==
  /\ \/ pinger.at = "register"
     \/ pinger.at = "asleep" /\ pinger.woken
  /\ pings' = [pings EXCEPT !.pongTask = TRUE]
  /\ pinger' = [pinger EXCEPT !.at = "check", !.woken = FALSE]
  /\ UNCHANGED <<exec, OnlyPinger>>

CheckPong ==
  /\ pinger.at = "check"
  /\ pings' = [pings EXCEPT !.state = IF @ = "receivedPong" THEN "empty" ELSE @]
  /\ pinger' = [pinger EXCEPT !.at =
                  CASE pings.state = "receivedPong" -> "idle"
                    [] pings.state = "closed" -> "told"
                    [] OTHER -> "asleep"]
  /\ UNCHANGED <<exec, OnlyPinger>>

----------------------------------------------------------------------------
(* The peer and the transport.                                             *)

\* The transport takes up or delivers frames and wakes the task if it waits
\* for that; it is dropped with the connection.
Transport(out, frames) ==
  LET fired == codec.wants \cap
                 ((IF out /= net.out THEN {"write"} ELSE {}) \cup
                  (IF frames /= <<>> THEN {"read"} ELSE {}))
  IN  /\ pc /= "gone"
      /\ net' = [out |-> out, in |-> net.in \o frames]
      /\ codec' = [codec EXCEPT !.wants = @ \ fired]
      /\ exec' = [exec EXCEPT !.woken = @ \/ fired /= {}]

PeerOnly == <<scene, pc, conn, goAway, pings, inner, pinger, log>>

\* SETTINGS and PING are answered in turn.
Replies(frame) ==
  CASE peer.done -> <<>>
    [] ~peer.done /\ frame.kind = "settings" -> <<In("ack", 0)>>
    [] ~peer.done /\ frame.kind = "ping" -> <<In("pong", frame.arg)>>
    [] OTHER -> <<>>

PeerReads ==
  /\ net.out /= <<>>
  /\ LET frame == Head(net.out)
     IN  /\ Transport(Tail(net.out), Replies(frame))
         /\ peer' = [peer EXCEPT
                       !.acked = IF frame.kind = "ack" THEN @ + 1 ELSE @,
                       !.opened = CASE frame.kind = "headers" -> @ \cup {frame.arg}
                                    [] frame.kind = "end" -> @ \ {frame.arg}
                                    [] OTHER -> @]
  /\ UNCHANGED PeerOnly

\* A client's request is answered.
PeerAnswers(id) ==
  /\ id \in peer.opened /\ ~peer.done
  /\ Transport(net.out, <<In("response", id)>>)
  /\ peer' = [peer EXCEPT !.opened = @ \ {id}]
  /\ UNCHANGED PeerOnly

MaySend(kind) ==
  /\ kind \in scene.frames /\ peer.sent < scene.sends
  /\ ~peer.done /\ Len(net.in) < InRoom

PeerSends(kind, arg) == MaySend(kind) /\ Transport(net.out, <<In(kind, arg)>>)

PeerOpens ==
  /\ role = "server" /\ peer.next \in Ids
  /\ PeerSends("headers", peer.next)
  /\ peer' = [peer EXCEPT !.sent = @ + 1, !.next = @ + 1]
  /\ UNCHANGED PeerOnly

PeerResets(id) ==
  /\ role = "server" /\ id < peer.next /\ PeerSends("reset", id)
  /\ peer' = [peer EXCEPT !.sent = @ + 1]
  /\ UNCHANGED PeerOnly

\* A PING, or the answer to none of ours.
PeerPings ==
  /\ PeerSends("ping", 0) \/ PeerSends("pong", "other")
  /\ peer' = [peer EXCEPT !.sent = @ + 1]
  /\ UNCHANGED PeerOnly

PeerChangesSettings(limit) ==
  /\ PeerSends("settings", limit)
  /\ peer' = [peer EXCEPT !.sent = @ + 1, !.epoch = @ + 1]
  /\ UNCHANGED PeerOnly

\* The identifiers of a peer's GOAWAY frames do not go up.
PeerGoesAway(id, reason) ==
  /\ id <= peer.mine
  /\ PeerSends("goAway", [id |-> id, reason |-> reason])
  /\ peer' = [peer EXCEPT !.sent = @ + 1, !.mine = id]
  /\ UNCHANGED PeerOnly

PeerBreaksRules ==
  /\ PeerSends("bad", 0)
  /\ peer' = [peer EXCEPT !.sent = @ + 1, !.broke = TRUE]
  /\ UNCHANGED PeerOnly

PeerCloses(kind) ==
  /\ PeerSends(kind, 0)
  /\ peer' = [peer EXCEPT !.sent = @ + 1, !.done = TRUE]
  /\ UNCHANGED PeerOnly

----------------------------------------------------------------------------
Read ==
  \/ ReadNothing \/ ReadHeaders \/ ReadReset \/ ReadResponse \/ ReadPing
  \/ ReadShutdownPong \/ ReadUserPong \/ ReadUnknownPong \/ ReadSettings
  \/ ReadSettingsAck \/ ReadGoAway \/ ReadBad \/ ReadEof \/ ReadBroken

Duties ==
  \/ SendGoAway \/ CloseAfterGoAway \/ SendPong \/ SendShutdownPing
  \/ SendUserPing \/ NoUserPing \/ RegisterPing
  \/ SendSettingsAck \/ SendLocalSettings \/ SendRefusal

Complete ==
  \/ WriteLastFrame \/ OpenStream \/ AllBuffered \/ FlushAll \/ CheckIdle
  \/ ParkClient \/ ParkServer

\* The connection task, as the executor runs it.
Task ==
  \/ Handshake \/ ReadPreface \/ BadPreface \/ StartPoll \/ CheckReferences
  \/ MakeRoom \/ Duties \/ Read \/ WakePong \/ Complete \/ Shutdown
  \/ Finish \/ WakeOnDrop

Handles ==
  \/ \E id \in Ids : FinishStream(id) \/ DropHandle(id)
  \/ SendRequest \/ DropSendRequest

Calls ==
  \/ GracefulShutdown \/ SetInitialWindowSize
  \/ \E reason \in scene.reasons : AbruptShutdown(reason)

Pinger == SendPing \/ WakeForPing \/ RegisterForPong \/ CheckPong

Peer ==
  \/ PeerReads \/ PeerOpens \/ PeerPings \/ PeerBreaksRules
  \/ \E id \in Ids : PeerAnswers(id) \/ PeerResets(id)
  \/ \E limit \in Limits : PeerChangesSettings(limit)
  \/ \E id \in 0 .. MaxId, reason \in scene.reasons : PeerGoesAway(id, reason)
  \/ \E kind \in {"eof", "broken"} : PeerCloses(kind)

Next == Task \/ Handles \/ Calls \/ Pinger \/ Peer

\* The executor runs a task that is woken, a thread that was started goes on,
\* the peer reads what reaches it and answers, and a server's user answers the
\* requests it was given.  Nobody has to send, call or drop anything.
Fairness ==
  /\ WF_vars(Task)
  /\ WF_vars(WakeForPing \/ RegisterForPong \/ CheckPong)
  /\ WF_vars(PeerReads) /\ WF_vars(\E id \in Ids : PeerAnswers(id))
  /\ WF_vars(\E id \in Ids : FinishStream(id))

Spec == Init /\ [][Next]_vars

FairSpec == Spec /\ Fairness

----------------------------------------------------------------------------
(* Properties.                                                             *)

TypeOK ==
  /\ scene \in Scenes /\ pc \in PC
  /\ conn \in [state : {"open", "closing", "closed"}, reason : Reasons,
               error : AtMostOne(Reasons), refusal : AtMostOne(Ids),
               shutdown : {"none", "unsent", "sent"}, pong : BOOLEAN,
               local : {"toSend", "waitingAck", "synced"},
               remote : AtMostOne(Limits), initial : BOOLEAN]
  /\ goAway \in GoAways
  /\ pings \in [state : PingStates, pingTask : BOOLEAN, pongTask : BOOLEAN]
  /\ inner \in [task : BOOLEAN, connError : BOOLEAN, last : 0 .. MaxId,
                maxId : 0 .. MaxId, next : Nat, sendMaxId : 0 .. MaxId,
                limit : Nat, refusals : 0 .. MaxRefusals, active : SUBSET Ids,
                accept : SUBSET Ids, queued : SUBSET Ids, opening : SUBSET Ids,
                held : SUBSET Ids, sender : BOOLEAN]

\* What the asserts of the code say: a duty is done before the frame that
\* brings the next one is read (ping_pong.rs recv_ping, settings.rs
\* recv_settings, connection.rs poll2); the shutdown PING is only under way
\* during a GOAWAY; identifiers of GOAWAY never go up (go_away.rs, recv.rs
\* go_away); and a GOAWAY that does not close says NO_ERROR.
AssertionsHold ==
  /\ pc = "read" => /\ ~conn.pong /\ conn.remote = {} /\ conn.refusal = {}
                    /\ ~goAway.closeNow /\ goAway.pending = {}
  /\ conn.shutdown /= "none" => IsGoingAway(goAway)
  /\ MayGoAway(goAway, inner.last) /\ inner.last <= inner.maxId
  /\ goAway.pending /= {} /\ ~goAway.closeNow =>
       \A f \in goAway.pending : f.reason = "no_error"
  /\ ~IsGoingAway(goAway) => inner.maxId = MaxId /\ conn.shutdown = "none"

\* A GOAWAY tells the peer which of its requests were never processed, so
\* that it may repeat them elsewhere: whatever is read afterwards, in
\* whatever state the shutdown is, no stream above an identifier that was
\* told is processed.
RetryIsSafe == inner.last <= log.told

\* The peer's SETTINGS take effect in order: a frame is only read when all
\* SETTINGS the peer sent before it are in force, and what the peer sees
\* acknowledged is what is in force.
SettingsInOrder ==
  /\ pc = "read" /\ net.in /= <<>> => Head(net.in).epoch = log.applied
  /\ peer.acked <= log.applied

\* A peer that follows the protocol is never accused of breaking it, whichever
\* of its frames cross a GOAWAY, a refusal or SETTINGS of ours.
NeverAccused ==
  ~peer.broke => /\ \A f \in goAway.going : f.reason /= "protocol"
                 /\ exec.result /= "protocol"

\* Nobody can use a client's connection any more.
Unused == role = "client" /\ ~inner.sender /\ inner.held = {}

\* The connection ends once a GOAWAY is due, if the streams do, and a client's
\* when nobody can use it any more: whatever frames arrive meanwhile, however
\* often the transport blocks, wherever in a poll the last handle is dropped.
EndsWhenDue == (IsGoingAway(goAway) \/ Unused) ~> (pc = "gone")

\* send_ping promises a PING: the user is answered, or told that the
\* connection is closed.  (The connection task looks at the state before it
\* registers, so a wake in between is lost.)
PingAnswered == (pinger.at = "wake") ~> (pinger.at \in {"idle", "told"})

\* Once the PING is sent its answer reaches the user, between whichever of its
\* own steps the answer, or the end of the connection, comes in.
PongDelivered ==
  (pings.state \in {"pendingPong", "receivedPong"}) ~> (pinger.at \in {"idle", "told"})

\* The peer's SETTINGS are acknowledged.
SettingsAcknowledged ==
  (peer.acked < peer.epoch) ~> (peer.acked = peer.epoch \/ pc = "gone")
=============================================================================
