-------------------------- MODULE Connection_proofs --------------------------
(***************************************************************************)
(* Theorems about Connection, for any limits, codec, transport and scenes. *)
(*                                                                         *)
(* The inductive invariant IInv has three parts.  Types says what each     *)
(* variable holds, frames under way included.  Ordered says which duties   *)
(* are done once the task is at a later one, so that nothing is left when  *)
(* a frame is read.  Announced relates what was told or is about to be     *)
(* told in a GOAWAY to the streams that are and may still be processed.    *)
(* The last two are operators of the values they speak of.                 *)
(*                                                                         *)
(* NeverAccused needs more: AInv, at the end, adds to IInv what a peer     *)
(* that keeps the protocol has put on the wire.                            *)
(***************************************************************************)
EXTENDS Connection, SequenceTheorems, TLAPS

Connections ==
  [state : {"open", "closing", "closed"}, reason : Reasons,
   error : AtMostOne(Reasons), refusal : AtMostOne(Ids),
   shutdown : {"none", "unsent", "sent"}, pong : BOOLEAN,
   local : {"toSend", "waitingAck", "synced"},
   remote : AtMostOne(Limits), initial : BOOLEAN]

Inners ==
  [task : BOOLEAN, connError : BOOLEAN, last : 0 .. MaxId,
   maxId : 0 .. MaxId, next : Nat, sendMaxId : 0 .. MaxId,
   limit : Nat, refusals : 0 .. MaxRefusals, active : SUBSET Ids,
   accept : SUBSET Ids, queued : SUBSET Ids, opening : SUBSET Ids,
   held : SUBSET Ids, sender : BOOLEAN]

PingsSet == [state : PingStates, pingTask : BOOLEAN, pongTask : BOOLEAN]

OutFrames ==
  [kind : {"settings", "ack", "pong"}, arg : {0}]
  \cup [kind : {"ping"}, arg : {"shutdown", "user"}]
  \cup [kind : {"goAway"}, arg : GoAwayFrames]
  \cup [kind : {"reset", "headers", "end"}, arg : Ids]

InFrames ==
  [kind : {"headers", "reset", "response"}, arg : Ids, epoch : Nat]
  \cup [kind : {"settings"}, arg : Limits, epoch : Nat]
  \cup [kind : {"pong"}, arg : {"shutdown", "user", "other"}, epoch : Nat]
  \cup [kind : {"goAway"}, arg : GoAwayFrames, epoch : Nat]
  \cup [kind : {"ack", "ping", "bad", "eof", "broken"}, arg : {0}, epoch : Nat]

Codecs == [buf : Seq(OutFrames), wants : SUBSET {"read", "write"}]

\* The transport never holds more than it has room for, which is why Flush may
\* take the room for a number of frames.
Nets == {n \in [out : Seq(OutFrames), in : Seq(InFrames)] : Len(n.out) <= WireRoom}

Peers ==
  [epoch : Nat, acked : Nat, sent : Nat, next : Nat, opened : SUBSET Ids,
   mine : 0 .. MaxId, broke : BOOLEAN, done : BOOLEAN]

Logs == [told : 0 .. MaxId, applied : Nat]

Types ==
  /\ scene \in Scenes /\ pc \in PC
  /\ conn \in Connections /\ goAway \in GoAways /\ pings \in PingsSet
  /\ inner \in Inners
  /\ codec \in Codecs /\ net \in Nets /\ peer \in Peers /\ log \in Logs

\* Once the task is past a duty, that duty is done.
Ordered(p, c, g) ==
  /\ p \in {"pong", "ping", "register", "settings", "local", "refuse", "read", "wakePong"}
       => g.pending = {} /\ ~g.closeNow
  /\ p \in {"ping", "register", "settings", "local", "refuse", "read", "wakePong"} => ~c.pong
  /\ p \in {"local", "refuse", "read", "wakePong"} => c.remote = {}
  /\ p \in {"read", "wakePong"} => c.refusal = {}

\* No stream above what was told, or will be, is processed or may yet be; only
\* once the connection closes may some be processed that could still be told.
Announced(c, g, i, l) ==
  /\ g.pending \subseteq g.going
  /\ c.shutdown /= "none" => g.going /= {}
  /\ g.going = {} => i.maxId = MaxId /\ ~g.closeNow /\ l.told = MaxId
  /\ i.last <= i.maxId /\ i.last <= l.told
  /\ \A f \in g.going : i.last <= f.id
  /\ ~g.closeNow =>
       /\ i.maxId <= l.told
       /\ \A f \in g.going : i.maxId <= f.id /\ f.reason = "no_error"

IInv ==
  /\ Types
  /\ Ordered(pc, conn, goAway)
  /\ Announced(conn, goAway, inner, log)

----------------------------------------------------------------------------
(* What the helpers return.                                                *)

LEMMA OneAtMost ==
  ASSUME NEW S
  PROVE  /\ {} \in AtMostOne(S)
         /\ \A x \in S : {x} \in AtMostOne(S)
         /\ \A T \in AtMostOne(S) : T \subseteq S
         /\ \A T \in AtMostOne(S) : \A x \in T : T = {x}
  BY DEF AtMostOne

LEMMA FrameTyped ==
  ASSUME NEW i \in Inners, NEW reason \in Reasons
  PROVE  GoAwayFrame(i, reason) \in GoAwayFrames
  BY DEF GoAwayFrame, GoAwayFrames, Inners

LEMMA FramesOfGoAway ==
  ASSUME NEW g \in GoAways, NEW f \in g.going \cup g.pending
  PROVE  f \in GoAwayFrames /\ f.id \in 0 .. MaxId /\ f.reason \in Reasons
<1>1. g.going \in AtMostOne(GoAwayFrames) /\ g.pending \in AtMostOne(GoAwayFrames)
  BY DEF GoAways
<1>2. g.going \subseteq GoAwayFrames /\ g.pending \subseteq GoAwayFrames
  BY <1>1, OneAtMost
<1>3. f \in GoAwayFrames
  BY <1>2
<1> QED
  BY <1>3 DEF GoAwayFrames

\* SetGoAway leaves one frame, to be sent, and does not close.
LEMMA SetGoAwaySets ==
  ASSUME NEW g \in GoAways, NEW f \in GoAwayFrames
  PROVE  /\ SetGoAway(g, f) \in GoAways
         /\ SetGoAway(g, f).going = {f}
         /\ SetGoAway(g, f).pending = {f}
         /\ SetGoAway(g, f).closeNow = g.closeNow
<1>1. {f} \in AtMostOne(GoAwayFrames)
  BY OneAtMost
<1> QED
  BY <1>1 DEF SetGoAway, GoAways

\* GoAwayNow always closes, with the frame it was given as the last one.
LEMMA GoAwayNowCloses ==
  ASSUME NEW g \in GoAways, NEW f \in GoAwayFrames, g.pending \subseteq g.going
  PROVE  /\ GoAwayNow(g, f) \in GoAways
         /\ GoAwayNow(g, f).going = {f}
         /\ GoAwayNow(g, f).pending \subseteq {f}
         /\ GoAwayNow(g, f).closeNow
<1> DEFINE now == [g EXCEPT !.closeNow = TRUE]
<1>1. now \in GoAways /\ now.going = g.going /\ now.pending = g.pending /\ now.closeNow
  BY DEF GoAways
<1>2. CASE f \in g.going
  <2>1. g.going = {f}
    BY <1>2, OneAtMost DEF GoAways
  <2> QED
    BY <1>1, <1>2, <2>1 DEF GoAwayNow
<1>3. CASE f \notin g.going
  <2>1. GoAwayNow(g, f) = SetGoAway(now, f)
    BY <1>3 DEF GoAwayNow
  <2> QED
    BY <1>1, <2>1, SetGoAwaySets
<1> QED
  BY <1>2, <1>3

LEMMA FailAllKeeps ==
  ASSUME NEW i \in Inners
  PROVE  /\ FailAll(i) \in Inners
         /\ FailAll(i).last = i.last
         /\ FailAll(i).maxId = i.maxId
  BY DEF FailAll, Inners

LEMMA ClosingKeeps ==
  ASSUME NEW c \in Connections, NEW reason \in Reasons
  PROVE  /\ Closing(c, reason) \in Connections
         /\ Closing(c, reason).shutdown = c.shutdown
  BY DEF Closing, Connections

\* The duties are worked through in order: the one picked next has all the
\* earlier ones behind it.
LEMMA TurnInOrder ==
  ASSUME NEW c \in Connections, NEW g, g.pending = {}, ~g.closeNow, ~c.pong
  PROVE  Turn(c) \in PC /\ Ordered(Turn(c), c, g)
  BY DEF Turn, Ordered, PC, Connections

LEMMA PingingInOrder ==
  ASSUME NEW c \in Connections, NEW g, g.pending = {}, ~g.closeNow, ~c.pong
  PROVE  Pinging(c) \in PC /\ Ordered(Pinging(c), c, g)
<1>1. Ordered("ping", c, g)
  BY DEF Ordered
<1>2. "ping" \in PC
  BY DEF PC
<1> QED
  BY <1>1, <1>2, TurnInOrder DEF Pinging

LEMMA DutyInOrder ==
  ASSUME NEW c \in Connections, NEW g \in GoAways
  PROVE  Duty(c, g) \in PC /\ Ordered(Duty(c, g), c, g)
<1>1. CASE g.pending /= {} \/ g.closeNow
  BY <1>1 DEF Duty, Ordered, PC
<1>2. CASE g.pending = {} /\ ~g.closeNow /\ c.pong
  BY <1>2 DEF Duty, Ordered, PC
<1>3. CASE g.pending = {} /\ ~g.closeNow /\ ~c.pong
  BY <1>3, PingingInOrder DEF Duty
<1> QED
  BY <1>1, <1>2, <1>3

LEMMA ResumeInOrder ==
  ASSUME NEW c \in Connections, NEW g \in GoAways
  PROVE  Resume(c, g) \in PC /\ Ordered(Resume(c, g), c, g)
<1>1. CASE c.state = "open"
  BY <1>1, DutyInOrder DEF Resume
<1>2. CASE c.state \in {"closing", "closed"}
  BY <1>2 DEF Resume, Ordered, PC
<1> QED
  BY <1>1, <1>2 DEF Connections

\* Ordered asks nothing of the task where a poll begins or ends.
LEMMA UnorderedElsewhere ==
  ASSUME NEW c, NEW g,
         NEW p \in {"handshake", "preface", "parked", "check", "goAway", "complete",
                    "flush", "idle", "after", "shutdown", "finished", "dropWake",
                    "gone"}
  PROVE  p \in PC /\ Ordered(p, c, g)
  BY DEF Ordered, PC

----------------------------------------------------------------------------
(* Announced, by what a step changes.                                      *)

\* It reads two fields of the connection and the streams.
LEMMA AnnouncedReads ==
  ASSUME NEW c, NEW g, NEW i, NEW l, NEW c2, NEW i2,
         Announced(c, g, i, l),
         c2.shutdown = c.shutdown, i2.last = i.last, i2.maxId = i.maxId
  PROVE  Announced(c2, g, i2, l)
  BY DEF Announced

\* A GOAWAY that closes tells the last stream.
LEMMA AnnouncedByClosing ==
  ASSUME NEW c, NEW g \in GoAways, NEW i \in Inners, NEW l, NEW reason \in Reasons,
         Announced(c, g, i, l)
  PROVE  /\ GoAwayNow(g, GoAwayFrame(i, reason)) \in GoAways
         /\ Announced(c, GoAwayNow(g, GoAwayFrame(i, reason)), i, l)
<1> DEFINE f == GoAwayFrame(i, reason)
<1>1. g.pending \subseteq g.going
  BY DEF Announced
<1>2. f \in GoAwayFrames /\ f.id = i.last
  BY FrameTyped DEF GoAwayFrame
<1> HIDE DEF f
<1>3. /\ GoAwayNow(g, f) \in GoAways
      /\ GoAwayNow(g, f).going = {f}
      /\ GoAwayNow(g, f).pending \subseteq {f}
      /\ GoAwayNow(g, f).closeNow
  BY <1>1, <1>2, GoAwayNowCloses
<1>4. i.last \in Nat
  BY GoAwayAssumption DEF Inners
<1>5. Announced(c, GoAwayNow(g, f), i, l)
  BY <1>2, <1>3, <1>4 DEF Announced
<1> QED
  BY <1>3, <1>5 DEF f

----------------------------------------------------------------------------
(* Frames under way.                                                       *)

LEMMA BufferTyped ==
  ASSUME codec \in Codecs, NEW frame \in OutFrames, Buffer(frame)
  PROVE  codec' \in Codecs
<1>1. codec.buf \in Seq(OutFrames)
  BY DEF Codecs
<1>2. Append(codec.buf, frame) \in Seq(OutFrames)
  BY <1>1, AppendProperties
<1> QED
  BY <1>2 DEF Codecs, Buffer

LEMMA FlushTyped ==
  ASSUME codec \in Codecs, net \in Nets, NEW done, NEW blocked, Flush(done, blocked)
  PROVE  codec' \in Codecs /\ net' \in Nets /\ pc' \in {done, blocked}
<1> DEFINE room == WireRoom - Len(net.out)
           n == IF Len(codec.buf) <= room THEN Len(codec.buf) ELSE room
           rest == SubSeq(codec.buf, n + 1, Len(codec.buf))
           written == SubSeq(codec.buf, 1, n)
<1>1. codec.buf \in Seq(OutFrames) /\ net.out \in Seq(OutFrames)
  BY DEF Codecs, Nets
<1>2. Len(codec.buf) \in Nat /\ Len(net.out) \in Nat
  BY <1>1, LenProperties
<1>3. n \in 0 .. Len(codec.buf) /\ n <= WireRoom - Len(net.out)
  <2>1. room \in Nat
    BY <1>2, ConnectionAssumption DEF Nets
  <2> QED
    BY <1>2, <2>1
<1> HIDE DEF n
<1>4. rest \in Seq(OutFrames) /\ written \in Seq(OutFrames) /\ Len(written) <= n
  <2>1. \A j \in 1 .. Len(codec.buf) : codec.buf[j] \in OutFrames
    BY <1>1, ElementOfSeq
  <2>2. rest \in Seq(OutFrames)
    BY <1>2, <1>3, <2>1, SubSeqProperties
  <2>3. written \in Seq(OutFrames) /\ Len(written) <= n
    BY <1>2, <1>3, <2>1, SubSeqProperties
  <2> QED
    BY <2>2, <2>3
<1> HIDE DEF rest, written
<1>5. /\ net.out \o written \in Seq(OutFrames)
      /\ Len(net.out \o written) <= WireRoom
  <2>1. /\ net.out \o written \in Seq(OutFrames)
        /\ Len(net.out \o written) = Len(net.out) + Len(written)
    BY <1>1, <1>4, ConcatProperties
  <2>2. Len(written) \in Nat
    BY <1>4, LenProperties
  <2>3. n \in Nat /\ WireRoom \in Nat
    BY <1>2, <1>3, ConnectionAssumption
  <2>4. Len(net.out) + Len(written) <= WireRoom
    BY <1>2, <1>3, <1>4, <2>2, <2>3
  <2> QED
    BY <2>1, <2>4
<1>6. /\ net' = [net EXCEPT !.out = net.out \o written]
      /\ codec' = [buf |-> rest, wants |-> IF rest = <<>> THEN codec.wants
                                           ELSE codec.wants \cup {"write"}]
      /\ pc' = IF rest = <<>> THEN done ELSE blocked
  BY DEF Flush, n, rest, written
<1>7. codec' \in Codecs
  BY <1>4, <1>6 DEF Codecs
<1>8. net' \in Nets
  BY <1>5, <1>6 DEF Nets
<1> QED
  BY <1>6, <1>7, <1>8

LEMMA ReceivedTyped ==
  ASSUME net \in Nets, NEW kind, Receives(kind)
  PROVE  /\ Head(net.in) \in InFrames /\ Head(net.in).kind = kind
         /\ net.in /= <<>>
  BY DEF Nets, Receives

LEMMA ConsumeTyped ==
  ASSUME net \in Nets, net.in /= <<>>, Consume
  PROVE  net' \in Nets
<1>1. Tail(net.in) \in Seq(InFrames)
  BY HeadTailProperties DEF Nets
<1> QED
  BY <1>1 DEF Nets, Consume

LEMMA TransportTyped ==
  ASSUME codec \in Codecs, net \in Nets, NEW out \in Seq(OutFrames),
         Len(out) <= WireRoom, NEW frames \in Seq(InFrames), Transport(out, frames)
  PROVE  codec' \in Codecs /\ net' \in Nets
<1>1. net.in \o frames \in Seq(InFrames)
  BY ConcatProperties DEF Nets
<1>2. net' = [out |-> out, in |-> net.in \o frames]
  BY DEF Transport
<1>3. \E S : codec' = [codec EXCEPT !.wants = @ \ S]
  BY DEF Transport
<1> QED
  BY <1>1, <1>2, <1>3 DEF Nets, Codecs

----------------------------------------------------------------------------
(* Kinds of steps.                                                         *)

\* A step of another thread, or one in which the task stays at its duty.
LEMMA AsideKeeps ==
  ASSUME IInv, UNCHANGED <<scene, pc, conn, goAway, log>>,
         inner' \in Inners, inner'.last = inner.last, inner'.maxId = inner.maxId,
         pings' \in PingsSet, codec' \in Codecs, net' \in Nets, peer' \in Peers
  PROVE  IInv'
<1>1. Types'
  BY DEF IInv, Types
<1>2. Ordered(pc', conn', goAway')
  BY DEF IInv
<1>3. Announced(conn', goAway', inner', log')
  BY AnnouncedReads DEF IInv
<1> QED
  BY <1>1, <1>2, <1>3 DEF IInv

\* A step of the task that leaves GOAWAY, the streams and the log alone.
LEMMA MoveKeeps ==
  ASSUME IInv, UNCHANGED <<scene, goAway, inner, log>>,
         pc' \in PC, Ordered(pc', conn', goAway),
         conn' \in Connections, conn'.shutdown = conn.shutdown,
         pings' \in PingsSet, codec' \in Codecs, net' \in Nets, peer' \in Peers
  PROVE  IInv'
<1>1. Types'
  BY DEF IInv, Types
<1>2. Announced(conn', goAway', inner', log')
  BY AnnouncedReads DEF IInv
<1> QED
  BY <1>1, <1>2 DEF IInv

\* A frame is read, and the loop goes on.
LEMMA ReadOnKeeps ==
  ASSUME IInv, NEW kind, Receives(kind), NEW c \in Connections, NEW i \in Inners,
         c.shutdown = conn.shutdown, ReadOn(c, i), Consume, UNCHANGED Rest,
         Announced(c, goAway, i, log)
  PROVE  IInv'
<1>1. net' \in Nets
  BY ReceivedTyped, ConsumeTyped DEF IInv, Types
<1>2. pc' \in PC /\ Ordered(pc', conn', goAway')
  BY DutyInOrder DEF ReadOn, IInv, Types
<1>3. Types'
  BY <1>1, <1>2 DEF IInv, Types, ReadOn, Rest
<1>4. Announced(conn', goAway', inner', log')
  BY DEF ReadOn, Rest
<1> QED
  BY <1>2, <1>3, <1>4 DEF IInv

\* The connection fails: nothing is read any more.
LEMMA ConnectionErrorKeeps ==
  ASSUME IInv, NEW reason \in Reasons, ConnectionError(conn, inner, reason),
         UNCHANGED <<scene, log>>,
         pings' \in PingsSet, codec' \in Codecs, net' \in Nets, peer' \in Peers
  PROVE  IInv'
<1>1. CASE \E f \in goAway.going : f.reason = reason
  <2>1. /\ conn' = Closing(conn, reason) /\ inner' = inner
        /\ pc' = "shutdown" /\ goAway' = goAway
    BY <1>1 DEF ConnectionError
  <2> QED
    BY <2>1, MoveKeeps, ClosingKeeps, UnorderedElsewhere DEF IInv, Types
<1>2. CASE ~\E f \in goAway.going : f.reason = reason
  <2>1. /\ conn' = conn /\ inner' = FailAll(inner) /\ pc' = "goAway"
        /\ goAway' = GoAwayNow(goAway, GoAwayFrame(inner, reason))
    BY <1>2 DEF ConnectionError, CloseNow
  <2>2. goAway' \in GoAways /\ Announced(conn, goAway', inner, log)
    BY <2>1, AnnouncedByClosing DEF IInv, Types
  <2>3. /\ inner' \in Inners
        /\ inner'.last = inner.last /\ inner'.maxId = inner.maxId
    BY <2>1, FailAllKeeps DEF IInv, Types
  <2>4. Announced(conn', goAway', inner', log')
    BY <2>1, <2>2, <2>3, AnnouncedReads
  <2>5. Types' /\ Ordered(pc', conn', goAway')
    BY <2>1, <2>2, <2>3, UnorderedElsewhere DEF IInv, Types
  <2> QED
    BY <2>4, <2>5 DEF IInv
<1> QED
  BY <1>1, <1>2

LEMMA ReadFailsKeeps ==
  ASSUME IInv, NEW kind, Receives(kind), NEW reason \in Reasons, ReadFails(reason),
         Consume, UNCHANGED Rest
  PROVE  IInv'
<1>1. net' \in Nets
  BY ReceivedTyped, ConsumeTyped DEF IInv, Types
<1> QED
  BY <1>1, ConnectionErrorKeeps DEF IInv, Types, ReadFails, Rest

----------------------------------------------------------------------------
(* Other threads and the peer.                                             *)

LEMMA HandlesKeep == ASSUME IInv, Handles PROVE IInv'
<1>1. /\ inner \in Inners /\ codec' = codec /\ net' = net /\ peer' = peer /\ pings' = pings
      /\ UNCHANGED <<scene, pc, conn, goAway, log>>
  BY DEF IInv, Types, Handles, FinishStream, DropHandle, SendRequest, DropSendRequest, Others
<1>2. inner' \in Inners /\ inner'.last = inner.last /\ inner'.maxId = inner.maxId
  <2>1. \A i \in Inners : WakeTask(i) => /\ inner' \in Inners
                                        /\ inner'.last = i.last /\ inner'.maxId = i.maxId
    BY DEF WakeTask, Inners
  <2>2. CASE \E id \in Ids : FinishStream(id)
    <3> DEFINE queue(id) == [inner EXCEPT !.queued = @ \cup {id}]
    <3>1. \A id \in Ids : /\ queue(id) \in Inners
                          /\ queue(id).last = inner.last /\ queue(id).maxId = inner.maxId
      BY <1>1 DEF Inners
    <3> QED
      BY <2>1, <2>2, <3>1 DEF FinishStream
  <2>3. CASE \E id \in Ids : DropHandle(id)
    <3> DEFINE dropped(id) == [inner EXCEPT !.held = @ \ {id}]
               cancelled(id) == [dropped(id) EXCEPT !.queued = @ \cup {id}]
    <3>1. \A id \in Ids : /\ dropped(id) \in Inners /\ cancelled(id) \in Inners
                          /\ dropped(id).last = inner.last
                          /\ dropped(id).maxId = inner.maxId
                          /\ cancelled(id).last = inner.last
                          /\ cancelled(id).maxId = inner.maxId
      BY <1>1 DEF Inners
    <3>2. PICK id \in Ids : DropHandle(id)
      BY <2>3
    <3>3. \/ inner' = cancelled(id)
          \/ WakeTask(cancelled(id))
          \/ WakeTask(dropped(id))
      BY <3>2 DEF DropHandle
    <3> HIDE DEF dropped, cancelled
    <3> QED
      BY <2>1, <3>1, <3>3
  <2>4. CASE SendRequest
    <3> DEFINE sent == [inner EXCEPT !.next = @ + 1, !.opening = @ \cup {inner.next},
                                     !.held = @ \cup {inner.next}]
    <3>1. inner.next \in Ids /\ inner.next + 1 \in Nat
      BY <1>1, <2>4 DEF SendRequest, Inners
    <3>2. sent \in Inners /\ sent.last = inner.last /\ sent.maxId = inner.maxId
      BY <1>1, <3>1 DEF Inners
    <3>3. WakeTask(sent)
      BY <2>4 DEF SendRequest
    <3> HIDE DEF sent
    <3> QED
      BY <2>1, <3>2, <3>3
  <2>5. CASE DropSendRequest
    <3> DEFINE dropped == [inner EXCEPT !.sender = FALSE]
    <3>1. dropped \in Inners /\ dropped.last = inner.last /\ dropped.maxId = inner.maxId
      BY <1>1 DEF Inners
    <3>2. WakeTask(dropped) \/ inner' = dropped
      BY <2>5 DEF DropSendRequest
    <3> QED
      BY <2>1, <3>1, <3>2
  <2> QED
    BY <2>2, <2>3, <2>4, <2>5 DEF Handles
<1> QED
  BY <1>1, <1>2, AsideKeeps DEF IInv, Types

LEMMA PingerKeeps == ASSUME IInv, Pinger PROVE IInv'
<1>1. UNCHANGED <<OnlyPinger>>
  BY DEF Pinger, SendPing, WakeForPing, RegisterForPong, CheckPong
<1>2. pings' \in PingsSet
  BY DEF IInv, Types, PingsSet, PingStates, Pinger, SendPing, WakeForPing, RegisterForPong,
         CheckPong
<1> QED
  BY <1>1, <1>2, AsideKeeps DEF IInv, Types, OnlyPinger

LEMMA PeerReadsKeeps == ASSUME IInv, PeerReads PROVE IInv'
<1> DEFINE frame == Head(net.out)
<1>1. codec \in Codecs /\ net \in Nets /\ peer \in Peers
  BY DEF IInv, Types
<1>2. net.out \in Seq(OutFrames) /\ net.out /= <<>>
  BY <1>1 DEF PeerReads, Nets
<1>3. frame \in OutFrames /\ Tail(net.out) \in Seq(OutFrames)
  BY <1>2, HeadTailProperties
<1>4. Len(Tail(net.out)) <= WireRoom
  <2>1. Len(Tail(net.out)) = Len(net.out) - 1 /\ Len(net.out) \in Nat
    BY <1>2, HeadTailProperties, LenProperties
  <2>2. Len(net.out) <= WireRoom
    BY <1>1 DEF Nets
  <2> QED
    BY <2>1, <2>2, ConnectionAssumption
<1> HIDE DEF frame
<1>5. Replies(frame) \in Seq(InFrames)
  <2>1. In("ack", 0) \in InFrames
    BY <1>1 DEF In, InFrames, Peers
  <2>2. frame.kind = "ping" => In("pong", frame.arg) \in InFrames
    BY <1>1, <1>3 DEF In, InFrames, OutFrames, Peers
  <2> QED
    BY <2>1, <2>2 DEF Replies
<1>6. codec' \in Codecs /\ net' \in Nets
  BY <1>1, <1>3, <1>4, <1>5, TransportTyped DEF PeerReads, frame
<1>7. peer' \in Peers
  <2>1. frame.kind = "headers" => frame.arg \in Ids
    BY <1>3 DEF OutFrames
  <2> DEFINE acked == IF frame.kind = "ack" THEN peer.acked + 1 ELSE peer.acked
             opened == CASE frame.kind = "headers" -> peer.opened \cup {frame.arg}
                         [] frame.kind = "end" -> peer.opened \ {frame.arg}
                         [] OTHER -> peer.opened
  <2>2. acked \in Nat
    BY <1>1 DEF Peers
  <2>3. opened \in SUBSET Ids
    BY <1>1, <2>1 DEF Peers
  <2>4. peer' = [peer EXCEPT !.acked = acked, !.opened = opened]
    BY DEF PeerReads, frame
  <2> HIDE DEF acked, opened
  <2> QED
    BY <1>1, <2>2, <2>3, <2>4 DEF Peers
<1> QED
  BY <1>6, <1>7, AsideKeeps DEF IInv, Types, PeerReads, PeerOnly

\* Whatever the peer sends, the task and the streams are where they were.
LEMMA PeerSpeaksKeeps ==
  ASSUME IInv, NEW kind, NEW arg, In(kind, arg) \in InFrames,
         Transport(net.out, <<In(kind, arg)>>), peer' \in Peers, UNCHANGED PeerOnly
  PROVE  IInv'
<1>1. codec \in Codecs /\ net \in Nets
  BY DEF IInv, Types
<1>2. net.out \in Seq(OutFrames) /\ Len(net.out) <= WireRoom
  BY <1>1 DEF Nets
<1>3. <<In(kind, arg)>> \in Seq(InFrames)
  OBVIOUS
<1>4. codec' \in Codecs /\ net' \in Nets
  BY <1>1, <1>2, <1>3, TransportTyped
<1> QED
  BY <1>4, AsideKeeps DEF IInv, Types, PeerOnly

LEMMA PeerKeeps == ASSUME IInv, Peer PROVE IInv'
<1>1. peer \in Peers /\ peer.epoch \in Nat /\ scene \in SceneSpace
  BY ConnectionAssumption DEF IInv, Types, Peers
<1> DEFINE sent == peer.sent + 1
           next == peer.next + 1
           epoch == peer.epoch + 1
<1>0. sent \in Nat /\ next \in Nat /\ epoch \in Nat
  BY <1>1 DEF Peers
<1> HIDE DEF sent, next, epoch
<1>2. CASE PeerReads
  BY <1>2, PeerReadsKeeps
<1>3. CASE \E id \in Ids : PeerAnswers(id)
  <2>1. PICK id \in Ids : PeerAnswers(id)
    BY <1>3
  <2>2. In("response", id) \in InFrames
    BY <1>1 DEF In, InFrames
  <2>3. peer' \in Peers
    BY <1>1, <1>0, <2>1 DEF PeerAnswers, Peers
  <2> QED
    BY <2>1, <2>2, <2>3, PeerSpeaksKeeps DEF PeerAnswers
<1>4. CASE \E id \in Ids : PeerResets(id)
  <2>1. PICK id \in Ids : PeerResets(id)
    BY <1>4
  <2>2. In("reset", id) \in InFrames
    BY <1>1 DEF In, InFrames
  <2>3. peer' \in Peers
    BY <1>1, <2>1 DEF PeerResets, Peers
  <2> QED
    BY <2>1, <2>2, <2>3, PeerSpeaksKeeps DEF PeerResets, PeerSends
<1>5. CASE PeerOpens
  <2>1. In("headers", peer.next) \in InFrames
    BY <1>1, <1>5 DEF PeerOpens, In, InFrames
  <2>2. peer' = [peer EXCEPT !.sent = sent, !.next = next]
    BY <1>5 DEF PeerOpens, sent, next
  <2>3. peer' \in Peers
    BY <1>1, <1>0, <2>2 DEF Peers
  <2> QED
    BY <1>5, <2>1, <2>3, PeerSpeaksKeeps DEF PeerOpens, PeerSends
<1>6. CASE PeerPings
  <2>1. In("ping", 0) \in InFrames /\ In("pong", "other") \in InFrames
    BY <1>1 DEF In, InFrames
  <2>2. peer' \in Peers
    BY <1>1, <1>0, <1>6 DEF PeerPings, Peers
  <2> QED
    BY <1>6, <2>1, <2>2, PeerSpeaksKeeps DEF PeerPings, PeerSends
<1>7. CASE \E limit \in Limits : PeerChangesSettings(limit)
  <2>1. PICK limit \in Limits : PeerChangesSettings(limit)
    BY <1>7
  <2>2. In("settings", limit) \in InFrames
    BY <1>1 DEF In, InFrames
  <2>3. peer' = [peer EXCEPT !.sent = sent, !.epoch = epoch]
    BY <2>1 DEF PeerChangesSettings, sent, epoch
  <2>4. peer' \in Peers
    BY <1>1, <1>0, <2>3 DEF Peers
  <2> QED
    BY <2>1, <2>2, <2>4, PeerSpeaksKeeps DEF PeerChangesSettings, PeerSends
<1>8. CASE \E id \in 0 .. MaxId, reason \in scene.reasons : PeerGoesAway(id, reason)
  <2>1. PICK id \in 0 .. MaxId, reason \in scene.reasons : PeerGoesAway(id, reason)
    BY <1>8
  <2>2. reason \in Reasons
    BY <1>1 DEF SceneSpace
  <2>3. In("goAway", [id |-> id, reason |-> reason]) \in InFrames
    BY <1>1, <2>2 DEF In, InFrames, GoAwayFrames
  <2>4. peer' = [peer EXCEPT !.sent = sent, !.mine = id]
    BY <2>1 DEF PeerGoesAway, sent
  <2>5. peer' \in Peers
    BY <1>1, <1>0, <2>4 DEF Peers
  <2> QED
    BY <2>1, <2>3, <2>5, PeerSpeaksKeeps DEF PeerGoesAway, PeerSends
<1>9. CASE PeerBreaksRules \/ \E kind \in {"eof", "broken"} : PeerCloses(kind)
  <2>1. PICK kind \in {"bad", "eof", "broken"} :
          /\ Transport(net.out, <<In(kind, 0)>>) /\ UNCHANGED PeerOnly
          /\ \/ peer' = [peer EXCEPT !.sent = sent, !.broke = TRUE]
             \/ peer' = [peer EXCEPT !.sent = sent, !.done = TRUE]
    BY <1>9 DEF PeerBreaksRules, PeerCloses, PeerSends, sent
  <2>2. In(kind, 0) \in InFrames
    BY <1>1 DEF In, InFrames
  <2>3. peer' \in Peers
    BY <1>1, <1>0, <2>1 DEF Peers
  <2> QED
    BY <2>1, <2>2, <2>3, PeerSpeaksKeeps
<1> QED
  BY <1>2, <1>3, <1>4, <1>5, <1>6, <1>7, <1>8, <1>9 DEF Peer

----------------------------------------------------------------------------
(* The initial states, and the owner's calls.                              *)

LEMMA Initially == Init => IInv
<1> SUFFICES ASSUME Init PROVE IInv
  OBVIOUS
<1>1. scene \in Scenes /\ scene.limit \in Limits
  BY ConnectionAssumption DEF Init, SceneSpace
<1>2. pc \in PC /\ Ordered(pc, conn, goAway)
  BY DEF Init, PC, Ordered
<1>3. conn \in Connections
  BY ConnectionAssumption, OneAtMost DEF Init, NewConnection, Connections
<1>4. goAway \in GoAways
  BY OneAtMost DEF Init, NewGoAway, GoAways
<1>5. pings \in PingsSet
  BY DEF Init, PingsSet, PingStates
<1>6. inner \in Inners
  <2>1. 0 \in 0 .. MaxId /\ MaxId \in 0 .. MaxId /\ 0 \in 0 .. MaxRefusals
    BY GoAwayAssumption, ConnectionAssumption
  <2>2. NewInner \in Inners
    BY <2>1 DEF NewInner, Inners, Unlimited
  <2>3. inner = [NewInner EXCEPT !.sender = (role = "client")]
    BY DEF Init
  <2> HIDE DEF role
  <2> QED
    BY <2>2, <2>3 DEF Inners
<1>7. codec \in Codecs
  <2>1. Out("settings", 0) \in OutFrames
    BY DEF Out, OutFrames
  <2>2. <<Out("settings", 0)>> \in Seq(OutFrames)
    BY <2>1
  <2> QED
    BY <2>2 DEF Init, Codecs
<1>8. net \in Nets
  <2> DEFINE first == [kind |-> "settings", arg |-> scene.limit, epoch |-> 0]
  <2>1. first \in InFrames
    BY <1>1 DEF InFrames
  <2>2. net = [out |-> <<>>, in |-> <<first>>]
    BY DEF Init
  <2> HIDE DEF first
  <2>3. <<first>> \in Seq(InFrames) /\ <<>> \in Seq(OutFrames)
    BY <2>1
  <2>4. Len(<<>>) <= WireRoom
    BY ConnectionAssumption
  <2> QED
    BY <2>2, <2>3, <2>4 DEF Nets
<1>9. peer \in Peers
  BY GoAwayAssumption DEF Init, Peers
<1>10. log \in Logs
  BY GoAwayAssumption DEF Init, Logs
<1>11. Announced(conn, goAway, inner, log)
  BY GoAwayAssumption DEF Init, NewConnection, NewGoAway, NewInner, Announced
<1> QED
  BY <1>1, <1>2, <1>3, <1>4, <1>5, <1>6, <1>7, <1>8, <1>9, <1>10, <1>11 DEF IInv, Types

LEMMA CallsKeep == ASSUME IInv, Calls PROVE IInv'
<1>1. pc = "parked" /\ pc' = pc
  BY DEF Calls, Call, GracefulShutdown, SetInitialWindowSize, AbruptShutdown
<1>2. Ordered(pc', conn', goAway')
  BY <1>1, UnorderedElsewhere
<1>3. CASE GracefulShutdown
  <2> DEFINE f == [id |-> MaxId, reason |-> "no_error"]
  <2>1. f \in GoAwayFrames
    BY GoAwayAssumption DEF GoAwayFrames
  <2>2. /\ goAway' \in GoAways /\ goAway'.going = {f} /\ goAway'.pending = {f}
        /\ goAway'.closeNow = goAway.closeNow
    BY <1>3, <2>1, SetGoAwaySets DEF GracefulShutdown, IInv, Types
  <2>3. conn' \in Connections
    BY <1>3 DEF GracefulShutdown, IInv, Types, Connections
  <2>4. inner' \in Inners /\ inner'.last = inner.last /\ inner'.maxId = MaxId
    BY <1>3, GoAwayAssumption DEF GracefulShutdown, IInv, Types, Inners
  <2>5. Types'
    BY <1>1, <1>3, <2>2, <2>3, <2>4 DEF GracefulShutdown, IInv, Types
  <2>6. Announced(conn', goAway', inner', log')
    <3>1. inner.last <= MaxId /\ inner.last <= log.told /\ log.told = MaxId
      BY <1>3, GoAwayAssumption DEF GracefulShutdown, IsGoingAway, IInv, Types, Announced, Inners
    <3>2. log' = log /\ MaxId <= MaxId
      BY <1>3, GoAwayAssumption DEF GracefulShutdown
    <3>3. f.id = MaxId /\ f.reason = "no_error"
      OBVIOUS
    <3> HIDE DEF f
    <3>4. /\ inner'.last <= inner'.maxId /\ inner'.last <= log'.told
          /\ inner'.maxId <= log'.told /\ inner'.last <= f.id /\ inner'.maxId <= f.id
      BY <2>4, <3>1, <3>2, <3>3
    <3> QED
      BY <2>2, <3>3, <3>4 DEF Announced
  <2> QED
    BY <1>2, <2>5, <2>6 DEF IInv
<1>4. CASE SetInitialWindowSize
  <2>1. conn' \in Connections /\ conn'.shutdown = conn.shutdown
    BY <1>4 DEF SetInitialWindowSize, IInv, Types, Connections
  <2> QED
    BY <1>1, <1>2, <1>4, <2>1, MoveKeeps DEF SetInitialWindowSize, IInv, Types
<1>5. CASE \E reason \in scene.reasons : AbruptShutdown(reason)
  <2>1. PICK reason \in scene.reasons : AbruptShutdown(reason)
    BY <1>5
  <2>2. reason \in Reasons
    BY ConnectionAssumption DEF IInv, Types, SceneSpace
  <2> DEFINE g == [goAway EXCEPT !.user = TRUE]
  <2>3. g \in GoAways /\ Announced(conn, g, inner, log)
    BY DEF IInv, Types, Announced, GoAways
  <2>4. goAway' = GoAwayNow(g, GoAwayFrame(inner, reason))
    BY <2>1 DEF AbruptShutdown, GoAwayFromUser
  <2> HIDE DEF g
  <2>5. goAway' \in GoAways /\ Announced(conn, goAway', inner, log)
    BY <2>2, <2>3, <2>4, AnnouncedByClosing DEF IInv, Types
  <2>6. inner' \in Inners /\ inner'.last = inner.last /\ inner'.maxId = inner.maxId
    BY <2>1, FailAllKeeps DEF AbruptShutdown, IInv, Types
  <2>7. Types'
    BY <1>1, <2>1, <2>5, <2>6 DEF AbruptShutdown, IInv, Types
  <2>8. Announced(conn', goAway', inner', log')
    BY <2>1, <2>5, <2>6, AnnouncedReads DEF AbruptShutdown
  <2> QED
    BY <1>2, <2>7, <2>8 DEF IInv
<1> QED
  BY <1>3, <1>4, <1>5 DEF Calls

----------------------------------------------------------------------------
(* The start and the end of a poll.                                        *)

LEMMA MakeRoomKeeps == ASSUME IInv, MakeRoom PROVE IInv'
<1>1. codec' \in Codecs /\ net' \in Nets /\ pc' \in {pc, "complete", "after"}
  BY FlushTyped DEF MakeRoom, IInv, Types
<1>2. pc' \in PC /\ Ordered(pc', conn', goAway')
  BY <1>1, UnorderedElsewhere DEF MakeRoom, IInv, Types, task
<1> QED
  BY <1>1, <1>2, MoveKeeps DEF MakeRoom, IInv, Types, task

LEMMA StartKeeps ==
  ASSUME IInv, Handshake \/ ReadPreface \/ BadPreface \/ StartPoll
  PROVE  IInv'
<1>1. UNCHANGED <<scene, conn, goAway, inner, log, pings>>
  BY DEF Handshake, ReadPreface, BadPreface, StartPoll, Idle
<1>2. codec' \in Codecs /\ net' \in Nets
  BY FlushTyped DEF Handshake, ReadPreface, BadPreface, StartPoll, Idle, IInv, Types
<1>3. peer' \in Peers
  <2>1. CASE BadPreface
    BY <2>1 DEF BadPreface, IInv, Types, Peers
  <2>2. CASE ~BadPreface
    BY <2>2 DEF Handshake, ReadPreface, StartPoll, Idle, IInv, Types
  <2> QED
    BY <2>1, <2>2
<1>4. pc' \in {"preface", "handshake", "parked", "gone", "check", Resume(conn, goAway)}
  <2>1. Handshake => pc' \in {"preface", "handshake"}
    BY FlushTyped DEF Handshake, IInv, Types
  <2> QED
    BY <2>1 DEF ReadPreface, BadPreface, StartPoll
<1>5. pc' \in PC /\ Ordered(pc', conn', goAway)
  BY <1>1, <1>4, UnorderedElsewhere, ResumeInOrder DEF IInv, Types
<1> QED
  BY <1>1, <1>2, <1>3, <1>5, MoveKeeps DEF IInv, Types

\* The idle check and the client's check of references close with NO_ERROR.
LEMMA CloseIfIdleKeeps == ASSUME IInv, CheckReferences \/ CheckIdle PROVE IInv'
<1>1. UNCHANGED <<scene, conn, pings, inner, codec, net, peer, log>>
  BY DEF CheckReferences, CheckIdle
<1>2. goAway' = goAway \/ CloseNow(inner, "no_error")
  BY DEF CheckReferences, CheckIdle
<1>3. goAway' \in GoAways /\ Announced(conn, goAway', inner, log)
  BY <1>2, GoAwayAssumption, AnnouncedByClosing DEF IInv, Types, CloseNow
<1>4. pc' \in {"goAway", "after", Resume(conn', goAway')}
  BY <1>1 DEF CheckReferences, CheckIdle
<1>5. pc' \in PC /\ Ordered(pc', conn', goAway')
  BY <1>1, <1>3, <1>4, UnorderedElsewhere, ResumeInOrder DEF IInv, Types
<1>6. Announced(conn', goAway', inner', log')
  BY <1>1, <1>3
<1>7. Types'
  BY <1>1, <1>3, <1>5 DEF IInv, Types
<1> QED
  BY <1>5, <1>6, <1>7 DEF IInv

LEMMA WritesKeep == ASSUME IInv, WriteLastFrame \/ OpenStream PROVE IInv'
<1>1. PICK id \in Ids : /\ Buffer(Out("end", id)) \/ Buffer(Out("headers", id))
                        /\ \/ inner' = [inner EXCEPT !.active = @ \ {id}, !.queued = @ \ {id}]
                           \/ inner' = [inner EXCEPT !.active = @ \cup {id},
                                                     !.opening = @ \ {id}]
  BY DEF WriteLastFrame, OpenStream, IInv, Types, Inners
<1>2. Out("end", id) \in OutFrames /\ Out("headers", id) \in OutFrames
  BY DEF Out, OutFrames
<1>3. codec' \in Codecs
  BY <1>1, <1>2, BufferTyped DEF IInv, Types
<1>4. inner' \in Inners /\ inner'.last = inner.last /\ inner'.maxId = inner.maxId
  <2>1. inner \in Inners
    BY DEF IInv, Types
  <2>2. CASE inner' = [inner EXCEPT !.active = @ \ {id}, !.queued = @ \ {id}]
    BY <2>1, <2>2 DEF Inners
  <2>3. CASE inner' = [inner EXCEPT !.active = @ \cup {id}, !.opening = @ \ {id}]
    BY <2>1, <2>3 DEF Inners
  <2> QED
    BY <1>1, <2>2, <2>3
<1> QED
  BY <1>3, <1>4, AsideKeeps DEF WriteLastFrame, OpenStream, IInv, Types, task

LEMMA EndKeeps ==
  ASSUME IInv, AllBuffered \/ FlushAll \/ ParkClient \/ ParkServer \/ Shutdown
                 \/ Finish \/ WakeOnDrop
  PROVE  IInv'
<1>1. UNCHANGED <<scene, goAway, peer, log>>
  BY DEF AllBuffered, FlushAll, ParkClient, ParkServer, Shutdown, Finish, WakeOnDrop, task, Idle
<1>2. codec' \in Codecs /\ net' \in Nets
  <2>1. FlushAll \/ Shutdown => codec' \in Codecs /\ net' \in Nets
    BY FlushTyped DEF FlushAll, Shutdown, IInv, Types
  <2> QED
    BY <2>1 DEF AllBuffered, ParkClient, ParkServer, Finish, WakeOnDrop, IInv, Types
<1>3. pc' \in PC /\ Ordered(pc', conn', goAway')
  <2>1. FlushAll \/ Shutdown => pc' \in {"idle", "finished", "after"}
    BY FlushTyped DEF FlushAll, Shutdown, IInv, Types
  <2>2. pc' \in {"flush", "idle", "parked", "finished", "after", "dropWake", "gone"}
    BY <2>1 DEF AllBuffered, ParkClient, ParkServer, Finish, WakeOnDrop
  <2> QED
    BY <2>2, UnorderedElsewhere
<1>4. conn' \in Connections /\ conn'.shutdown = conn.shutdown
  <2>1. Shutdown => conn' = conn \/ conn' = [conn EXCEPT !.state = "closed"]
    BY DEF Shutdown
  <2>2. conn' = conn \/ conn' = [conn EXCEPT !.state = "closed"]
    BY <2>1 DEF AllBuffered, FlushAll, ParkClient, ParkServer, Finish, WakeOnDrop, task, Idle
  <2> QED
    BY <2>2 DEF IInv, Types, Connections
<1>5. pings' \in PingsSet
  BY DEF AllBuffered, FlushAll, ParkClient, ParkServer, Shutdown, Finish, WakeOnDrop, WakePinger,
         IInv, Types, PingsSet, PingStates, Idle
<1>6. inner' \in Inners /\ inner'.last = inner.last /\ inner'.maxId = inner.maxId
  <2>1. inner \in Inners
    BY DEF IInv, Types
  <2>2. AllBuffered => inner' = [inner EXCEPT !.task = TRUE]
    BY DEF AllBuffered
  <2>3. ParkServer => \E S : inner' = [inner EXCEPT !.accept = @ \ S]
    <3>1. ASSUME inner' = inner
          PROVE  inner' = [inner EXCEPT !.accept = @ \ {}]
      BY <2>1, <3>1 DEF Inners
    <3> QED
      BY <3>1 DEF ParkServer
  <2>4. Finish => inner' = [FailAll(inner) EXCEPT !.accept = {}]
    BY DEF Finish
  <2>5. FlushAll \/ ParkClient \/ Shutdown \/ WakeOnDrop => inner' = inner
    BY DEF FlushAll, ParkClient, Shutdown, WakeOnDrop, Idle
  <2>6. CASE Finish
    <3> DEFINE failed == FailAll(inner)
    <3>1. failed \in Inners /\ failed.last = inner.last /\ failed.maxId = inner.maxId
      BY <2>1, FailAllKeeps
    <3> HIDE DEF failed
    <3>2. inner' = [failed EXCEPT !.accept = {}]
      BY <2>4, <2>6 DEF failed
    <3> QED
      BY <3>1, <3>2 DEF Inners
  <2> QED
    BY <2>1, <2>2, <2>3, <2>5, <2>6 DEF Inners
<1>7. Types'
  BY <1>1, <1>2, <1>3, <1>4, <1>5, <1>6 DEF IInv, Types
<1>8. Announced(conn', goAway', inner', log')
  BY <1>1, <1>4, <1>6, AnnouncedReads DEF IInv
<1> QED
  BY <1>3, <1>7, <1>8 DEF IInv

----------------------------------------------------------------------------
(* The duties.                                                             *)

LEMMA CloseWithKeeps ==
  ASSUME conn \in Connections, NEW reason \in Reasons
  PROVE  CloseWith(reason) \in Connections /\ CloseWith(reason).shutdown = conn.shutdown
  BY ClosingKeeps, GoAwayAssumption DEF CloseWith

\* What is told was announced before: this is where Announced comes to bear.
LEMMA SendGoAwayKeeps == ASSUME IInv, SendGoAway PROVE IInv'
<1>1. /\ conn \in Connections /\ goAway \in GoAways /\ log \in Logs /\ inner \in Inners
      /\ Announced(conn, goAway, inner, log)
  BY DEF IInv, Types
<1>2. PICK f \in goAway.pending :
        /\ Buffer(Out("goAway", f))
        /\ log' = [log EXCEPT !.told = IF f.id < log.told THEN f.id ELSE log.told]
        /\ IF goAway.closeNow
             THEN conn' = CloseWith(f.reason) /\ pc' = "shutdown"
             ELSE conn' = conn /\ pc' = IF conn.pong THEN "pong" ELSE Pinging(conn)
  BY DEF SendGoAway
<1>3. f \in goAway.going /\ f \in GoAwayFrames /\ f.id \in 0 .. MaxId /\ f.reason \in Reasons
  BY <1>1, FramesOfGoAway DEF Announced
<1>4. codec' \in Codecs
  <2>1. Out("goAway", f) \in OutFrames
    BY <1>3 DEF Out, OutFrames
  <2> QED
    BY <1>2, <2>1, BufferTyped DEF IInv, Types
<1>5. conn' \in Connections /\ conn'.shutdown = conn.shutdown
  BY <1>1, <1>2, <1>3, CloseWithKeeps
<1>6. /\ goAway' \in GoAways /\ goAway'.pending = {} /\ goAway'.going = goAway.going
      /\ goAway'.closeNow = goAway.closeNow
  BY <1>1, OneAtMost DEF SendGoAway, GoAways
<1>7. pc' \in PC /\ Ordered(pc', conn', goAway')
  <2>1. CASE goAway.closeNow
    BY <1>2, <2>1, UnorderedElsewhere
  <2>2. CASE ~goAway.closeNow /\ conn.pong
    BY <1>2, <1>6, <2>2 DEF Ordered, PC
  <2>3. CASE ~goAway.closeNow /\ ~conn.pong
    BY <1>1, <1>2, <1>6, <2>3, PingingInOrder
  <2> QED
    BY <2>1, <2>2, <2>3
<1>8. log' \in Logs /\ log'.told = IF f.id < log.told THEN f.id ELSE log.told
  BY <1>1, <1>2, <1>3 DEF Logs
<1>9. Announced(conn', goAway', inner, log')
  BY <1>1, <1>3, <1>5, <1>6, <1>8 DEF Announced
<1>10. UNCHANGED <<scene, pings, inner, net, peer>>
  BY DEF SendGoAway
<1>11. Types'
  BY <1>4, <1>5, <1>6, <1>7, <1>8, <1>10 DEF IInv, Types
<1>12. Announced(conn', goAway', inner', log')
  BY <1>9, <1>10
<1> QED
  BY <1>7, <1>11, <1>12 DEF IInv

LEMMA CloseAfterGoAwayKeeps == ASSUME IInv, CloseAfterGoAway PROVE IInv'
<1>1. PICK f \in goAway.going : conn' = CloseWith(f.reason)
  BY DEF CloseAfterGoAway
<1>2. f.reason \in Reasons
  BY FramesOfGoAway DEF IInv, Types
<1>3. conn' \in Connections /\ conn'.shutdown = conn.shutdown
  BY <1>1, <1>2, CloseWithKeeps DEF IInv, Types
<1>4. pc' \in PC /\ Ordered(pc', conn', goAway)
  BY UnorderedElsewhere DEF CloseAfterGoAway
<1> QED
  BY <1>3, <1>4, MoveKeeps DEF CloseAfterGoAway, IInv, Types

LEMMA SendPongKeeps == ASSUME IInv, SendPong PROVE IInv'
<1>1. Out("pong", 0) \in OutFrames
  BY DEF Out, OutFrames
<1>2. codec' \in Codecs
  BY <1>1, BufferTyped DEF SendPong, IInv, Types
<1>3. conn' \in Connections /\ ~conn'.pong /\ conn'.shutdown = conn.shutdown
      /\ Pinging(conn') = Pinging(conn)
  BY DEF SendPong, IInv, Types, Connections, Pinging, Turn
<1>4. goAway.pending = {} /\ ~goAway.closeNow
  BY DEF SendPong, IInv, Ordered
<1>5. pc' \in PC /\ Ordered(pc', conn', goAway)
  BY <1>3, <1>4, PingingInOrder DEF SendPong
<1> QED
  BY <1>2, <1>3, <1>5, MoveKeeps DEF SendPong, IInv, Types

LEMMA PingKeeps ==
  ASSUME IInv, SendShutdownPing \/ SendUserPing \/ NoUserPing \/ RegisterPing
  PROVE  IInv'
<1>1. /\ conn \in Connections /\ goAway.pending = {} /\ ~goAway.closeNow /\ ~conn.pong
      /\ pings \in PingsSet
  BY DEF IInv, Types, Ordered, SendShutdownPing, SendUserPing, NoUserPing, RegisterPing
<1>2. UNCHANGED <<scene, goAway, inner, net, peer, log>>
  BY DEF SendShutdownPing, SendUserPing, NoUserPing, RegisterPing, task, Idle
<1>3. codec' \in Codecs
  <2>1. Out("ping", "shutdown") \in OutFrames /\ Out("ping", "user") \in OutFrames
    BY DEF Out, OutFrames
  <2> QED
    BY <2>1, BufferTyped DEF SendShutdownPing, SendUserPing, NoUserPing, RegisterPing, IInv, Types
<1>4. pings' \in PingsSet
  BY <1>1 DEF SendShutdownPing, SendUserPing, NoUserPing, RegisterPing, PingsSet, PingStates, Idle
<1>5. CASE SendShutdownPing
  <2>1. /\ conn' \in Connections /\ ~conn'.pong /\ conn.shutdown /= "none"
        /\ Turn(conn') = Turn(conn)
    BY <1>1, <1>5 DEF SendShutdownPing, Connections, Turn
  <2>2. pc' \in PC /\ Ordered(pc', conn', goAway)
    BY <1>1, <1>5, <2>1, TurnInOrder DEF SendShutdownPing
  <2>3. Announced(conn', goAway', inner', log')
    BY <1>2, <2>1 DEF IInv, Announced
  <2>4. Types'
    BY <1>2, <1>3, <1>4, <2>1, <2>2 DEF IInv, Types
  <2> QED
    BY <1>2, <2>2, <2>3, <2>4 DEF IInv
<1>6. CASE ~SendShutdownPing
  <2>1. conn' = conn
    BY <1>6 DEF SendUserPing, NoUserPing, RegisterPing, task, Idle
  <2>2. pc' \in {"register", Turn(conn)}
    BY <1>6 DEF SendUserPing, NoUserPing, RegisterPing
  <2>3. Ordered("register", conn, goAway) /\ "register" \in PC
    BY <1>1 DEF Ordered, PC
  <2>4. pc' \in PC /\ Ordered(pc', conn', goAway)
    BY <1>1, <2>1, <2>2, <2>3, TurnInOrder
  <2> QED
    BY <1>1, <1>2, <1>3, <1>4, <2>1, <2>4, MoveKeeps DEF IInv, Types
<1> QED
  BY <1>5, <1>6

LEMMA SettingsKeep == ASSUME IInv, SendSettingsAck \/ SendLocalSettings PROVE IInv'
<1>1. /\ conn \in Connections /\ goAway.pending = {} /\ ~goAway.closeNow /\ ~conn.pong
      /\ inner \in Inners /\ log \in Logs
  BY DEF IInv, Types, Ordered, SendSettingsAck, SendLocalSettings
<1>2. UNCHANGED <<scene, goAway, pings, net, peer>>
  BY DEF SendSettingsAck, SendLocalSettings
<1>3. codec' \in Codecs
  <2>1. Out("ack", 0) \in OutFrames /\ Out("settings", 0) \in OutFrames
    BY DEF Out, OutFrames
  <2> QED
    BY <2>1, BufferTyped DEF SendSettingsAck, SendLocalSettings, IInv, Types
<1>4. conn' \in Connections /\ ~conn'.pong /\ conn'.shutdown = conn.shutdown
  <2>1. conn' = [conn EXCEPT !.remote = {}, !.initial = FALSE]
          \/ conn' = [conn EXCEPT !.local = "waitingAck"]
    BY DEF SendSettingsAck, SendLocalSettings
  <2>2. {} \in AtMostOne(Limits)
    BY OneAtMost
  <2>3. CASE conn' = [conn EXCEPT !.remote = {}, !.initial = FALSE]
    BY <1>1, <2>2, <2>3 DEF Connections
  <2>4. CASE conn' = [conn EXCEPT !.local = "waitingAck"]
    BY <1>1, <2>4 DEF Connections
  <2> QED
    BY <2>1, <2>3, <2>4
<1>5. pc' \in PC /\ Ordered(pc', conn', goAway')
  BY <1>1, <1>2, <1>4, TurnInOrder DEF SendSettingsAck, SendLocalSettings
<1>6. inner' \in Inners /\ inner'.last = inner.last /\ inner'.maxId = inner.maxId
  <2>1. CASE SendSettingsAck
    <3>1. PICK limit \in conn.remote :
            inner' = [inner EXCEPT !.limit =
                        IF limit /= {} THEN CHOOSE l \in limit : TRUE
                        ELSE IF conn.initial THEN Unlimited ELSE inner.limit]
      BY <2>1 DEF SendSettingsAck
    <3>2. limit \subseteq Nat
      <4>1. conn.remote \subseteq Limits
        BY <1>1, OneAtMost DEF Connections
      <4> QED
        BY <4>1, ConnectionAssumption
    <3> DEFINE chosen == CHOOSE l \in limit : TRUE
    <3>3. limit /= {} => chosen \in Nat
      BY <3>2
    <3> HIDE DEF chosen
    <3>4. PICK n \in Nat : inner' = [inner EXCEPT !.limit = n]
      <4>1. limit /= {} => inner' = [inner EXCEPT !.limit = chosen]
        BY <3>1 DEF chosen
      <4>2. limit = {} /\ conn.initial => inner' = [inner EXCEPT !.limit = MaxId]
        BY <3>1 DEF Unlimited
      <4>3. limit = {} /\ ~conn.initial => inner' = [inner EXCEPT !.limit = inner.limit]
        BY <3>1
      <4>4. MaxId \in Nat /\ inner.limit \in Nat
        BY <1>1, GoAwayAssumption DEF Inners
      <4> QED
        BY <3>3, <4>1, <4>2, <4>3, <4>4
    <3> QED
      BY <1>1, <3>4 DEF Inners
  <2>2. CASE SendLocalSettings
    BY <1>1, <2>2 DEF SendLocalSettings
  <2> QED
    BY <2>1, <2>2
<1>7. log' \in Logs /\ log'.told = log.told
  <2>1. log' = [log EXCEPT !.applied = @ + 1] \/ log' = log
    BY DEF SendSettingsAck, SendLocalSettings
  <2> QED
    BY <1>1, <2>1 DEF Logs
<1>8. Types'
  BY <1>2, <1>3, <1>4, <1>5, <1>6, <1>7 DEF IInv, Types
<1>9. Announced(conn', goAway', inner', log')
  BY <1>2, <1>4, <1>6, <1>7 DEF IInv, Announced
<1> QED
  BY <1>5, <1>8, <1>9 DEF IInv

LEMMA SendRefusalKeeps == ASSUME IInv, SendRefusal PROVE IInv'
<1>1. conn \in Connections /\ inner \in Inners
  BY DEF IInv, Types
<1>2. CASE inner.refusals < MaxRefusals
  <2>1. PICK id \in conn.refusal : Buffer(Out("reset", id))
    BY <1>2 DEF SendRefusal
  <2>2. id \in Ids
    BY <1>1, OneAtMost DEF Connections
  <2>3. Out("reset", id) \in OutFrames
    BY <2>2 DEF Out, OutFrames
  <2>4. codec' \in Codecs
    BY <2>1, <2>3, BufferTyped DEF IInv, Types
  <2>5. /\ inner' = [inner EXCEPT !.refusals = @ + 1]
        /\ conn' = [conn EXCEPT !.refusal = {}] /\ pc' = "read" /\ goAway' = goAway
    BY <1>2 DEF SendRefusal
  <2>6. inner' \in Inners /\ inner'.last = inner.last /\ inner'.maxId = inner.maxId
    <3> DEFINE n == inner.refusals + 1
    <3>1. n \in 0 .. MaxRefusals
      BY <1>1, <1>2, ConnectionAssumption DEF Inners
    <3> HIDE DEF n
    <3>2. inner' = [inner EXCEPT !.refusals = n]
      BY <2>5 DEF n
    <3> QED
      BY <1>1, <3>1, <3>2 DEF Inners
  <2>7. /\ conn' \in Connections /\ conn'.shutdown = conn.shutdown
        /\ conn'.refusal = {} /\ conn'.pong = conn.pong /\ conn'.remote = conn.remote
    BY <1>1, <2>5, OneAtMost DEF Connections
  <2>8. pc' \in PC /\ Ordered(pc', conn', goAway')
    BY <2>5, <2>7 DEF SendRefusal, IInv, Ordered, PC
  <2>9. Types'
    BY <2>4, <2>5, <2>6, <2>7, <2>8 DEF SendRefusal, IInv, Types
  <2>10. Announced(conn', goAway', inner', log')
    BY <2>5, <2>6, <2>7, AnnouncedReads, ZenonT(30) DEF SendRefusal, IInv
  <2> QED
    BY <2>8, <2>9, <2>10 DEF IInv
<1>3. CASE ~(inner.refusals < MaxRefusals)
  BY <1>3, ConnectionErrorKeeps, ConnectionAssumption DEF SendRefusal, IInv, Types
<1> QED
  BY <1>2, <1>3

----------------------------------------------------------------------------
(* Reading a frame.                                                        *)

\* The connection and the streams as IInv has them when a frame is read.
LEMMA Reading ==
  ASSUME IInv, NEW kind, Receives(kind)
  PROVE  /\ conn \in Connections /\ inner \in Inners /\ goAway \in GoAways
         /\ Head(net.in) \in InFrames /\ Head(net.in).kind = kind
         /\ ~goAway.closeNow /\ goAway.pending = {} /\ ~conn.pong
         /\ conn.remote = {} /\ conn.refusal = {}
         /\ Announced(conn, goAway, inner, log)
<1>1. pc = "read"
  BY DEF Receives
<1> QED
  BY <1>1, ReceivedTyped DEF IInv, Types, Ordered

\* A stream is only taken up to maxId, which is no more than was told.
LEMMA ReadHeadersKeeps == ASSUME IInv, ReadHeaders PROVE IInv'
<1> DEFINE id == Arg
           seen == [inner EXCEPT !.next = id + 1]
           taken == [seen EXCEPT !.last = id, !.active = @ \cup {id}, !.accept = @ \cup {id}]
           refused == [conn EXCEPT !.refusal = {id}]
<1>1. Receives("headers") /\ Consume /\ UNCHANGED Rest
  BY DEF ReadHeaders
<1>2. id \in Ids /\ id + 1 \in Nat /\ id \in 0 .. MaxId
  <2>1. Head(net.in) \in InFrames /\ Head(net.in).kind = "headers"
    BY <1>1, Reading
  <2>2. id \in Ids
    BY <2>1 DEF InFrames, Arg
  <2> HIDE DEF id
  <2> QED
    BY <2>2, GoAwayAssumption DEF Ids
<1>3. \/ ReadOn(conn, inner)
      \/ ReadFails("protocol")
      \/ ReadOn(refused, seen)
      \/ id <= inner.maxId /\ ReadOn(conn, taken)
  <2>1. inner.maxId \in Int /\ inner.next \in Int /\ id \in Int
    BY <1>1, <1>2, Reading, GoAwayAssumption DEF Inners
  <2> QED
    BY <2>1 DEF ReadHeaders
<1> HIDE DEF id
<1>4. seen \in Inners /\ seen.last = inner.last /\ seen.maxId = inner.maxId
  <2>1. \A n \in Nat : LET i == [inner EXCEPT !.next = n]
                      IN  i \in Inners /\ i.last = inner.last /\ i.maxId = inner.maxId
    BY <1>1, Reading DEF Inners
  <2> QED
    BY <1>2, <2>1
<1>5. /\ taken \in Inners /\ taken.last = id /\ taken.maxId = inner.maxId
  <2> HIDE DEF seen
  <2> QED
    BY <1>2, <1>4 DEF Inners
<1>6. refused \in Connections /\ refused.shutdown = conn.shutdown
  <2>1. {id} \in AtMostOne(Ids)
    BY <1>2, OneAtMost
  <2> QED
    BY <1>1, <2>1, Reading DEF Connections
<1> HIDE DEF seen, taken, refused
<1>7. CASE ReadOn(conn, inner)
  BY <1>1, <1>7, Reading, ReadOnKeeps
<1>8. CASE ReadFails("protocol")
  BY <1>1, <1>8, ReadFailsKeeps, ConnectionAssumption
<1>9. CASE ReadOn(refused, seen)
  <2>1. Announced(refused, goAway, seen, log)
    BY <1>1, <1>4, <1>6, Reading, AnnouncedReads
  <2> QED
    BY <1>1, <1>4, <1>6, <1>9, <2>1, ReadOnKeeps
<1>10. CASE id <= inner.maxId /\ ReadOn(conn, taken)
  <2>1. Announced(conn, goAway, taken, log)
    <3>1. log \in Logs /\ inner.maxId \in 0 .. MaxId
      BY <1>1, Reading DEF IInv, Types, Inners
    <3>2. /\ ~goAway.closeNow
          /\ inner.maxId <= log.told
          /\ \A f \in goAway.going : inner.maxId <= f.id /\ f.reason = "no_error"
      BY <1>1, Reading DEF Announced
    <3>3. id <= log.told
      BY <1>2, <1>10, <3>1, <3>2 DEF Logs
    <3>4. \A f \in goAway.going : id <= f.id
      BY <1>1, <1>2, <1>10, <3>1, <3>2, Reading, FramesOfGoAway
    <3> QED
      BY <1>1, <1>5, <1>10, <3>2, <3>3, <3>4, Reading DEF Announced
  <2> QED
    BY <1>1, <1>5, <1>10, <2>1, Reading, ReadOnKeeps
<1> QED
  BY <1>3, <1>7, <1>8, <1>9, <1>10

\* Once the PING of the shutdown is answered, the last stream is announced and
\* none above it taken any more.
LEMMA ReadShutdownPongKeeps == ASSUME IInv, ReadShutdownPong PROVE IInv'
<1>1. Receives("pong") /\ Consume /\ UNCHANGED <<pings, Rest>> /\ conn.shutdown /= "none"
  BY DEF ReadShutdownPong
<1> DEFINE f == GoAwayFrame(inner, "no_error")
<1>2. f \in GoAwayFrames /\ f.id = inner.last /\ f.reason = "no_error"
  BY <1>1, Reading, FrameTyped, GoAwayAssumption DEF GoAwayFrame
<1> HIDE DEF f
<1>3. goAway' = SetGoAway(goAway, f)
  BY DEF ReadShutdownPong, f
<1>4. /\ goAway' \in GoAways /\ goAway'.going = {f} /\ goAway'.pending = {f}
      /\ goAway'.closeNow = goAway.closeNow
  BY <1>1, <1>2, <1>3, Reading, SetGoAwaySets
<1>5. conn' \in Connections
  BY <1>1, Reading DEF ReadShutdownPong, Connections
<1>6. inner' \in Inners /\ inner'.last = inner.last /\ inner'.maxId = inner.last
  <2>1. inner.last \in 0 .. MaxId
    BY <1>1, Reading DEF Inners
  <2> QED
    BY <1>1, <2>1, Reading DEF ReadShutdownPong, Inners
<1>7. pc' \in PC /\ Ordered(pc', conn', goAway')
  BY <1>4, <1>5, DutyInOrder DEF ReadShutdownPong
<1>8. net' \in Nets
  BY <1>1, ReceivedTyped, ConsumeTyped DEF IInv, Types
<1>9. Types'
  BY <1>1, <1>4, <1>5, <1>6, <1>7, <1>8 DEF IInv, Types, Rest
<1>10. Announced(conn', goAway', inner', log')
  <2>1. inner.last <= inner.last /\ inner.last <= log.told /\ log' = log
    BY <1>1, Reading, GoAwayAssumption DEF Announced, Inners, Rest
  <2> QED
    BY <1>2, <1>4, <1>6, <2>1 DEF Announced
<1> QED
  BY <1>7, <1>9, <1>10 DEF IInv

\* Frames that change nothing Announced reads.
LEMMA ReadSimply ==
  ASSUME IInv, NEW kind, Receives(kind), Consume, UNCHANGED Rest,
         NEW c \in Connections, c.shutdown = conn.shutdown,
         NEW i \in Inners, i.last = inner.last, i.maxId = inner.maxId, ReadOn(c, i)
  PROVE  IInv'
  BY ReadOnKeeps, Reading, AnnouncedReads

LEMMA ReadOfStreamKeeps == ASSUME IInv, ReadReset \/ ReadResponse PROVE IInv'
<1> DEFINE closed == [inner EXCEPT !.active = @ \ {Arg}]
           gone == [inner EXCEPT !.active = @ \ {Arg}, !.queued = @ \ {Arg}]
<1>1. PICK kind \in {"reset", "response"} : Receives(kind) /\ Consume /\ UNCHANGED Rest
  BY DEF ReadReset, ReadResponse
<1>2. Arg \in Ids
  BY <1>1, Reading DEF InFrames, Arg
<1>3. \/ ReadOn(conn, inner) \/ ReadFails("protocol")
      \/ ReadOn(conn, gone) \/ ReadOn(conn, closed)
  <2>1. CASE ReadResponse
    BY <2>1 DEF ReadResponse
  <2>2. CASE ReadReset
    <3>1. inner.maxId \in Int /\ inner.next \in Int /\ Arg \in Int
      BY <1>1, <1>2, Reading, GoAwayAssumption DEF Inners, Ids
    <3> HIDE DEF gone
    <3>2. \/ ReadOn(conn, inner) \/ ReadFails("protocol") \/ ReadOn(conn, gone)
      BY <2>2, <3>1 DEF ReadReset, gone
    <3> QED
      BY <3>2
  <2> QED
    BY <2>1, <2>2
<1>4. closed \in Inners /\ closed.last = inner.last /\ closed.maxId = inner.maxId
  BY <1>1, Reading DEF Inners
<1>5. gone \in Inners /\ gone.last = inner.last /\ gone.maxId = inner.maxId
  BY <1>1, Reading DEF Inners
<1> HIDE DEF closed, gone
<1>6. CASE ReadFails("protocol")
  BY <1>1, <1>6, ReadFailsKeeps, ConnectionAssumption
<1> QED
  BY <1>1, <1>3, <1>4, <1>5, <1>6, Reading, ReadSimply

LEMMA ReadPingKeeps == ASSUME IInv, ReadPing \/ ReadUnknownPong PROVE IInv'
<1> DEFINE pinged == [conn EXCEPT !.pong = TRUE]
<1>1. PICK kind \in {"ping", "pong"} : Receives(kind) /\ Consume /\ UNCHANGED Rest
  BY DEF ReadPing, ReadUnknownPong
<1>2. ReadOn(conn, inner) \/ ReadOn(pinged, inner)
  BY DEF ReadPing, ReadUnknownPong
<1>3. pinged \in Connections /\ pinged.shutdown = conn.shutdown
  BY <1>1, Reading DEF Connections
<1> HIDE DEF pinged
<1> QED
  BY <1>1, <1>2, <1>3, Reading, ReadSimply

LEMMA ReadSettingsKeeps == ASSUME IInv, ReadSettings \/ ReadSettingsAck PROVE IInv'
<1> DEFINE changed == [conn EXCEPT !.remote = {Arg}]
           synced == [conn EXCEPT !.local = "synced"]
<1>1. PICK kind \in {"settings", "ack"} : Receives(kind) /\ Consume /\ UNCHANGED Rest
  BY DEF ReadSettings, ReadSettingsAck
<1>2. CASE ReadSettings
  <2>1. Receives("settings")
    BY <1>2 DEF ReadSettings
  <2>2. Arg \in Limits
    BY <2>1, Reading DEF InFrames, Arg
  <2>3. {Arg} \in AtMostOne(Limits)
    BY <2>2, OneAtMost
  <2>4. changed \in Connections /\ changed.shutdown = conn.shutdown
    BY <1>1, <2>3, Reading DEF Connections
  <2>5. ReadOn(changed, inner)
    BY <1>2 DEF ReadSettings
  <2> HIDE DEF changed
  <2> QED
    BY <1>1, <2>4, <2>5, Reading, ReadSimply
<1>3. CASE ReadSettingsAck
  <2>1. synced \in Connections /\ synced.shutdown = conn.shutdown
    BY <1>1, Reading DEF Connections
  <2>2. ReadOn(synced, inner) \/ ReadFails("protocol")
    BY <1>3 DEF ReadSettingsAck
  <2> HIDE DEF synced
  <2>3. CASE ReadFails("protocol")
    BY <1>1, <2>3, ReadFailsKeeps, ConnectionAssumption
  <2> QED
    BY <1>1, <2>1, <2>2, <2>3, Reading, ReadSimply
<1> QED
  BY <1>2, <1>3

LEMMA ReadGoAwayKeeps == ASSUME IInv, ReadGoAway PROVE IInv'
<1> DEFINE refused == IF role = "client" THEN {id \in Ids : id > Arg.id} ELSE {}
           c == [conn EXCEPT !.error = {Arg.reason}]
           i == [inner EXCEPT !.connError = TRUE, !.sendMaxId = Arg.id,
                              !.active = @ \ refused, !.queued = @ \ refused,
                              !.opening = @ \ refused]
<1>1. Receives("goAway") /\ Consume /\ UNCHANGED Rest
  BY DEF ReadGoAway
<1>2. Arg.id \in 0 .. MaxId /\ Arg.reason \in Reasons
  BY <1>1, Reading DEF InFrames, GoAwayFrames, Arg
<1>3. ReadFails("protocol") \/ ReadOn(c, i)
  BY DEF ReadGoAway
<1>4. c \in Connections /\ c.shutdown = conn.shutdown
  <2>1. {Arg.reason} \in AtMostOne(Reasons)
    BY <1>2, OneAtMost
  <2> QED
    BY <1>1, <2>1, Reading DEF Connections
<1>5. i \in Inners /\ i.last = inner.last /\ i.maxId = inner.maxId
  <2> HIDE DEF refused
  <2> QED
    BY <1>1, <1>2, Reading DEF Inners
<1> HIDE DEF c, i
<1>6. CASE ReadFails("protocol")
  BY <1>1, <1>6, ReadFailsKeeps, ConnectionAssumption
<1> QED
  BY <1>1, <1>3, <1>4, <1>5, <1>6, ReadSimply

\* The end of the transport, and frames that end the connection.
LEMMA ReadEndKeeps == ASSUME IInv, ReadEof \/ ReadBroken PROVE IInv'
<1>1. PICK kind \in {"eof", "broken"} : Receives(kind) /\ Consume
  BY DEF ReadEof, ReadBroken
<1>2. net' \in Nets
  BY <1>1, ReceivedTyped, ConsumeTyped DEF IInv, Types
<1>3. UNCHANGED <<scene, goAway, pings, codec, peer, log>>
  BY DEF ReadEof, ReadBroken, Rest
<1>4. pc' \in PC /\ Ordered(pc', conn', goAway')
  BY UnorderedElsewhere DEF ReadEof, ReadBroken
<1>5. conn' \in Connections /\ conn'.shutdown = conn.shutdown
  <2>1. conn \in Connections
    BY <1>1, Reading
  <2>2. \/ conn' = Closing(conn, "no_error") \/ conn' = conn
        \/ conn' = [conn EXCEPT !.state = "closed", !.reason = "no_error"]
    BY DEF ReadEof, ReadBroken
  <2>3. CASE conn' = [conn EXCEPT !.state = "closed", !.reason = "no_error"]
    BY <2>1, <2>3, GoAwayAssumption DEF Connections
  <2> QED
    BY <2>1, <2>2, <2>3, ClosingKeeps, GoAwayAssumption
<1>6. inner' \in Inners /\ inner'.last = inner.last /\ inner'.maxId = inner.maxId
  BY <1>1, Reading, FailAllKeeps DEF ReadEof, ReadBroken
<1>7. Types'
  BY <1>2, <1>3, <1>4, <1>5, <1>6 DEF IInv, Types
<1>8. Announced(conn', goAway', inner', log')
  BY <1>3, <1>5, <1>6, AnnouncedReads DEF IInv
<1> QED
  BY <1>4, <1>7, <1>8 DEF IInv

LEMMA ReadNothingKeeps == ASSUME IInv, ReadNothing PROVE IInv'
<1>1. codec' \in Codecs
  BY DEF ReadNothing, IInv, Types, Codecs
<1>2. pc' \in PC /\ Ordered(pc', conn', goAway)
  BY UnorderedElsewhere DEF ReadNothing
<1> QED
  BY <1>1, <1>2, MoveKeeps DEF ReadNothing, Idle, IInv, Types

\* The user's answer and the wake that follows it.
LEMMA UserPongKeeps == ASSUME IInv, ReadUserPong \/ WakePong PROVE IInv'
<1>1. UNCHANGED <<scene, conn, goAway, inner, codec, peer, log>>
  BY DEF ReadUserPong, WakePong, Rest, task
<1>2. net' \in Nets
  <2>1. CASE ReadUserPong
    BY <2>1, ReceivedTyped, ConsumeTyped DEF ReadUserPong, IInv, Types
  <2>2. CASE WakePong
    BY <2>2 DEF WakePong, IInv, Types
  <2> QED
    BY <2>1, <2>2
<1>3. pings' \in PingsSet
  BY DEF ReadUserPong, WakePong, WakePinger, IInv, Types, PingsSet, PingStates
<1>4. pc' \in PC /\ Ordered(pc', conn', goAway)
  <2>1. CASE ReadUserPong
    <3>1. Receives("pong") /\ pc' = "wakePong"
      BY <2>1 DEF ReadUserPong
    <3> QED
      BY <1>1, <3>1, Reading DEF Ordered, PC
  <2>2. CASE WakePong
    BY <1>1, <2>2, DutyInOrder DEF WakePong, IInv, Types
  <2> QED
    BY <2>1, <2>2
<1> QED
  BY <1>1, <1>2, <1>3, <1>4, MoveKeeps DEF IInv, Types

----------------------------------------------------------------------------
(* The invariant.                                                          *)

LEMMA TaskKeeps == ASSUME IInv, Task PROVE IInv'
<1>1. CASE Duties
  BY <1>1, SendGoAwayKeeps, CloseAfterGoAwayKeeps, SendPongKeeps, PingKeeps, SettingsKeep,
     SendRefusalKeeps DEF Duties
<1>2. CASE Read
  <2>1. CASE ReadBad
    BY <2>1, ReadFailsKeeps, ConnectionAssumption DEF ReadBad
  <2> QED
    BY <1>2, <2>1, ReadNothingKeeps, ReadHeadersKeeps, ReadOfStreamKeeps, ReadPingKeeps,
       ReadShutdownPongKeeps, UserPongKeeps, ReadSettingsKeeps, ReadGoAwayKeeps, ReadEndKeeps
       DEF Read
<1>3. CASE Complete
  BY <1>3, WritesKeep, EndKeeps, CloseIfIdleKeeps DEF Complete
<1> QED
  BY <1>1, <1>2, <1>3, StartKeeps, CloseIfIdleKeeps, MakeRoomKeeps, UserPongKeeps, EndKeeps
     DEF Task

LEMMA StepKeeps == IInv /\ [Next]_vars => IInv'
<1> SUFFICES ASSUME IInv, [Next]_vars PROVE IInv'
  OBVIOUS
<1>1. CASE Next
  BY <1>1, TaskKeeps, HandlesKeep, CallsKeep, PingerKeeps, PeerKeeps DEF Next
<1>2. CASE UNCHANGED vars
  BY <1>2, AsideKeeps DEF vars, IInv, Types
<1> QED
  BY <1>1, <1>2

\* The inductive invariant holds of every behaviour of the connection.
THEOREM Invariance == Spec => []IInv
<1> QED
  BY Initially, StepKeeps, PTL DEF Spec

\* Type correctness of the connection task and all it shares with others.
THEOREM TypeCorrect == Spec => []TypeOK
<1>1. IInv => TypeOK
  BY DEF IInv, Types, TypeOK, Connections, Inners, PingsSet
<1> QED
  BY <1>1, Invariance, PTL

\* A request above an identifier that was told in a GOAWAY is never processed,
\* whichever frames, calls and errors come between the two GOAWAYs of a graceful
\* shutdown: a peer may repeat it elsewhere.
THEOREM RetryAlwaysSafe == Spec => []RetryIsSafe
<1>1. IInv => RetryIsSafe
  BY DEF IInv, Announced, RetryIsSafe
<1> QED
  BY <1>1, Invariance, PTL

\* The assertions in the code never fail: of the order of the duties
\* (ping_pong.rs, settings.rs, connection.rs), and of GOAWAY (go_away.rs).
THEOREM AssertionsAlwaysHold == Spec => []AssertionsHold
<1>1. ASSUME IInv PROVE AssertionsHold
  <2>1. pc = "read" => /\ ~conn.pong /\ conn.remote = {} /\ conn.refusal = {}
                      /\ ~goAway.closeNow /\ goAway.pending = {}
    BY <1>1 DEF IInv, Ordered
  <2>2. conn.shutdown /= "none" => IsGoingAway(goAway)
    BY <1>1 DEF IInv, Announced, IsGoingAway
  <2>3. MayGoAway(goAway, inner.last) /\ inner.last <= inner.maxId
    BY <1>1 DEF IInv, Announced, MayGoAway
  <2>4. goAway.pending /= {} /\ ~goAway.closeNow =>
          \A f \in goAway.pending : f.reason = "no_error"
    BY <1>1 DEF IInv, Announced
  <2>5. ~IsGoingAway(goAway) => inner.maxId = MaxId /\ conn.shutdown = "none"
    BY <1>1 DEF IInv, Types, Connections, Announced, IsGoingAway
  <2> QED
    BY <2>1, <2>2, <2>3, <2>4, <2>5 DEF AssertionsHold
<1> QED
  BY <1>1, Invariance, PTL

----------------------------------------------------------------------------
(* SettingsInOrder, a theorem about Connection.  It takes an account of    *)
(* SETTINGS over both wires.  Dated: every frame from the peer carries the *)
(* number of SETTINGS sent before it, and the first that is still to be    *)
(* read the number of those in force, or one more while SETTINGS wait to   *)
(* be acknowledged.  Counted: the acknowledgements the peer has seen, with *)
(* those on the way to it, are the SETTINGS in force.                      *)
(*                                                                         *)
(* How many acknowledgements are on the way is not defined, for that takes *)
(* a recursion; Counted says that the frames can be numbered so that the   *)
(* numbers tell.                                                           *)

\* What a frame after this one is dated.
After(frame) == IF frame.kind = "settings" THEN frame.epoch + 1 ELSE frame.epoch

Due(remote, applied) == IF remote = {} THEN applied ELSE applied + 1

Dated(remote, in, epoch, applied) ==
  /\ in = <<>> => epoch = Due(remote, applied)
  /\ in /= <<>> => /\ in[1].epoch = Due(remote, applied)
                   /\ epoch = After(in[Len(in)])
  /\ \A k \in 1 .. Len(in) - 1 : in[k + 1].epoch = After(in[k])

Acks(frame) == IF frame.kind = "ack" THEN 1 ELSE 0

\* c[k] is what the peer will have seen acknowledged after k frames.
Numbers(c, pipe, acked, applied) ==
  /\ c \in [0 .. Len(pipe) -> Nat]
  /\ c[0] = acked /\ c[Len(pipe)] = applied
  /\ \A k \in 1 .. Len(pipe) : c[k] = c[k - 1] + Acks(pipe[k])
  /\ \A k \in 0 .. Len(pipe) : c[k] <= applied

Counted(pipe, acked, applied) == \E c : Numbers(c, pipe, acked, applied)

\* Frames buffered are written after those on the transport.
Pipe == net.out \o codec.buf

Dates == Dated(conn.remote, net.in, peer.epoch, log.applied)

Counts == Counted(Pipe, peer.acked, log.applied)

SInv == IInv /\ Dates /\ Counts

----------------------------------------------------------------------------
(* Frames from the peer.                                                   *)

LEMMA EmptyIsShort ==
  ASSUME NEW S
  PROVE  \A s \in Seq(S) : Len(s) \in Nat /\ (s = <<>> <=> Len(s) = 0)
<1> TAKE s \in Seq(S)
<1>1. Len(s) \in Nat
  BY LenProperties
<1>2. s /= <<>> => Len(s) \in Nat \ {0}
  BY EmptySeq
<1>3. Len(<<>>) = 0
  BY EmptySeq
<1> QED
  BY <1>1, <1>2, <1>3

LEMMA DatedByReading ==
  ASSUME NEW in \in Seq(InFrames), in /= <<>>, NEW epoch, NEW applied, NEW remote,
         Dated({}, in, epoch, applied),
         Head(in).kind = "settings" <=> remote /= {}
  PROVE  Dated(remote, Tail(in), epoch, applied)
<1>1. /\ Tail(in) \in Seq(InFrames) /\ Len(Tail(in)) = Len(in) - 1
      /\ \A i \in 1 .. Len(Tail(in)) : Tail(in)[i] = in[i + 1]
  BY HeadTailProperties
<1>2. /\ Len(in) \in Nat /\ Len(in) >= 1 /\ Len(Tail(in)) \in Nat
      /\ Tail(in) = <<>> <=> Len(Tail(in)) = 0
  <2>1. \A s \in Seq(InFrames) : Len(s) \in Nat /\ (s = <<>> <=> Len(s) = 0)
    BY EmptyIsShort
  <2>2. Len(in) \in Nat /\ Len(in) /= 0
    BY <2>1
  <2>3. Len(Tail(in)) \in Nat /\ (Tail(in) = <<>> <=> Len(Tail(in)) = 0)
    BY <1>1, <2>1
  <2> QED
    BY <2>2, <2>3
<1>3. Head(in) = in[1]
  OBVIOUS
<1>4. in[1].epoch = applied /\ epoch = After(in[Len(in)])
  BY DEF Dated, Due
<1>5. After(in[1]) = Due(remote, applied)
  BY <1>3, <1>4 DEF After, Due
<1>6. \A k \in 1 .. Len(in) - 1 : in[k + 1].epoch = After(in[k])
  BY DEF Dated
<1>7. CASE Len(in) = 1
  <2>1. Tail(in) = <<>>
    BY <1>1, <1>2, <1>7
  <2> QED
    BY <1>1, <1>4, <1>5, <1>7, <2>1 DEF Dated
<1>8. CASE Len(in) > 1
  <2>1. Tail(in) /= <<>>
    BY <1>1, <1>2, <1>8
  <2>2. Tail(in)[1] = in[2] /\ in[2].epoch = After(in[1])
    BY <1>1, <1>2, <1>6, <1>8
  <2>3. Tail(in)[Len(Tail(in))] = in[Len(in)]
    BY <1>1, <1>2, <1>8
  <2>4. \A k \in 1 .. Len(Tail(in)) - 1 : Tail(in)[k + 1].epoch = After(Tail(in)[k])
    BY <1>1, <1>2, <1>6
  <2> QED
    BY <1>4, <1>5, <2>1, <2>2, <2>3, <2>4 DEF Dated
<1> QED
  BY <1>2, <1>7, <1>8

LEMMA DatedBySpeaking ==
  ASSUME NEW in \in Seq(InFrames), NEW frame \in InFrames, NEW epoch, NEW applied,
         NEW remote, Dated(remote, in, epoch, applied), frame.epoch = epoch
  PROVE  Dated(remote, in \o <<frame>>, After(frame), applied)
<1> DEFINE out == in \o <<frame>>
<1>1. out = Append(in, frame)
  BY AppendIsConcat
<1>2. /\ out /= <<>> /\ Len(out) = Len(in) + 1
      /\ \A i \in 1 .. Len(in) : out[i] = in[i]
      /\ out[Len(in) + 1] = frame
  BY <1>1, AppendProperties
<1>3. Len(in) \in Nat
  BY LenProperties
<1> HIDE DEF out
<1>4. CASE in = <<>>
  <2>1. Len(in) = 0
    BY <1>4, EmptySeq
  <2> QED
    BY <1>2, <1>4, <2>1 DEF Dated, out
<1>5. CASE in /= <<>>
  <2>1. Len(in) \in Nat \ {0}
    BY <1>5, EmptySeq
  <2>2. out[1].epoch = Due(remote, applied)
    BY <1>2, <1>5, <2>1 DEF Dated
  <2>3. frame.epoch = After(in[Len(in)])
    BY <1>5 DEF Dated
  <2>4. ASSUME NEW k \in 1 .. Len(out) - 1
        PROVE  out[k + 1].epoch = After(out[k])
    <3>1. CASE k = Len(in)
      BY <1>2, <2>1, <2>3, <3>1
    <3>2. CASE k < Len(in)
      BY <1>2, <2>1, <3>2 DEF Dated
    <3> QED
      BY <1>2, <1>3, <3>1, <3>2
  <2> QED
    BY <1>2, <2>2, <2>4 DEF Dated, out
<1> QED
  BY <1>4, <1>5

----------------------------------------------------------------------------
(* Frames to the peer.                                                     *)

LEMMA CountedByWriting ==
  ASSUME NEW pipe \in Seq(OutFrames), NEW frame \in OutFrames, NEW acked,
         NEW applied \in Nat, Counted(pipe, acked, applied)
  PROVE  Counted(Append(pipe, frame), acked, applied + Acks(frame))
<1>1. PICK c : Numbers(c, pipe, acked, applied)
  BY DEF Counted
<1> DEFINE longer == Append(pipe, frame)
           n == Len(pipe)
           d == [k \in 0 .. n + 1 |-> IF k <= n THEN c[k] ELSE applied + Acks(frame)]
<1>2. /\ n \in Nat /\ Len(longer) = n + 1
      /\ \A i \in 1 .. n : longer[i] = pipe[i]
      /\ longer[n + 1] = frame
  BY AppendProperties, LenProperties
<1>3. Acks(frame) \in {0, 1}
  BY DEF Acks
<1>4. \A k \in 0 .. n : c[k] \in Nat /\ c[k] <= applied
  BY <1>1 DEF Numbers
<1>5. d \in [0 .. n + 1 -> Nat]
  BY <1>2, <1>3, <1>4
<1>6. d[0] = acked /\ d[n + 1] = applied + Acks(frame)
  BY <1>1, <1>2 DEF Numbers
<1>7. ASSUME NEW k \in 1 .. n + 1
      PROVE  d[k] = d[k - 1] + Acks(longer[k])
  <2>1. CASE k = n + 1
    <3>1. d[k] = applied + Acks(frame) /\ d[k - 1] = c[n]
      BY <1>2, <2>1
    <3>2. c[n] = applied
      BY <1>1 DEF Numbers
    <3> QED
      BY <1>2, <2>1, <3>1, <3>2
  <2>2. CASE k <= n
    <3>1. d[k] = c[k] /\ d[k - 1] = c[k - 1]
      BY <1>2, <2>2
    <3>2. c[k] = c[k - 1] + Acks(pipe[k])
      BY <1>1, <2>2 DEF Numbers
    <3> QED
      BY <1>2, <2>2, <3>1, <3>2
  <2> QED
    BY <1>2, <2>1, <2>2
<1>8. \A k \in 0 .. n + 1 : d[k] <= applied + Acks(frame)
  BY <1>2, <1>3, <1>4
<1> HIDE DEF longer, n, d
<1>9. Numbers(d, longer, acked, applied + Acks(frame))
  BY <1>2, <1>5, <1>6, <1>7, <1>8 DEF Numbers
<1> QED
  BY <1>9 DEF Counted, longer

LEMMA CountedByReceiving ==
  ASSUME NEW pipe \in Seq(OutFrames), pipe /= <<>>, NEW acked, NEW applied \in Nat,
         Counted(pipe, acked, applied)
  PROVE  Counted(Tail(pipe), acked + Acks(Head(pipe)), applied)
<1>1. PICK c : Numbers(c, pipe, acked, applied)
  BY DEF Counted
<1> DEFINE n == Len(Tail(pipe))
           d == [k \in 0 .. n |-> c[k + 1]]
<1>2. /\ n \in Nat /\ Len(pipe) = n + 1
      /\ \A i \in 1 .. n : Tail(pipe)[i] = pipe[i + 1]
      /\ Head(pipe) = pipe[1]
  BY HeadTailProperties, LenProperties
<1> HIDE DEF n
<1>3. d \in [0 .. n -> Nat]
  BY <1>1, <1>2 DEF Numbers
<1>4. d[0] = acked + Acks(Head(pipe)) /\ d[n] = applied
  BY <1>1, <1>2 DEF Numbers
<1>5. \A k \in 1 .. n : d[k] = d[k - 1] + Acks(Tail(pipe)[k])
  BY <1>1, <1>2 DEF Numbers
<1>6. \A k \in 0 .. n : d[k] <= applied
  BY <1>1, <1>2 DEF Numbers
<1> HIDE DEF d
<1>7. Numbers(d, Tail(pipe), acked + Acks(Head(pipe)), applied)
  BY <1>3, <1>4, <1>5, <1>6 DEF Numbers, n
<1> QED
  BY <1>7 DEF Counted

\* What a step makes of the frames to the peer.
LEMMA Wires ==
  ASSUME IInv
  PROVE  /\ codec \in Codecs /\ codec.buf \in Seq(OutFrames)
         /\ net \in Nets /\ net.out \in Seq(OutFrames) /\ net.in \in Seq(InFrames)
         /\ Pipe \in Seq(OutFrames)
         /\ conn \in Connections /\ peer \in Peers
         /\ log \in Logs /\ log.applied \in Nat
<1>1. codec \in Codecs /\ net \in Nets /\ conn \in Connections /\ peer \in Peers /\ log \in Logs
  BY DEF IInv, Types
<1>2. codec.buf \in Seq(OutFrames) /\ net.out \in Seq(OutFrames) /\ net.in \in Seq(InFrames)
  BY <1>1 DEF Codecs, Nets
<1>3. Pipe \in Seq(OutFrames)
  BY <1>2, ConcatProperties DEF Pipe
<1>4. log.applied \in Nat
  BY <1>1 DEF Logs
<1> QED
  BY <1>1, <1>2, <1>3, <1>4

LEMMA Associative ==
  \A s, t, u \in Seq(OutFrames) : (s \o t) \o u = s \o (t \o u)
BY ConcatAssociative

LEMMA Rejoined ==
  ASSUME NEW s \in Seq(OutFrames), NEW n \in 0 .. Len(s)
  PROVE  SubSeq(s, 1, n) \o SubSeq(s, n + 1, Len(s)) = s
<1>1. Len(s) \in Nat
  BY LenProperties
<1>2. 1 \in 1 .. Len(s) + 1 /\ n \in 1 - 1 .. Len(s) /\ Len(s) \in n .. Len(s)
  BY <1>1
<1>3. SubSeq(s, 1, n) \o SubSeq(s, n + 1, Len(s)) = SubSeq(s, 1, Len(s))
  BY <1>2, ConcatAdjacentSubSeq
<1> QED
  BY <1>3, SubSeqFull

LEMMA PipeByBuffering ==
  ASSUME IInv, NEW frame \in OutFrames, Buffer(frame), net' = net
  PROVE  Pipe' = Append(Pipe, frame)
<1>1. /\ codec.buf \in Seq(OutFrames) /\ net.out \in Seq(OutFrames) /\ codec \in Codecs
      /\ Pipe \in Seq(OutFrames)
  BY Wires
<1>2. codec'.buf = Append(codec.buf, frame)
  BY <1>1 DEF Buffer, Codecs
<1>3. Append(codec.buf, frame) = codec.buf \o <<frame>>
  BY <1>1, AppendIsConcat
<1>4. <<frame>> \in Seq(OutFrames)
  OBVIOUS
<1>5. (net.out \o codec.buf) \o <<frame>> = net.out \o (codec.buf \o <<frame>>)
  BY <1>1, <1>4, Associative
<1>6. Append(Pipe, frame) = Pipe \o <<frame>>
  BY <1>1, AppendIsConcat
<1> QED
  BY <1>2, <1>3, <1>5, <1>6 DEF Pipe

LEMMA PipeByFlushing ==
  ASSUME IInv, NEW done, NEW blocked, Flush(done, blocked)
  PROVE  Pipe' = Pipe /\ net'.in = net.in
<1> DEFINE room == WireRoom - Len(net.out)
           n == IF Len(codec.buf) <= room THEN Len(codec.buf) ELSE room
           rest == SubSeq(codec.buf, n + 1, Len(codec.buf))
           written == SubSeq(codec.buf, 1, n)
<1>1. /\ codec.buf \in Seq(OutFrames) /\ net.out \in Seq(OutFrames)
      /\ codec \in Codecs /\ net \in Nets
  BY Wires
<1>2. Len(codec.buf) \in Nat /\ Len(net.out) \in Nat
  BY <1>1, LenProperties
<1>3. n \in 0 .. Len(codec.buf)
  <2>1. room \in Nat
    BY <1>1, <1>2, ConnectionAssumption DEF Nets
  <2> QED
    BY <1>2, <2>1
<1> HIDE DEF n
<1>4. written \o rest = codec.buf
  BY <1>1, <1>3, Rejoined
<1>5. rest \in Seq(OutFrames) /\ written \in Seq(OutFrames)
  <2>1. \A j \in 1 .. Len(codec.buf) : codec.buf[j] \in OutFrames
    BY <1>1, ElementOfSeq
  <2> QED
    BY <1>2, <1>3, <2>1, SubSeqProperties
<1>6. net' = [net EXCEPT !.out = net.out \o written] /\ codec'.buf = rest
  BY DEF Flush, n
<1> HIDE DEF rest, written
<1>7. net'.out = net.out \o written /\ net'.in = net.in
  BY <1>1, <1>6 DEF Nets
<1>8. (net.out \o written) \o rest = net.out \o (written \o rest)
  BY <1>1, <1>5, Associative
<1> QED
  BY <1>4, <1>6, <1>7, <1>8 DEF Pipe

LEMMA PipeByReceiving ==
  ASSUME IInv, net.out /= <<>>, net'.out = Tail(net.out), codec'.buf = codec.buf
  PROVE  Pipe /= <<>> /\ Head(Pipe) = Head(net.out) /\ Pipe' = Tail(Pipe)
<1>1. codec.buf \in Seq(OutFrames) /\ net.out \in Seq(OutFrames) /\ Pipe \in Seq(OutFrames)
  BY Wires
<1>2. Head(net.out) \in OutFrames /\ Tail(net.out) \in Seq(OutFrames)
  BY <1>1, HeadTailProperties
<1>3. net.out = <<Head(net.out)>> \o Tail(net.out)
  <2>1. Len(net.out) \in 1 .. Len(net.out) /\ 1 \in 1 .. Len(net.out)
    BY <1>1, EmptySeq
  <2>2. SubSeq(net.out, 1, Len(net.out)) =
          <<net.out[1]>> \o SubSeq(net.out, 2, Len(net.out))
    BY <1>1, <2>1, SubSeqRecursiveFirst
  <2>3. SubSeq(net.out, 1, Len(net.out)) = net.out
    BY <1>1, SubSeqFull
  <2>4. Tail(net.out) = SubSeq(net.out, 2, Len(net.out))
    BY <1>1, TailIsSubSeq
  <2>5. Head(net.out) = net.out[1]
    OBVIOUS
  <2> QED
    BY <2>2, <2>3, <2>4, <2>5
<1> DEFINE rest == Tail(net.out) \o codec.buf
<1>4. rest \in Seq(OutFrames)
  BY <1>1, <1>2, ConcatProperties
<1>5. Pipe = <<Head(net.out)>> \o rest
  <2>1. <<Head(net.out)>> \in Seq(OutFrames)
    BY <1>2
  <2>2. (<<Head(net.out)>> \o Tail(net.out)) \o codec.buf = <<Head(net.out)>> \o rest
    BY <1>1, <1>2, <2>1, Associative
  <2> QED
    BY <1>3, <2>2 DEF Pipe
<1> HIDE DEF rest
<1>6. Pipe /= <<>> /\ Head(Pipe) = Head(net.out) /\ Tail(Pipe) = rest
  BY <1>2, <1>4, <1>5
<1>7. Pipe' = rest
  BY DEF Pipe, rest
<1> QED
  BY <1>6, <1>7

----------------------------------------------------------------------------
(* Kinds of steps.                                                         *)

\* A step that changes nothing the account is about.
LEMMA ApartInOrder ==
  ASSUME SInv, conn'.remote = conn.remote, net'.in = net.in, Pipe' = Pipe,
         peer'.epoch = peer.epoch, peer'.acked = peer.acked, log'.applied = log.applied
  PROVE  Dates' /\ Counts'
  BY DEF SInv, Dates, Counts

\* A frame that acknowledges nothing is buffered.
LEMMA BufferInOrder ==
  ASSUME SInv, NEW frame \in OutFrames, frame.kind /= "ack", Buffer(frame),
         conn'.remote = conn.remote, net' = net, peer' = peer,
         log'.applied = log.applied
  PROVE  Dates' /\ Counts'
<1>1. Pipe' = Append(Pipe, frame)
  BY PipeByBuffering DEF SInv
<1>2. Pipe \in Seq(OutFrames) /\ log.applied \in Nat
  BY Wires DEF SInv
<1>3. Counted(Append(Pipe, frame), peer.acked, log.applied + Acks(frame))
  BY <1>2, CountedByWriting DEF SInv, Counts
<1>4. log.applied + Acks(frame) = log.applied
  BY <1>2 DEF Acks
<1>5. Counts'
  BY <1>1, <1>3, <1>4 DEF Counts
<1>6. Dates'
  BY DEF SInv, Dates
<1> QED
  BY <1>5, <1>6

\* The task writes what it has buffered.
LEMMA FlushInOrder ==
  ASSUME SInv, NEW done, NEW blocked, Flush(done, blocked),
         conn'.remote = conn.remote, peer' = peer, log' = log
  PROVE  Dates' /\ Counts'
<1>1. Pipe' = Pipe /\ net'.in = net.in
  BY PipeByFlushing DEF SInv
<1> QED
  BY <1>1, ApartInOrder

\* A frame is read: if it is SETTINGS, they wait to be acknowledged.
LEMMA ReadInOrder ==
  ASSUME SInv, NEW kind, Receives(kind), Consume,
         kind = "settings" <=> conn'.remote /= {},
         codec' = codec, peer' = peer, log' = log
  PROVE  Dates' /\ Counts'
<1>1. /\ net \in Nets /\ net.in \in Seq(InFrames)
      /\ net.in /= <<>> /\ Head(net.in).kind = kind
  BY Wires DEF SInv, Receives
<1>2. conn.remote = {}
  BY Reading DEF SInv
<1>3. net'.in = Tail(net.in) /\ net'.out = net.out
  BY <1>1 DEF Consume, Nets
<1>4. Dated(conn'.remote, Tail(net.in), peer.epoch, log.applied)
  BY <1>1, <1>2, DatedByReading DEF SInv, Dates
<1>5. Dates'
  BY <1>3, <1>4 DEF Dates
<1>6. Counts'
  BY <1>3 DEF SInv, Counts, Pipe
<1> QED
  BY <1>5, <1>6

\* The peer sends a frame of its own accord.
LEMMA SpeakInOrder ==
  ASSUME SInv, NEW kind, NEW arg, In(kind, arg) \in InFrames,
         Transport(net.out, <<In(kind, arg)>>), conn' = conn, log' = log,
         peer'.acked = peer.acked, peer'.epoch = After(In(kind, arg))
  PROVE  Dates' /\ Counts'
<1>1. net.in \in Seq(InFrames) /\ codec \in Codecs
  BY Wires DEF SInv
<1>2. In(kind, arg).epoch = peer.epoch
  BY DEF In
<1>3. net'.in = net.in \o <<In(kind, arg)>> /\ net'.out = net.out /\ codec'.buf = codec.buf
  BY <1>1 DEF Transport, Codecs
<1>4. Dated(conn.remote, net.in \o <<In(kind, arg)>>, After(In(kind, arg)), log.applied)
  BY <1>1, <1>2, DatedBySpeaking DEF SInv, Dates
<1>5. Dates'
  BY <1>3, <1>4 DEF Dates
<1>6. Counts'
  BY <1>3 DEF SInv, Counts, Pipe
<1> QED
  BY <1>5, <1>6

----------------------------------------------------------------------------
(* Steps.                                                                  *)

LEMMA OthersInOrder == ASSUME SInv, Handles \/ Calls \/ Pinger PROVE Dates' /\ Counts'
<1>1. conn \in Connections
  BY Wires DEF SInv
<1>2. CASE Handles
  BY <1>2, ApartInOrder
     DEF Handles, FinishStream, DropHandle, SendRequest, DropSendRequest, Others, Pipe
<1>3. CASE Calls
  <2>1. conn'.remote = conn.remote /\ UNCHANGED <<codec, net, peer, log>>
    BY <1>1, <1>3
       DEF Calls, GracefulShutdown, SetInitialWindowSize, AbruptShutdown, Connections
  <2> QED
    BY <2>1, ApartInOrder DEF Pipe
<1>4. CASE Pinger
  BY <1>4, ApartInOrder
     DEF Pinger, SendPing, WakeForPing, RegisterForPong, CheckPong, OnlyPinger, Pipe
<1> QED
  BY <1>2, <1>3, <1>4

\* What the peer is acknowledged it counts, and its answers are dated.
LEMMA PeerReadsInOrder == ASSUME SInv, PeerReads PROVE Dates' /\ Counts'
<1> DEFINE frame == Head(net.out)
<1>1. /\ codec \in Codecs /\ net.out \in Seq(OutFrames) /\ net.in \in Seq(InFrames)
      /\ peer \in Peers /\ Pipe \in Seq(OutFrames) /\ log.applied \in Nat
  BY Wires DEF SInv
<1>2. net.out /= <<>> /\ Transport(Tail(net.out), Replies(frame)) /\ UNCHANGED PeerOnly
  BY DEF PeerReads
<1>3. frame \in OutFrames
  BY <1>1, <1>2, HeadTailProperties
<1>4. peer'.epoch = peer.epoch /\ peer'.acked = peer.acked + Acks(frame)
  <2>1. peer.acked \in Nat
    BY <1>1 DEF Peers
  <2>2. \E opened : peer' = [peer EXCEPT
          !.acked = IF frame.kind = "ack" THEN peer.acked + 1 ELSE peer.acked, !.opened = opened]
    BY DEF PeerReads
  <2> QED
    BY <1>1, <2>1, <2>2 DEF Peers, Acks
<1> HIDE DEF frame
<1>5. /\ net'.out = Tail(net.out) /\ codec'.buf = codec.buf
      /\ net'.in = net.in \o Replies(frame)
  BY <1>1, <1>2 DEF Transport, Codecs
<1>6. Dates'
  <2>1. CASE Replies(frame) = <<>>
    <3>1. net'.in = net.in
      BY <1>1, <1>5, <2>1, ConcatEmptySeq
    <3> QED
      BY <1>2, <1>4, <3>1 DEF SInv, Dates, PeerOnly
  <2>2. CASE Replies(frame) /= <<>>
    <3>1. PICK kind \in {"ack", "pong"} : \E arg :
            Replies(frame) = <<In(kind, arg)>> /\ In(kind, arg) \in InFrames
      <4>1. In("ack", 0) \in InFrames
        BY <1>1 DEF In, InFrames, Peers
      <4>2. frame.kind = "ping" => In("pong", frame.arg) \in InFrames
        BY <1>1, <1>3 DEF In, InFrames, OutFrames, Peers
      <4> QED
        BY <2>2, <4>1, <4>2 DEF Replies
    <3>2. PICK arg : Replies(frame) = <<In(kind, arg)>> /\ In(kind, arg) \in InFrames
      BY <3>1
    <3>3. In(kind, arg).epoch = peer.epoch /\ After(In(kind, arg)) = peer.epoch
      BY DEF In, After
    <3>4. Dated(conn.remote, net.in \o <<In(kind, arg)>>, peer.epoch, log.applied)
      BY <1>1, <3>2, <3>3, DatedBySpeaking DEF SInv, Dates
    <3> QED
      BY <1>2, <1>4, <1>5, <3>2, <3>4 DEF Dates, PeerOnly
  <2> QED
    BY <2>1, <2>2
<1>7. Counts'
  <2>1. Pipe /= <<>> /\ Head(Pipe) = frame /\ Pipe' = Tail(Pipe)
    BY <1>2, <1>5, PipeByReceiving DEF SInv, frame
  <2>2. Counted(Tail(Pipe), peer.acked + Acks(frame), log.applied)
    BY <1>1, <2>1, CountedByReceiving DEF SInv, Counts
  <2> QED
    BY <1>2, <1>4, <2>1, <2>2 DEF Counts, PeerOnly
<1> QED
  BY <1>6, <1>7

LEMMA PeerInOrder == ASSUME SInv, Peer PROVE Dates' /\ Counts'
<1>1. peer \in Peers /\ peer.epoch \in Nat /\ scene \in SceneSpace
  BY Wires, ConnectionAssumption DEF SInv, IInv, Types, Peers
<1>2. CASE PeerReads
  BY <1>2, PeerReadsInOrder
<1>3. CASE \E limit \in Limits : PeerChangesSettings(limit)
  <2>1. PICK limit \in Limits : PeerChangesSettings(limit)
    BY <1>3
  <2>2. In("settings", limit) \in InFrames
    BY <1>1 DEF In, InFrames
  <2>3. peer'.acked = peer.acked /\ peer'.epoch = After(In("settings", limit))
    BY <1>1, <2>1 DEF PeerChangesSettings, Peers, After, In
  <2> QED
    BY <2>1, <2>2, <2>3, SpeakInOrder DEF PeerChangesSettings, PeerSends, PeerOnly
<1>4. CASE \/ PeerOpens \/ PeerPings \/ PeerBreaksRules
           \/ \E id \in Ids : PeerAnswers(id) \/ PeerResets(id)
           \/ \E id \in 0 .. MaxId, reason \in scene.reasons : PeerGoesAway(id, reason)
           \/ \E kind \in {"eof", "broken"} : PeerCloses(kind)
  <2>1. peer'.acked = peer.acked /\ peer'.epoch = peer.epoch /\ UNCHANGED PeerOnly
    BY <1>1, <1>4 DEF PeerOpens, PeerPings, PeerBreaksRules, PeerAnswers, PeerResets,
       PeerGoesAway, PeerCloses, Peers
  <2>2. PICK kind, arg : /\ kind /= "settings" /\ In(kind, arg) \in InFrames
                         /\ Transport(net.out, <<In(kind, arg)>>)
    <3>1. /\ In("ping", 0) \in InFrames /\ In("pong", "other") \in InFrames
          /\ In("bad", 0) \in InFrames /\ In("eof", 0) \in InFrames
          /\ In("broken", 0) \in InFrames
      BY <1>1 DEF In, InFrames
    <3>2. \A id \in Ids : /\ In("headers", id) \in InFrames /\ In("reset", id) \in InFrames
                          /\ In("response", id) \in InFrames
      BY <1>1 DEF In, InFrames
    <3>3. \A id \in 0 .. MaxId, reason \in scene.reasons :
            In("goAway", [id |-> id, reason |-> reason]) \in InFrames
      BY <1>1 DEF In, InFrames, GoAwayFrames, SceneSpace
    <3> QED
      BY <1>4, <3>1, <3>2, <3>3 DEF PeerOpens, PeerPings, PeerBreaksRules, PeerAnswers,
         PeerResets, PeerGoesAway, PeerCloses, PeerSends
  <2>3. After(In(kind, arg)) = peer.epoch
    BY <2>2 DEF After, In
  <2> QED
    BY <2>1, <2>2, <2>3, SpeakInOrder DEF PeerOnly
<1> QED
  BY <1>2, <1>3, <1>4 DEF Peer

\* Steps of the task that move it, at most for a flush.
LEMMA MovesInOrder ==
  ASSUME SInv,
         \/ Handshake \/ ReadPreface \/ BadPreface \/ StartPoll \/ CheckReferences
         \/ MakeRoom \/ CloseAfterGoAway \/ NoUserPing \/ RegisterPing \/ ReadNothing
         \/ WakePong \/ AllBuffered \/ FlushAll \/ CheckIdle \/ ParkClient
         \/ ParkServer \/ Shutdown \/ Finish \/ WakeOnDrop
  PROVE  Dates' /\ Counts'
<1>1. conn \in Connections /\ codec \in Codecs /\ peer \in Peers
  BY Wires DEF SInv
<1>2. CASE Handshake \/ MakeRoom \/ FlushAll \/ Shutdown
  <2>1. \E done, blocked : Flush(done, blocked)
    BY <1>2 DEF Handshake, MakeRoom, FlushAll, Shutdown
  <2>2. conn'.remote = conn.remote /\ peer' = peer /\ log' = log
    BY <1>1, <1>2 DEF Handshake, MakeRoom, FlushAll, Shutdown, Idle, task, Connections
  <2> QED
    BY <2>1, <2>2, FlushInOrder
<1>3. CASE CloseAfterGoAway
  <2>1. conn'.remote = conn.remote
    BY <1>1, <1>3 DEF CloseAfterGoAway, CloseWith, Closing, Connections
  <2> QED
    BY <1>3, <2>1, ApartInOrder DEF CloseAfterGoAway, Pipe
<1>4. CASE BadPreface
  <2>1. peer'.epoch = peer.epoch /\ peer'.acked = peer.acked
    BY <1>1, <1>4 DEF BadPreface, Peers
  <2> QED
    BY <1>4, <2>1, ApartInOrder DEF BadPreface, Pipe
<1>5. CASE ReadNothing
  <2>1. codec'.buf = codec.buf
    BY <1>1, <1>5 DEF ReadNothing, Codecs
  <2> QED
    BY <1>5, <2>1, ApartInOrder DEF ReadNothing, Idle, Pipe
<1>6. CASE \/ ReadPreface \/ StartPoll \/ CheckReferences \/ NoUserPing \/ RegisterPing
           \/ WakePong \/ AllBuffered \/ CheckIdle \/ ParkClient \/ ParkServer
           \/ Finish \/ WakeOnDrop
  BY <1>6, ApartInOrder
     DEF ReadPreface, StartPoll, CheckReferences, NoUserPing, RegisterPing, WakePong,
         AllBuffered, CheckIdle, ParkClient, ParkServer, Finish, WakeOnDrop, WakePinger,
         Idle, task, Pipe
<1> QED
  BY <1>2, <1>3, <1>4, <1>5, <1>6

LEMMA WritesInOrder ==
  ASSUME SInv,
         \/ SendGoAway \/ SendPong \/ SendShutdownPing \/ SendUserPing
         \/ SendLocalSettings \/ WriteLastFrame \/ OpenStream
  PROVE  Dates' /\ Counts'
<1>1. conn \in Connections /\ goAway \in GoAways /\ inner \in Inners /\ log \in Logs
  BY DEF SInv, IInv, Types
<1>2. PICK frame \in OutFrames : frame.kind /= "ack" /\ Buffer(frame)
  <2>1. CASE SendGoAway
    <3>1. PICK f \in goAway.pending : Buffer(Out("goAway", f))
      BY <2>1 DEF SendGoAway
    <3>2. f \in GoAwayFrames
      BY <1>1, FramesOfGoAway
    <3> QED
      BY <3>1, <3>2 DEF Out, OutFrames
  <2>2. CASE SendPong \/ SendShutdownPing \/ SendUserPing \/ SendLocalSettings
    BY <2>2 DEF SendPong, SendShutdownPing, SendUserPing, SendLocalSettings, Out, OutFrames
  <2>3. CASE WriteLastFrame \/ OpenStream
    <3>1. PICK id \in Ids : Buffer(Out("end", id)) \/ Buffer(Out("headers", id))
      BY <1>1, <2>3 DEF WriteLastFrame, OpenStream, Inners
    <3> QED
      BY <3>1 DEF Out, OutFrames
  <2> QED
    BY <2>1, <2>2, <2>3
<1>3. conn'.remote = conn.remote
  BY <1>1 DEF SendGoAway, SendPong, SendShutdownPing, SendUserPing, SendLocalSettings,
     WriteLastFrame, OpenStream, CloseWith, Closing, task, Connections
<1>4. net' = net /\ peer' = peer
  BY DEF SendGoAway, SendPong, SendShutdownPing, SendUserPing, SendLocalSettings,
     WriteLastFrame, OpenStream
<1>5. log'.applied = log.applied
  BY <1>1 DEF SendGoAway, SendPong, SendShutdownPing, SendUserPing, SendLocalSettings,
     WriteLastFrame, OpenStream, Logs
<1> QED
  BY <1>2, <1>3, <1>4, <1>5, BufferInOrder

\* A refusal is written, or ends the connection.
LEMMA RefusalInOrder == ASSUME SInv, SendRefusal PROVE Dates' /\ Counts'
<1>1. conn \in Connections
  BY DEF SInv, IInv, Types
<1>2. net' = net /\ peer' = peer /\ log' = log
  BY DEF SendRefusal
<1>3. CASE inner.refusals < MaxRefusals
  <2>1. PICK id \in conn.refusal : Buffer(Out("reset", id))
    BY <1>3 DEF SendRefusal
  <2>2. Out("reset", id) \in OutFrames
    <3>1. id \in Ids
      BY <1>1, OneAtMost DEF Connections
    <3> QED
      BY <3>1 DEF Out, OutFrames
  <2>3. conn'.remote = conn.remote
    BY <1>1, <1>3 DEF SendRefusal, Connections
  <2>4. Out("reset", id).kind /= "ack"
    BY DEF Out
  <2> QED
    BY <1>2, <2>1, <2>2, <2>3, <2>4, BufferInOrder
<1>4. CASE ~(inner.refusals < MaxRefusals)
  <2>1. conn'.remote = conn.remote /\ codec' = codec
    BY <1>1, <1>4 DEF SendRefusal, ConnectionError, Closing, Connections
  <2> QED
    BY <1>2, <2>1, ApartInOrder DEF Pipe
<1> QED
  BY <1>3, <1>4

\* SETTINGS come into force with the acknowledgement that is buffered.
LEMMA AckInOrder == ASSUME SInv, SendSettingsAck PROVE Dates' /\ Counts'
<1>1. /\ conn \in Connections /\ log \in Logs /\ log.applied \in Nat
      /\ Pipe \in Seq(OutFrames)
  BY Wires DEF SInv
<1>2. Out("ack", 0) \in OutFrames /\ Acks(Out("ack", 0)) = 1
  BY DEF Out, OutFrames, Acks
<1>3. /\ Buffer(Out("ack", 0)) /\ net' = net /\ peer' = peer
      /\ conn.remote /= {} /\ conn'.remote = {} /\ log'.applied = log.applied + 1
  BY <1>1 DEF SendSettingsAck, Connections, Logs
<1>4. Pipe' = Append(Pipe, Out("ack", 0))
  BY <1>2, <1>3, PipeByBuffering DEF SInv
<1>5. Counted(Append(Pipe, Out("ack", 0)), peer.acked, log.applied + 1)
  BY <1>1, <1>2, CountedByWriting DEF SInv, Counts
<1>6. Due(conn'.remote, log'.applied) = Due(conn.remote, log.applied)
  BY <1>3 DEF Due
<1>7. Dates'
  BY <1>3, <1>6 DEF SInv, Dates, Dated
<1> QED
  BY <1>3, <1>4, <1>5, <1>7 DEF Counts

LEMMA ReadsInOrder == ASSUME SInv, Read, ~ReadNothing PROVE Dates' /\ Counts'
<1>1. PICK kind : Receives(kind) /\ Consume /\ (kind = "settings" <=> ReadSettings)
  BY DEF Read, ReadHeaders, ReadReset, ReadResponse, ReadPing, ReadShutdownPong, ReadUserPong,
     ReadUnknownPong, ReadSettings, ReadSettingsAck, ReadGoAway, ReadBad, ReadEof, ReadBroken,
     Receives
<1>2. conn \in Connections /\ conn.remote = {}
  BY <1>1, Reading DEF SInv
<1>3. codec' = codec /\ peer' = peer /\ log' = log
  BY DEF Read, ReadHeaders, ReadReset, ReadResponse, ReadPing, ReadShutdownPong, ReadUserPong,
     ReadUnknownPong, ReadSettings, ReadSettingsAck, ReadGoAway, ReadBad, ReadEof, ReadBroken,
     Rest
<1>4. kind = "settings" <=> conn'.remote /= {}
  <2>1. CASE ReadSettings
    <3>1. conn'.remote = {Arg}
      BY <1>2, <2>1 DEF ReadSettings, ReadOn, Connections
    <3> QED
      BY <1>1, <2>1, <3>1
  <2>2. CASE ~ReadSettings
    <3>1. \A reason : ReadFails(reason) => conn'.remote = conn.remote
      BY <1>2 DEF ReadFails, ConnectionError, Closing, Connections
    <3>2. conn'.remote = conn.remote
      <4>1. CASE ReadHeaders \/ ReadReset \/ ReadResponse \/ ReadUnknownPong \/ ReadPing
        BY <1>2, <3>1, <4>1 DEF ReadHeaders, ReadReset, ReadResponse, ReadUnknownPong,
           ReadPing, ReadOn, Connections
      <4>2. CASE ReadSettingsAck \/ ReadGoAway \/ ReadBad
        BY <1>2, <3>1, <4>2 DEF ReadSettingsAck, ReadGoAway, ReadBad, ReadOn, Connections
      <4>3. CASE ReadShutdownPong \/ ReadUserPong \/ ReadEof \/ ReadBroken
        BY <1>2, <4>3 DEF ReadShutdownPong, ReadUserPong, ReadEof, ReadBroken, Closing,
           Connections
      <4> QED
        BY <2>2, <4>1, <4>2, <4>3 DEF Read
    <3> QED
      BY <1>1, <1>2, <2>2, <3>2
  <2> QED
    BY <2>1, <2>2
<1> QED
  BY <1>1, <1>3, <1>4, ReadInOrder

----------------------------------------------------------------------------
(* The invariant.                                                          *)

LEMMA StepInOrder == SInv /\ [Next]_vars => SInv'
<1> SUFFICES ASSUME SInv, [Next]_vars PROVE SInv'
  OBVIOUS
<1>1. IInv'
  BY StepKeeps DEF SInv
<1>2. CASE Task
  BY <1>1, <1>2, MovesInOrder, WritesInOrder, RefusalInOrder, AckInOrder, ReadsInOrder
     DEF Task, Duties, Complete, SInv
<1>3. CASE Handles \/ Calls \/ Pinger \/ Peer
  BY <1>1, <1>3, OthersInOrder, PeerInOrder DEF SInv
<1>4. CASE UNCHANGED vars
  BY <1>1, <1>4, ApartInOrder DEF vars, Pipe, SInv
<1> QED
  BY <1>2, <1>3, <1>4 DEF Next

LEMMA InitiallyInOrder == Init => SInv
<1> SUFFICES ASSUME Init PROVE Dates /\ Counts
  BY Initially DEF SInv
<1>1. net.in = <<[kind |-> "settings", arg |-> scene.limit, epoch |-> 0]>>
  BY DEF Init
<1>2. conn.remote = {} /\ peer.epoch = 1 /\ peer.acked = 0 /\ log.applied = 0
  BY DEF Init, NewConnection
<1>3. Dates
  BY <1>1, <1>2 DEF Dates, Dated, Due, After
<1>4. Pipe = <<Out("settings", 0)>>
  BY DEF Init, Pipe
<1>5. Numbers([k \in 0 .. 1 |-> 0], <<Out("settings", 0)>>, 0, 0)
  BY DEF Numbers, Acks, Out
<1>6. Counts
  BY <1>2, <1>4, <1>5 DEF Counts, Counted
<1> QED
  BY <1>3, <1>6

\* The account of SETTINGS holds of every behaviour of the connection: dates of
\* frames, and acknowledgements under way (settings.rs).
THEOREM SettingsInvariance == Spec => []SInv
<1> QED
  BY InitiallyInOrder, StepInOrder, PTL DEF Spec

\* A frame is read only when all SETTINGS the peer sent before it are in force,
\* and what the peer sees acknowledged is in force (settings.rs, connection.rs).
THEOREM SettingsAlwaysInOrder == Spec => []SettingsInOrder
<1>1. ASSUME SInv PROVE SettingsInOrder
  <2>1. ASSUME pc = "read", net.in /= <<>> PROVE Head(net.in).epoch = log.applied
    <3>1. conn.remote = {}
      BY <1>1, <2>1 DEF SInv, IInv, Ordered
    <3>2. Head(net.in) = net.in[1]
      OBVIOUS
    <3> QED
      BY <1>1, <2>1, <3>1, <3>2 DEF SInv, Dates, Dated, Due
  <2>2. peer.acked <= log.applied
    <3>1. PICK c : Numbers(c, Pipe, peer.acked, log.applied)
      BY <1>1 DEF SInv, Counts, Counted
    <3>2. Len(Pipe) \in Nat
      BY <1>1, Wires, LenProperties DEF SInv
    <3> QED
      BY <3>1, <3>2 DEF Numbers
  <2> QED
    BY <2>1, <2>2 DEF SettingsInOrder
<1> QED
  BY <1>1, SettingsInvariance, PTL

----------------------------------------------------------------------------
(* NeverAccused, a theorem about Connection.  What a peer that keeps the   *)
(* protocol has sent and this endpoint has not read yet is held against    *)
(* what this endpoint would complain of.  Asked: an acknowledgement under  *)
(* way answers the one SETTINGS of ours that waits for it, and there is at *)
(* most one of these on both wires.  Streamed: requests under way are in   *)
(* order and new, and a stream that is reset was opened before.  Falling:  *)
(* the identifiers of GOAWAY frames do not go up.                          *)

Asked(local, pipe, in) ==
  /\ \A j, k \in 1 .. Len(pipe) :
       pipe[j].kind = "settings" /\ pipe[k].kind = "settings" => j = k
  /\ \A j, k \in 1 .. Len(in) : in[j].kind = "ack" /\ in[k].kind = "ack" => j = k
  /\ \A j \in 1 .. Len(pipe), k \in 1 .. Len(in) :
       ~(pipe[j].kind = "settings" /\ in[k].kind = "ack")
  /\ \A j \in 1 .. Len(pipe) : pipe[j].kind = "settings" => local = "waitingAck"
  /\ \A k \in 1 .. Len(in) : in[k].kind = "ack" => local = "waitingAck"

Falling(in, sendMaxId, mine) ==
  /\ mine <= sendMaxId
  /\ \A k \in 1 .. Len(in) :
       in[k].kind = "goAway" => mine <= in[k].arg.id /\ in[k].arg.id <= sendMaxId
  /\ \A j, k \in 1 .. Len(in) :
       j < k /\ in[j].kind = "goAway" /\ in[k].kind = "goAway" => in[k].arg.id <= in[j].arg.id

\* The frame opens stream id.
OpensId(frame, id) == frame.kind = "headers" /\ frame.arg = id

\* Every stream below upTo was opened; those the endpoint has not seen it
\* ignores, or will see before anything else of them.
Streamed(in, next, maxId, upTo) ==
  /\ next <= upTo
  /\ \A k \in 1 .. Len(in) : in[k].kind = "headers" => next <= in[k].arg /\ in[k].arg < upTo
  /\ \A j, k \in 1 .. Len(in) :
       j < k /\ in[j].kind = "headers" /\ in[k].kind = "headers" => in[j].arg < in[k].arg
  /\ \A k \in 1 .. Len(in) : in[k].kind = "reset" =>
       \/ in[k].arg < next \/ in[k].arg > maxId
       \/ \E j \in 1 .. Len(in) : j < k /\ OpensId(in[j], in[k].arg)
  /\ \A id \in Ids : id < upTo =>
       \/ id < next \/ id > maxId
       \/ \E j \in 1 .. Len(in) : OpensId(in[j], id)

\* The frames of a peer that breaks no rule, before they are read.
Polite(in, i, p) ==
  /\ \A k \in 1 .. Len(in) : in[k].kind /= "bad"
  /\ Falling(in, i.sendMaxId, p.mine)
  /\ role = "server" => ~i.sender /\ Streamed(in, i.next, i.maxId, p.next)
  /\ role = "client" => \A k \in 1 .. Len(in) : in[k].kind \notin {"headers", "reset"}

\* Nobody was accused, nor will be for what was decided already.
Blameless(c, g, e) ==
  /\ c.reason /= "protocol" /\ e.result /= "protocol"
  /\ \A f \in g.going : f.reason /= "protocol"

Trusts == Blameless(conn, goAway, exec) /\ Asked(conn.local, Pipe, net.in) /\ Polite(net.in, inner, peer)

Executing(e) == DOMAIN e = {"woken", "had", "result", "calls"}

\* SETTINGS of ours are due where they are sent.
LocalDuty == pc = "local" => conn.local = "toSend"

AInv == IInv /\ Executing(exec) /\ LocalDuty /\ (~peer.broke => Trusts)

----------------------------------------------------------------------------
(* What frames do to the account of our SETTINGS.                          *)

\* What a sequence is after a frame more, or a frame less.
LEMMA Longer ==
  ASSUME NEW S, NEW s \in Seq(S), NEW x
  PROVE  /\ Len(s) \in Nat /\ Len(Append(s, x)) = Len(s) + 1
         /\ \A k \in 1 .. Len(s) : Append(s, x)[k] = s[k]
         /\ Append(s, x)[Len(s) + 1] = x
<1>1. s \in Seq(S \cup {x}) /\ x \in S \cup {x}
  <2>1. Len(s) \in Nat /\ \A k \in 1 .. Len(s) : s[k] \in S
    BY LenProperties, ElementOfSeq
  <2> QED
    BY <2>1
<1> QED
  BY <1>1, AppendProperties, LenProperties

LEMMA Shorter ==
  ASSUME NEW S, NEW s \in Seq(S), s /= <<>>
  PROVE  /\ Len(s) \in Nat /\ Len(s) >= 1 /\ Len(Tail(s)) = Len(s) - 1
         /\ \A k \in 1 .. Len(Tail(s)) : Tail(s)[k] = s[k + 1]
         /\ Head(s) = s[1] /\ Head(s) \in S /\ Tail(s) \in Seq(S)
<1>1. Len(s) \in Nat /\ Len(s) /= 0
  BY EmptyIsShort
<1> QED
  BY <1>1, HeadTailProperties

LEMMA AskedByWriting ==
  ASSUME NEW pipe \in Seq(OutFrames), NEW frame, NEW in \in Seq(InFrames),
         NEW local, NEW local2, Asked(local, pipe, in),
         frame.kind = "settings" => local /= "waitingAck" /\ local2 = "waitingAck",
         frame.kind /= "settings" => local2 = local
  PROVE  Asked(local2, Append(pipe, frame), in)
<1> DEFINE longer == Append(pipe, frame)
<1>1. /\ Len(pipe) \in Nat /\ Len(longer) = Len(pipe) + 1
      /\ \A k \in 1 .. Len(pipe) : longer[k] = pipe[k]
      /\ longer[Len(pipe) + 1] = frame
  BY Longer
<1> HIDE DEF longer
<1>2. \A k \in 1 .. Len(longer) : k \in 1 .. Len(pipe) \/ k = Len(pipe) + 1
  BY <1>1
<1>3. CASE frame.kind = "settings"
  <2>1. /\ \A j \in 1 .. Len(pipe) : pipe[j].kind /= "settings"
        /\ \A k \in 1 .. Len(in) : in[k].kind /= "ack"
    BY <1>3 DEF Asked
  <2> QED
    BY <1>1, <1>2, <1>3, <2>1 DEF Asked, longer
<1>4. CASE frame.kind /= "settings"
  <2>1. \A k \in 1 .. Len(longer) :
          longer[k].kind = "settings" => k \in 1 .. Len(pipe) /\ pipe[k].kind = "settings"
    BY <1>1, <1>2, <1>4
  <2> QED
    BY <1>4, <2>1 DEF Asked, longer
<1> QED
  BY <1>3, <1>4

LEMMA AskedByReceiving ==
  ASSUME NEW pipe \in Seq(OutFrames), pipe /= <<>>, NEW in \in Seq(InFrames),
         NEW local, Asked(local, pipe, in)
  PROVE  /\ Asked(local, Tail(pipe), in)
         /\ Head(pipe).kind = "settings" =>
              /\ local = "waitingAck"
              /\ \A j \in 1 .. Len(Tail(pipe)) : Tail(pipe)[j].kind /= "settings"
              /\ \A k \in 1 .. Len(in) : in[k].kind /= "ack"
<1> DEFINE rest == Tail(pipe)
<1>1. /\ Len(pipe) \in Nat /\ Len(pipe) >= 1 /\ Len(rest) = Len(pipe) - 1
      /\ \A k \in 1 .. Len(rest) : rest[k] = pipe[k + 1]
      /\ Head(pipe) = pipe[1]
  BY Shorter
<1> HIDE DEF rest
<1>2. /\ \A k \in 1 .. Len(rest) : k + 1 \in 1 .. Len(pipe) /\ k + 1 /= 1
      /\ 1 \in 1 .. Len(pipe)
      /\ \A j, k \in 1 .. Len(rest) : j + 1 = k + 1 => j = k
  BY <1>1
<1>3. Asked(local, rest, in)
  BY <1>1, <1>2, SMTT(60) DEF Asked
<1>4. ASSUME Head(pipe).kind = "settings"
      PROVE  /\ local = "waitingAck"
             /\ \A j \in 1 .. Len(rest) : rest[j].kind /= "settings"
             /\ \A k \in 1 .. Len(in) : in[k].kind /= "ack"
  BY <1>1, <1>2, <1>4 DEF Asked
<1> QED
  BY <1>3, <1>4 DEF rest

LEMMA AskedBySpeaking ==
  ASSUME NEW pipe, NEW in \in Seq(InFrames), NEW frame, NEW local, Asked(local, pipe, in),
         frame.kind = "ack" =>
           /\ local = "waitingAck"
           /\ \A j \in 1 .. Len(pipe) : pipe[j].kind /= "settings"
           /\ \A k \in 1 .. Len(in) : in[k].kind /= "ack"
  PROVE  Asked(local, pipe, Append(in, frame))
<1> DEFINE longer == Append(in, frame)
<1>1. /\ Len(in) \in Nat /\ Len(longer) = Len(in) + 1
      /\ \A k \in 1 .. Len(in) : longer[k] = in[k]
      /\ longer[Len(in) + 1] = frame
  BY Longer
<1> HIDE DEF longer
<1>2. \A k \in 1 .. Len(longer) : k \in 1 .. Len(in) \/ k = Len(in) + 1
  BY <1>1
<1>3. CASE frame.kind = "ack"
  BY <1>1, <1>2, <1>3 DEF Asked, longer
<1>4. CASE frame.kind /= "ack"
  <2>1. \A k \in 1 .. Len(longer) :
          longer[k].kind = "ack" => k \in 1 .. Len(in) /\ in[k].kind = "ack"
    BY <1>1, <1>2, <1>4
  <2> QED
    BY <1>4, <2>1 DEF Asked, longer
<1> QED
  BY <1>3, <1>4

LEMMA AskedByReading ==
  ASSUME NEW pipe, NEW in \in Seq(InFrames), in /= <<>>, NEW local, NEW local2,
         Asked(local, pipe, in), Head(in).kind /= "ack" => local2 = local
  PROVE  /\ Asked(local2, pipe, Tail(in))
         /\ Head(in).kind = "ack" => local = "waitingAck"
<1> DEFINE rest == Tail(in)
<1>1. /\ Len(in) \in Nat /\ Len(in) >= 1 /\ Len(rest) = Len(in) - 1
      /\ \A k \in 1 .. Len(rest) : rest[k] = in[k + 1]
      /\ Head(in) = in[1]
  BY Shorter
<1> HIDE DEF rest
<1>2. /\ \A k \in 1 .. Len(rest) : k + 1 \in 1 .. Len(in) /\ k + 1 /= 1
      /\ 1 \in 1 .. Len(in)
      /\ \A j, k \in 1 .. Len(rest) : j + 1 = k + 1 => j = k
  BY <1>1
<1>3. CASE Head(in).kind = "ack"
  <2>1. /\ \A j \in 1 .. Len(pipe) : pipe[j].kind /= "settings"
        /\ \A k \in 1 .. Len(rest) : rest[k].kind /= "ack"
        /\ local = "waitingAck"
    BY <1>1, <1>2, <1>3 DEF Asked
  <2> QED
    BY <2>1 DEF Asked, rest
<1>4. CASE Head(in).kind /= "ack"
  <2>1. Asked(local, pipe, rest)
    BY <1>1, <1>2 DEF Asked
  <2> QED
    BY <1>4, <2>1 DEF rest
<1> QED
  BY <1>3, <1>4

----------------------------------------------------------------------------
(* What frames do to what a polite peer has sent.                          *)

LEMMA KindsOfFrames ==
  ASSUME NEW in \in Seq(InFrames)
  PROVE  \A k \in 1 .. Len(in) :
           /\ in[k].kind \in {"headers", "reset"} => in[k].arg \in Ids /\ in[k].arg \in Nat
           /\ in[k].kind = "goAway" => in[k].arg.id \in 0 .. MaxId /\ in[k].arg.id \in Nat
<1> TAKE k \in 1 .. Len(in)
<1>1. in[k] \in InFrames
  BY ElementOfSeq
<1>2. in[k].kind \in {"headers", "reset"} => in[k].arg \in Ids
  BY <1>1 DEF InFrames
<1>3. in[k].kind = "goAway" => in[k].arg \in GoAwayFrames
  BY <1>1 DEF InFrames
<1>4. in[k].kind = "goAway" => in[k].arg.id \in 0 .. MaxId
  BY <1>3 DEF GoAwayFrames
<1> QED
  BY <1>2, <1>4, GoAwayAssumption DEF Ids

LEMMA StreamedByReading ==
  ASSUME NEW in \in Seq(InFrames), in /= <<>>, NEW next \in Nat, NEW maxId \in Nat,
         NEW upTo \in Nat, Streamed(in, next, maxId, upTo),
         NEW next2 \in Nat,
         Head(in).kind = "headers" /\ Head(in).arg <= maxId => next2 = Head(in).arg + 1,
         ~(Head(in).kind = "headers" /\ Head(in).arg <= maxId) => next2 = next
  PROVE  Streamed(Tail(in), next2, maxId, upTo)
<1> DEFINE rest == Tail(in)
           first == Head(in)
<1>1. /\ Len(in) \in Nat /\ Len(in) >= 1 /\ Len(rest) = Len(in) - 1
      /\ \A k \in 1 .. Len(rest) : rest[k] = in[k + 1]
      /\ first = in[1]
  BY Shorter
<1> HIDE DEF rest, first
<1>2. /\ \A k \in 1 .. Len(rest) : k + 1 \in 1 .. Len(in) /\ 1 < k + 1
      /\ 1 \in 1 .. Len(in)
      /\ \A k \in 1 .. Len(in) : k /= 1 => k - 1 \in 1 .. Len(rest) /\ in[k] = rest[k - 1]
      /\ \A j, k \in 1 .. Len(rest) : j < k <=> j + 1 < k + 1
  BY <1>1
<1>3. \A k \in 1 .. Len(in) : in[k].kind \in {"headers", "reset"} => in[k].arg \in Nat
  BY KindsOfFrames
<1>4. next <= next2 /\ next2 <= upTo
  <2>1. next <= upTo
    BY DEF Streamed
  <2>2. first.kind = "headers" => next <= first.arg /\ first.arg < upTo /\ first.arg \in Nat
    <3>1. \A k \in 1 .. Len(in) : in[k].kind = "headers" => next <= in[k].arg /\ in[k].arg < upTo
      BY DEF Streamed
    <3>2. first = in[1] /\ 1 \in 1 .. Len(in)
      BY <1>1, <1>2
    <3> QED
      BY <1>3, <3>1, <3>2
  <2> QED
    BY <2>1, <2>2 DEF first
<1>5. \A k \in 1 .. Len(rest) :
        rest[k].kind = "headers" => next2 <= rest[k].arg /\ rest[k].arg < upTo
  <2> TAKE k \in 1 .. Len(rest)
  <2> HAVE rest[k].kind = "headers"
  <2>1. next <= rest[k].arg /\ rest[k].arg < upTo /\ rest[k].arg \in Nat
    BY <1>1, <1>2, <1>3 DEF Streamed
  <2>2. first.kind = "headers" => first.arg < rest[k].arg /\ first.arg \in Nat
    BY <1>1, <1>2, <1>3 DEF Streamed
  <2> QED
    BY <2>1, <2>2 DEF first
<1>6. \A j, k \in 1 .. Len(rest) :
        j < k /\ rest[j].kind = "headers" /\ rest[k].kind = "headers" => rest[j].arg < rest[k].arg
  BY <1>1, <1>2 DEF Streamed
  \* What the first frame opened is known now, or ignored.
<1>7. \A id \in Nat : OpensId(first, id) => id < next2 \/ id > maxId
  BY DEF OpensId, first
<1>8. \A k \in 1 .. Len(rest) : rest[k].kind = "reset" =>
        \/ rest[k].arg < next2 \/ rest[k].arg > maxId
        \/ \E j \in 1 .. Len(rest) : j < k /\ OpensId(rest[j], rest[k].arg)
  <2> TAKE k \in 1 .. Len(rest)
  <2> HAVE rest[k].kind = "reset"
  <2> DEFINE id == rest[k].arg
  <2>1. id \in Nat
    BY <1>1, <1>2, <1>3
  <2>2. \/ id < next \/ id > maxId
        \/ \E j \in 1 .. Len(in) : j < k + 1 /\ OpensId(in[j], id)
    BY <1>1, <1>2 DEF Streamed
  <2> HIDE DEF id
  <2>3. CASE id < next \/ id > maxId
    BY <1>4, <2>1, <2>3 DEF id
  <2>4. CASE \E j \in 1 .. Len(in) : j < k + 1 /\ OpensId(in[j], id)
    <3>1. PICK j \in 1 .. Len(in) : j < k + 1 /\ OpensId(in[j], id)
      BY <2>4
    <3>2. CASE j = 1
      BY <1>1, <1>7, <2>1, <3>1, <3>2 DEF id
    <3>3. CASE j /= 1
      <4>1. j - 1 \in 1 .. Len(rest) /\ j - 1 < k /\ OpensId(rest[j - 1], id)
        BY <1>1, <1>2, <3>1, <3>3
      <4> QED
        BY <4>1 DEF id
    <3> QED
      BY <3>2, <3>3
  <2> QED
    BY <2>2, <2>3, <2>4
<1>9. \A id \in Ids : id < upTo =>
        \/ id < next2 \/ id > maxId
        \/ \E j \in 1 .. Len(rest) : OpensId(rest[j], id)
  <2> TAKE id \in Ids
  <2> HAVE id < upTo
  <2>1. id \in Nat
    BY DEF Ids
  <2>2. \/ id < next \/ id > maxId
        \/ \E j \in 1 .. Len(in) : OpensId(in[j], id)
    BY DEF Streamed
  <2>3. CASE id < next \/ id > maxId
    BY <1>4, <2>1, <2>3
  <2>4. CASE \E j \in 1 .. Len(in) : OpensId(in[j], id)
    <3>1. PICK j \in 1 .. Len(in) : OpensId(in[j], id)
      BY <2>4
    <3>2. CASE j = 1
      BY <1>1, <1>7, <2>1, <3>1, <3>2
    <3>3. CASE j /= 1
      BY <1>2, <3>1, <3>3
    <3> QED
      BY <3>2, <3>3
  <2> QED
    BY <2>2, <2>3, <2>4
<1> QED
  BY <1>4, <1>5, <1>6, <1>8, <1>9 DEF Streamed, rest

LEMMA FallingByReading ==
  ASSUME NEW in \in Seq(InFrames), in /= <<>>, NEW mine \in Nat, NEW sendMaxId \in Nat,
         Falling(in, sendMaxId, mine), NEW sendMaxId2,
         sendMaxId2 = IF Head(in).kind = "goAway" THEN Head(in).arg.id ELSE sendMaxId
  PROVE  /\ Falling(Tail(in), sendMaxId2, mine)
         /\ Head(in).kind = "goAway" => Head(in).arg.id <= sendMaxId
<1> DEFINE rest == Tail(in)
           first == Head(in)
<1>1. /\ Len(in) \in Nat /\ Len(in) >= 1 /\ Len(rest) = Len(in) - 1
      /\ \A k \in 1 .. Len(rest) : rest[k] = in[k + 1]
      /\ first = in[1]
  BY Shorter
<1> HIDE DEF rest, first
<1>2. /\ \A k \in 1 .. Len(rest) : k + 1 \in 1 .. Len(in) /\ 1 < k + 1
      /\ 1 \in 1 .. Len(in)
      /\ \A j, k \in 1 .. Len(rest) : j < k <=> j + 1 < k + 1
  BY <1>1
<1>3. first.kind = "goAway" => mine <= first.arg.id /\ first.arg.id <= sendMaxId
  BY <1>1, <1>2 DEF Falling
<1>4. mine <= sendMaxId2
  BY <1>3 DEF Falling, first
<1>5. \A k \in 1 .. Len(rest) :
        rest[k].kind = "goAway" => mine <= rest[k].arg.id /\ rest[k].arg.id <= sendMaxId2
  <2> TAKE k \in 1 .. Len(rest)
  <2> HAVE rest[k].kind = "goAway"
  <2>1. mine <= rest[k].arg.id /\ rest[k].arg.id <= sendMaxId
    BY <1>1, <1>2 DEF Falling
  <2>2. first.kind = "goAway" => rest[k].arg.id <= first.arg.id
    BY <1>1, <1>2 DEF Falling
  <2> QED
    BY <2>1, <2>2 DEF first
<1>6. \A j, k \in 1 .. Len(rest) :
        j < k /\ rest[j].kind = "goAway" /\ rest[k].kind = "goAway"
          => rest[k].arg.id <= rest[j].arg.id
  BY <1>1, <1>2 DEF Falling
<1> QED
  BY <1>3, <1>4, <1>5, <1>6 DEF Falling, rest, first

\* What streams.rs keeps of a frame that was read.
LEMMA PoliteByReading ==
  ASSUME NEW in \in Seq(InFrames), in /= <<>>, NEW i \in Inners, NEW p \in Peers,
         Polite(in, i, p), NEW i2 \in Inners, i2.maxId <= i.maxId,
         i2.sender => i.sender,
         i2.sendMaxId = IF Head(in).kind = "goAway" THEN Head(in).arg.id ELSE i.sendMaxId,
         Head(in).kind = "headers" /\ Head(in).arg <= i.maxId => i2.next = Head(in).arg + 1,
         ~(Head(in).kind = "headers" /\ Head(in).arg <= i.maxId) => i2.next = i.next
  PROVE  Polite(Tail(in), i2, p)
<1> DEFINE rest == Tail(in)
<1>1. /\ Len(in) \in Nat /\ Len(in) >= 1 /\ Len(rest) = Len(in) - 1
      /\ \A k \in 1 .. Len(rest) : rest[k] = in[k + 1]
      /\ rest \in Seq(InFrames)
  BY Shorter
<1>2. /\ i.maxId \in Nat /\ i2.maxId \in Nat /\ i.next \in Nat /\ i2.next \in Nat
      /\ i.sendMaxId \in Nat /\ p.next \in Nat /\ p.mine \in Nat
  BY GoAwayAssumption DEF Inners, Peers
<1>3. Falling(rest, i2.sendMaxId, p.mine)
  BY <1>2, FallingByReading DEF Polite
<1>4. ASSUME role = "server" PROVE ~i2.sender /\ Streamed(rest, i2.next, i2.maxId, p.next)
  <2>1. Streamed(rest, i2.next, i.maxId, p.next)
    BY <1>2, <1>4, StreamedByReading DEF Polite
  <2>2. Streamed(rest, i2.next, i2.maxId, p.next)
    <3>1. \A k \in 1 .. Len(rest) : rest[k].kind = "reset" => rest[k].arg \in Nat
      BY <1>1, KindsOfFrames
    <3>2. \A id \in Ids : id \in Nat
      BY DEF Ids
    <3> QED
      BY <1>2, <2>1, <3>1, <3>2 DEF Streamed
  <2> QED
    BY <1>4, <2>2 DEF Polite
<1> HIDE DEF rest
<1>5. \A k \in 1 .. Len(rest) : k + 1 \in 1 .. Len(in)
  BY <1>1
<1>6. \A k \in 1 .. Len(rest) : rest[k].kind /= "bad"
  BY <1>1, <1>5 DEF Polite
<1>7. role = "client" => \A k \in 1 .. Len(rest) : rest[k].kind \notin {"headers", "reset"}
  BY <1>1, <1>5 DEF Polite
<1> QED
  BY <1>3, <1>4, <1>6, <1>7 DEF Polite, rest

\* Streams, and what this endpoint allows, are changed by others.
LEMMA PoliteApart ==
  ASSUME NEW in, NEW i, NEW p, Polite(in, i, p), NEW i2, NEW p2,
         i2.maxId = i.maxId, i2.sendMaxId = i.sendMaxId,
         role = "server" => i2.next = i.next /\ (i2.sender => i.sender),
         p2.next = p.next, p2.mine = p.mine
  PROVE  Polite(in, i2, p2)
BY DEF Polite

LEMMA StreamedBySpeaking ==
  ASSUME NEW in \in Seq(InFrames), NEW frame \in InFrames, NEW next \in Nat,
         NEW maxId \in Nat, NEW upTo \in Nat, NEW upTo2 \in Nat,
         Streamed(in, next, maxId, upTo),
         frame.kind = "headers" => frame.arg = upTo /\ upTo2 = upTo + 1,
         frame.kind /= "headers" => upTo2 = upTo,
         frame.kind = "reset" => frame.arg < upTo
  PROVE  Streamed(Append(in, frame), next, maxId, upTo2)
<1> DEFINE longer == Append(in, frame)
           n == Len(in) + 1
<1>1. /\ Len(in) \in Nat /\ Len(longer) = n
      /\ \A k \in 1 .. Len(in) : longer[k] = in[k]
      /\ longer[n] = frame
  BY Longer
<1>2. frame.kind = "reset" => frame.arg \in Ids
  BY DEF InFrames
<1> HIDE DEF longer
<1>3. /\ \A k \in 1 .. n : k = n \/ k \in 1 .. Len(in)
      /\ \A k \in 1 .. Len(in) : k \in 1 .. n /\ k < n
      /\ n \in 1 .. n
      /\ \A j, k \in 1 .. n : j < k => j \in 1 .. Len(in)
  BY <1>1
<1> HIDE DEF n
<1>4. \A k \in 1 .. Len(in) : in[k].kind \in {"headers", "reset"} => in[k].arg \in Nat
  BY KindsOfFrames
<1>5. next <= upTo2 /\ upTo <= upTo2
  BY DEF Streamed
<1>6. \A k \in 1 .. n : longer[k].kind = "headers" => next <= longer[k].arg /\ longer[k].arg < upTo2
  <2> TAKE k \in 1 .. n
  <2> HAVE longer[k].kind = "headers"
  <2>1. CASE k = n
    BY <1>1, <2>1 DEF Streamed
  <2>2. CASE k \in 1 .. Len(in)
    <3>1. next <= in[k].arg /\ in[k].arg < upTo /\ in[k].arg \in Nat
      BY <1>1, <1>4, <2>2 DEF Streamed
    <3> QED
      BY <1>1, <1>5, <2>2, <3>1
  <2> QED
    BY <1>3, <2>1, <2>2
<1>7. \A j, k \in 1 .. n :
        j < k /\ longer[j].kind = "headers" /\ longer[k].kind = "headers"
          => longer[j].arg < longer[k].arg
  <2> TAKE j, k \in 1 .. n
  <2> HAVE j < k /\ longer[j].kind = "headers" /\ longer[k].kind = "headers"
  <2>1. j \in 1 .. Len(in)
    BY <1>3
  <2>2. CASE k = n
    BY <1>1, <2>1, <2>2 DEF Streamed
  <2>3. CASE k \in 1 .. Len(in)
    BY <1>1, <2>1, <2>3 DEF Streamed
  <2> QED
    BY <1>3, <2>2, <2>3
<1>8. \A k \in 1 .. n : longer[k].kind = "reset" =>
        \/ longer[k].arg < next \/ longer[k].arg > maxId
        \/ \E j \in 1 .. n : j < k /\ OpensId(longer[j], longer[k].arg)
  <2> TAKE k \in 1 .. n
  <2> HAVE longer[k].kind = "reset"
  <2> DEFINE id == longer[k].arg
  <2>1. \/ id < next \/ id > maxId
        \/ \E j \in 1 .. Len(in) : j < k /\ OpensId(in[j], id)
    <3>1. CASE k = n
      BY <1>1, <1>2, <1>3, <3>1 DEF Streamed
    <3>2. CASE k \in 1 .. Len(in)
      BY <1>1, <3>2 DEF Streamed
    <3> QED
      BY <1>3, <3>1, <3>2
  <2> HIDE DEF id
  <2>2. CASE \E j \in 1 .. Len(in) : j < k /\ OpensId(in[j], id)
    <3>1. PICK j \in 1 .. Len(in) : j < k /\ OpensId(in[j], id)
      BY <2>2
    <3>2. j \in 1 .. n /\ OpensId(longer[j], id)
      BY <1>1, <1>3, <3>1
    <3> QED
      BY <3>1, <3>2 DEF id
  <2> QED
    BY <2>1, <2>2 DEF id
<1>9. \A id \in Ids : id < upTo2 =>
        \/ id < next \/ id > maxId
        \/ \E j \in 1 .. n : OpensId(longer[j], id)
  <2> TAKE id \in Ids
  <2> HAVE id < upTo2
  <2>1. id \in Nat
    BY DEF Ids
  <2>2. CASE id < upTo
    <3>1. \/ id < next \/ id > maxId
          \/ \E j \in 1 .. Len(in) : OpensId(in[j], id)
      BY <2>2 DEF Streamed
    <3> QED
      BY <1>1, <1>3, <3>1
  <2>3. CASE ~(id < upTo)
    <3>1. frame.kind = "headers" /\ frame.arg = id
      BY <2>1, <2>3
    <3> QED
      BY <1>1, <1>3, <3>1 DEF OpensId
  <2> QED
    BY <2>2, <2>3
<1> QED
  BY <1>1, <1>5, <1>6, <1>7, <1>8, <1>9 DEF Streamed, longer

LEMMA FallingBySpeaking ==
  ASSUME NEW in \in Seq(InFrames), NEW frame \in InFrames, NEW mine \in Nat,
         NEW mine2 \in Nat, NEW sendMaxId \in Nat, Falling(in, sendMaxId, mine),
         frame.kind = "goAway" => frame.arg.id <= mine /\ mine2 = frame.arg.id,
         frame.kind /= "goAway" => mine2 = mine
  PROVE  Falling(Append(in, frame), sendMaxId, mine2)
<1> DEFINE longer == Append(in, frame)
           n == Len(in) + 1
<1>1. /\ Len(in) \in Nat /\ Len(longer) = n
      /\ \A k \in 1 .. Len(in) : longer[k] = in[k]
      /\ longer[n] = frame
  BY Longer
<1> HIDE DEF longer
<1>2. /\ \A k \in 1 .. n : k = n \/ k \in 1 .. Len(in)
      /\ \A j, k \in 1 .. n : j < k => j \in 1 .. Len(in)
  BY <1>1
<1> HIDE DEF n
<1>3. \A k \in 1 .. Len(in) : in[k].kind = "goAway" => in[k].arg.id \in Nat
  BY KindsOfFrames
<1>4. mine2 <= mine /\ mine <= sendMaxId
  BY DEF Falling
<1>5. \A k \in 1 .. n :
        longer[k].kind = "goAway" => mine2 <= longer[k].arg.id /\ longer[k].arg.id <= sendMaxId
  <2> TAKE k \in 1 .. n
  <2> HAVE longer[k].kind = "goAway"
  <2>1. CASE k = n
    BY <1>1, <1>4, <2>1
  <2>2. CASE k \in 1 .. Len(in)
    <3>1. mine <= in[k].arg.id /\ in[k].arg.id <= sendMaxId /\ in[k].arg.id \in Nat
      BY <1>1, <1>3, <2>2 DEF Falling
    <3> QED
      BY <1>1, <1>4, <2>2, <3>1
  <2> QED
    BY <1>2, <2>1, <2>2
<1>6. \A j, k \in 1 .. n :
        j < k /\ longer[j].kind = "goAway" /\ longer[k].kind = "goAway"
          => longer[k].arg.id <= longer[j].arg.id
  <2> TAKE j, k \in 1 .. n
  <2> HAVE j < k /\ longer[j].kind = "goAway" /\ longer[k].kind = "goAway"
  <2>1. j \in 1 .. Len(in) /\ mine <= in[j].arg.id /\ in[j].arg.id \in Nat
        /\ longer[j] = in[j]
    BY <1>1, <1>2, <1>3 DEF Falling
  <2>2. CASE k = n
    <3>1. frame.arg.id <= mine /\ frame.arg.id \in Nat
      BY <1>1, <2>2
    <3> QED
      BY <1>1, <2>1, <2>2, <3>1
  <2>3. CASE k \in 1 .. Len(in)
    BY <1>1, <2>1, <2>3 DEF Falling
  <2> QED
    BY <1>2, <2>2, <2>3
<1> QED
  BY <1>1, <1>4, <1>5, <1>6 DEF Falling, longer

LEMMA PoliteBySpeaking ==
  ASSUME NEW in \in Seq(InFrames), NEW i \in Inners, NEW p \in Peers, NEW p2 \in Peers,
         Polite(in, i, p), NEW frame \in InFrames, frame.kind /= "bad",
         frame.kind = "headers" => role = "server" /\ frame.arg = p.next /\ p2.next = p.next + 1,
         frame.kind /= "headers" => p2.next = p.next,
         frame.kind = "reset" => role = "server" /\ frame.arg < p.next,
         frame.kind = "goAway" => frame.arg.id <= p.mine /\ p2.mine = frame.arg.id,
         frame.kind /= "goAway" => p2.mine = p.mine
  PROVE  Polite(Append(in, frame), i, p2)
<1> DEFINE longer == Append(in, frame)
<1>1. /\ Len(in) \in Nat /\ Len(longer) = Len(in) + 1
      /\ \A k \in 1 .. Len(in) : longer[k] = in[k]
      /\ longer[Len(in) + 1] = frame
  BY Longer
<1>2. /\ i.maxId \in Nat /\ i.next \in Nat /\ i.sendMaxId \in Nat
      /\ p.next \in Nat /\ p.mine \in Nat /\ p2.next \in Nat /\ p2.mine \in Nat
  BY GoAwayAssumption DEF Inners, Peers
<1>3. Falling(longer, i.sendMaxId, p2.mine)
  BY <1>2, FallingBySpeaking DEF Polite
<1>4. role = "server" => ~i.sender /\ Streamed(longer, i.next, i.maxId, p2.next)
  BY <1>2, StreamedBySpeaking DEF Polite
<1> HIDE DEF longer
<1>5. \A k \in 1 .. Len(longer) : k \in 1 .. Len(in) \/ k = Len(in) + 1
  BY <1>1
<1>6. \A k \in 1 .. Len(longer) : longer[k].kind /= "bad"
  BY <1>1, <1>5 DEF Polite
<1>7. role = "client" => \A k \in 1 .. Len(longer) : longer[k].kind \notin {"headers", "reset"}
  BY <1>1, <1>5 DEF Polite
<1> QED
  BY <1>3, <1>4, <1>6, <1>7 DEF Polite, longer

----------------------------------------------------------------------------
(* The executor.                                                           *)

LEMMA Executors ==
  ASSUME NEW e, Executing(e), NEW f,
         \/ f = e
         \/ \E w : f = [e EXCEPT !.woken = w]
         \/ \E w, h : f = [e EXCEPT !.woken = w, !.had = h]
         \/ \E w, n : f = [e EXCEPT !.woken = w, !.calls = n]
  PROVE  Executing(f) /\ f.result = e.result
BY DEF Executing

LEMMA ExecutorEnds ==
  ASSUME NEW e, Executing(e), NEW r, NEW f, f = [e EXCEPT !.result = r]
  PROVE  Executing(f) /\ f.result = r
BY DEF Executing

\* The result is only set where the connection ends.
Resulting == ReadBroken \/ Finish \/ BadPreface

LEMMA TaskExecutes ==
  ASSUME Executing(exec), Task
  PROVE  Executing(exec') /\ (exec'.result = exec.result \/ Resulting)
<1>1. CASE UNCHANGED exec
  BY <1>1
<1>2. CASE Handshake \/ ReadPreface
  <2>1. \E w : exec' = [exec EXCEPT !.woken = w]
    BY <1>2 DEF Handshake, ReadPreface
  <2> QED
    BY <2>1, Executors
<1>3. CASE StartPoll
  <2>1. \E w, h : exec' = [exec EXCEPT !.woken = w, !.had = h]
    BY <1>3 DEF StartPoll
  <2> QED
    BY <2>1, Executors
<1>4. CASE ParkClient \/ ParkServer
  <2>1. exec' = exec \/ \E w : exec' = [exec EXCEPT !.woken = w]
    <3>1. CASE ParkClient
      <4>1. exec' = [exec EXCEPT !.woken = exec.woken \/ (exec.had /\ ~HasRefs(inner))]
        BY <3>1 DEF ParkClient
      <4> QED
        BY <4>1
    <3>2. CASE ParkServer
      BY <3>2 DEF ParkServer
    <3> QED
      BY <1>4, <3>1, <3>2
  <2> QED
    BY <2>1, Executors
<1>5. CASE Resulting
  <2>1. exec' = exec \/ \E r : exec' = [exec EXCEPT !.result = r]
    BY <1>5 DEF Resulting, ReadBroken, Finish, BadPreface
  <2> QED
    BY <1>5, <2>1, ExecutorEnds
<1>6. CASE \/ CheckReferences \/ MakeRoom \/ Duties \/ WakePong \/ Shutdown \/ WakeOnDrop
           \/ WriteLastFrame \/ OpenStream \/ AllBuffered \/ FlushAll \/ CheckIdle
  <2>1. UNCHANGED exec
    BY <1>6 DEF CheckReferences, MakeRoom, Duties, WakePong, Shutdown, WakeOnDrop,
       WriteLastFrame, OpenStream, AllBuffered, FlushAll, CheckIdle, task, Idle,
       SendGoAway, CloseAfterGoAway, SendPong, SendShutdownPing, SendUserPing, NoUserPing,
       RegisterPing, SendSettingsAck, SendLocalSettings, SendRefusal
  <2> QED
    BY <1>1, <2>1
<1>7. CASE Read /\ ~ReadBroken
  <2>1. UNCHANGED exec
    BY <1>7 DEF Read, ReadNothing, ReadHeaders, ReadReset, ReadResponse, ReadPing,
       ReadShutdownPong, ReadUserPong, ReadUnknownPong, ReadSettings, ReadSettingsAck,
       ReadGoAway, ReadBad, ReadEof, Rest, Idle
  <2> QED
    BY <1>1, <2>1
<1> QED
  BY <1>2, <1>3, <1>4, <1>5, <1>6, <1>7 DEF Task, Complete, Resulting

LEMMA OthersExecute ==
  ASSUME Executing(exec), Handles \/ Calls \/ Pinger \/ Peer
  PROVE  Executing(exec') /\ exec'.result = exec.result
<1>1. \/ exec' = exec
      \/ \E w : exec' = [exec EXCEPT !.woken = w]
      \/ \E w, n : exec' = [exec EXCEPT !.woken = w, !.calls = n]
  <2>1. CASE Handles
    <3>1. exec' = exec \/ \E i : WakeTask(i)
      BY <2>1 DEF Handles, FinishStream, DropHandle, SendRequest, DropSendRequest
    <3>2. ASSUME NEW i, WakeTask(i) PROVE \E w : exec' = [exec EXCEPT !.woken = w]
      <4>1. exec' = [exec EXCEPT !.woken = exec.woken \/ inner.task]
        BY <3>2 DEF WakeTask
      <4> QED
        BY <4>1
    <3> QED
      BY <3>1, <3>2
  <2>2. CASE Calls
    <3>1. Called
      BY <2>2 DEF Calls, GracefulShutdown, SetInitialWindowSize, AbruptShutdown
    <3> QED
      BY <3>1 DEF Called
  <2>3. CASE Pinger
    <3>1. exec' = exec \/ exec' = [exec EXCEPT !.woken = exec.woken \/ pings.pingTask]
      BY <2>3 DEF Pinger, SendPing, WakeForPing, RegisterForPong, CheckPong
    <3> QED
      BY <3>1
  <2>4. CASE Peer
    <3>1. \E out, frames : Transport(out, frames)
      BY <2>4 DEF Peer, PeerReads, PeerOpens, PeerPings, PeerBreaksRules, PeerAnswers,
         PeerResets, PeerChangesSettings, PeerGoesAway, PeerCloses, PeerSends
    <3>2. PICK out, frames : Transport(out, frames)
      BY <3>1
    <3>3. \E fired : exec' = [exec EXCEPT !.woken = exec.woken \/ fired /= {}]
      BY <3>2 DEF Transport
    <3> QED
      BY <3>3
  <2> QED
    BY <2>1, <2>2, <2>3, <2>4
<1> QED
  BY <1>1, Executors

----------------------------------------------------------------------------
(* SETTINGS of ours.                                                       *)

LEMMA DutyIsDue ==
  ASSUME NEW c, NEW g
  PROVE  /\ Turn(c) = "local" => c.local = "toSend"
         /\ Pinging(c) = "local" => c.local = "toSend"
         /\ Duty(c, g) = "local" => c.local = "toSend"
<1>1. Turn(c) = "local" => c.local = "toSend"
  BY DEF Turn
<1>2. Pinging(c) = "local" => c.local = "toSend"
  BY <1>1 DEF Pinging
<1>3. Duty(c, g) = "local" => c.local = "toSend"
  <2>1. CASE g.pending /= {} \/ g.closeNow
    BY <2>1 DEF Duty
  <2>2. CASE g.pending = {} /\ ~g.closeNow /\ c.pong
    BY <2>2 DEF Duty
  <2>3. CASE g.pending = {} /\ ~g.closeNow /\ ~c.pong
    BY <1>2, <2>3 DEF Duty
  <2> QED
    BY <2>1, <2>2, <2>3
<1> QED
  BY <1>1, <1>2, <1>3

LEMMA ResumeIsDue ==
  ASSUME NEW c \in Connections, NEW g
  PROVE  Resume(c, g) = "local" => c.local = "toSend"
<1>1. CASE c.state = "open"
  BY <1>1, DutyIsDue DEF Resume
<1>2. CASE c.state \in {"closing", "closed"}
  BY <1>2 DEF Resume
<1> QED
  BY <1>1, <1>2 DEF Connections

\* A frame that is read fails, goes on, or is one of a few others.
LEMMA ReadIsDue ==
  ASSUME IInv, Read
  PROVE  LocalDuty'
<1>1. conn \in Connections
  BY DEF IInv, Types
<1>2. \A c, i : ReadOn(c, i) => LocalDuty'
  BY DutyIsDue DEF ReadOn, LocalDuty
<1>3. \A reason : ReadFails(reason) => LocalDuty'
  BY DEF ReadFails, ConnectionError, LocalDuty
<1>4. CASE ReadHeaders
  BY <1>2, <1>3, <1>4 DEF ReadHeaders
<1>5. CASE ReadReset \/ ReadResponse \/ ReadPing \/ ReadUnknownPong \/ ReadSettings
  BY <1>2, <1>3, <1>5 DEF ReadReset, ReadResponse, ReadPing, ReadUnknownPong, ReadSettings
<1>6. CASE ReadSettingsAck \/ ReadGoAway \/ ReadBad
  BY <1>2, <1>3, <1>6 DEF ReadSettingsAck, ReadGoAway, ReadBad
<1>7. CASE ReadShutdownPong
  <2>1. pc' = Duty(conn', goAway')
    BY <1>7 DEF ReadShutdownPong
  <2> QED
    BY <2>1, DutyIsDue DEF LocalDuty
<1>8. CASE ReadNothing \/ ReadUserPong \/ ReadEof \/ ReadBroken
  BY <1>8 DEF ReadNothing, ReadUserPong, ReadEof, ReadBroken, LocalDuty
<1> QED
  BY <1>4, <1>5, <1>6, <1>7, <1>8 DEF Read

LEMMA TaskIsDue ==
  ASSUME IInv, LocalDuty, Task
  PROVE  LocalDuty'
<1>1. conn \in Connections
  BY DEF IInv, Types
<1>2. CASE Read
  BY <1>2, ReadIsDue
<1>3. CASE SendGoAway \/ SendPong
  <2>1. \/ pc' \in {"shutdown", "pong"}
        \/ pc' = Pinging(conn) /\ conn'.local = conn.local
    BY <1>1, <1>3 DEF SendGoAway, SendPong, Connections
  <2> QED
    BY <2>1, DutyIsDue DEF LocalDuty
<1>4. CASE SendShutdownPing \/ SendUserPing \/ NoUserPing \/ RegisterPing
  <2>1. \/ pc' = "register"
        \/ pc' = Turn(conn) /\ conn'.local = conn.local
    BY <1>1, <1>4
       DEF SendShutdownPing, SendUserPing, NoUserPing, RegisterPing, Idle, task, Connections
  <2> QED
    BY <2>1, DutyIsDue DEF LocalDuty
<1>5. CASE SendSettingsAck \/ SendLocalSettings
  <2>1. pc' = Turn(conn')
    BY <1>5 DEF SendSettingsAck, SendLocalSettings
  <2> QED
    BY <2>1, DutyIsDue DEF LocalDuty
<1>6. CASE WakePong \/ StartPoll \/ CheckReferences
  <2>1. /\ conn' = conn
        /\ pc' = "check" \/ \E g : pc' = Duty(conn, g) \/ pc' = Resume(conn, g)
    BY <1>6 DEF WakePong, StartPoll, CheckReferences, Idle, task
  <2> QED
    BY <1>1, <2>1, DutyIsDue, ResumeIsDue DEF LocalDuty
<1>7. CASE MakeRoom
  <2>1. conn' = conn /\ pc' \in {pc, "after", "complete"}
    BY <1>7 DEF MakeRoom, Flush, task
  <2> QED
    BY <2>1 DEF LocalDuty
<1>8. CASE SendRefusal
  BY <1>8 DEF SendRefusal, ConnectionError, LocalDuty
<1>9. CASE \/ Handshake \/ ReadPreface \/ BadPreface \/ CloseAfterGoAway \/ Shutdown
           \/ Finish \/ WakeOnDrop
  BY <1>9 DEF Handshake, ReadPreface, BadPreface, CloseAfterGoAway, Shutdown, Finish,
     WakeOnDrop, Flush, LocalDuty
<1>10. CASE Complete
  BY <1>10 DEF Complete, WriteLastFrame, OpenStream, AllBuffered, FlushAll, CheckIdle,
     ParkClient, ParkServer, Flush, LocalDuty
<1> QED
  BY <1>2, <1>3, <1>4, <1>5, <1>6, <1>7, <1>8, <1>9, <1>10 DEF Task, Duties

LEMMA OthersAreDue ==
  ASSUME LocalDuty, Handles \/ Calls \/ Pinger \/ Peer
  PROVE  LocalDuty'
<1>1. CASE Calls
  <2>1. pc' = "parked"
    BY <1>1 DEF Calls, GracefulShutdown, SetInitialWindowSize, AbruptShutdown, Call
  <2> QED
    BY <2>1 DEF LocalDuty
<1>2. CASE Handles \/ Pinger \/ Peer
  <2>1. pc' = pc /\ conn' = conn
    BY <1>2 DEF Handles, FinishStream, DropHandle, SendRequest, DropSendRequest, Others,
       Pinger, SendPing, WakeForPing, RegisterForPong, CheckPong, OnlyPinger,
       Peer, PeerReads, PeerOpens, PeerPings, PeerBreaksRules, PeerAnswers,
       PeerResets, PeerChangesSettings, PeerGoesAway, PeerCloses, PeerOnly
  <2> QED
    BY <2>1 DEF LocalDuty
<1> QED
  BY <1>1, <1>2

----------------------------------------------------------------------------
(* Kinds of steps.                                                         *)

\* The peer has kept the protocol so far.
Honest == IInv /\ Executing(exec) /\ LocalDuty /\ Trusts

\* What a peer's requests, resets and GOAWAY frames are held against.
SameStreams(i, j) ==
  /\ j.maxId = i.maxId /\ j.sendMaxId = i.sendMaxId
  /\ j.next = i.next /\ j.sender = i.sender

LEMMA FailAllSame ==
  ASSUME NEW i \in Inners
  PROVE  SameStreams(i, FailAll(i)) /\ FailAll(i) \in Inners
BY DEF SameStreams, FailAll, Inners

\* A step that nobody could be accused for.
LEMMA TrustApart ==
  ASSUME Honest, scene' = scene, conn'.local = conn.local, Pipe' = Pipe,
         net'.in = net.in, inner'.maxId = inner.maxId, inner'.sendMaxId = inner.sendMaxId,
         role = "server" => inner'.next = inner.next /\ (inner'.sender => inner.sender),
         peer'.next = peer.next, peer'.mine = peer.mine,
         Blameless(conn', goAway', exec')
  PROVE  Trusts'
<1>1. Asked(conn'.local, Pipe', net'.in)
  BY DEF Honest, Trusts
<1>2. Polite(net.in, inner', peer')
  BY PoliteApart DEF Honest, Trusts
<1>3. role' = role
  BY DEF role
<1>4. Polite(net.in, inner, peer)' <=> Polite(net.in, inner', peer')
  BY <1>3 DEF Polite
<1> QED
  BY <1>1, <1>2, <1>4 DEF Trusts

\* Nothing is said of why.
LEMMA BlamelessStill ==
  ASSUME NEW c, NEW g, NEW e, Blameless(c, g, e), NEW c2, NEW g2, NEW e2,
         c2.reason = c.reason \/ c2.reason /= "protocol",
         g2.going = g.going, e2.result = e.result
  PROVE  Blameless(c2, g2, e2)
BY DEF Blameless

\* A GOAWAY that does not accuse.
LEMMA BlamelessClosing ==
  ASSUME NEW c, NEW g \in GoAways, NEW i \in Inners, NEW reason \in Reasons, NEW e, NEW e2,
         Blameless(c, g, e), g.pending \subseteq g.going, reason /= "protocol",
         e2.result = e.result
  PROVE  Blameless(c, GoAwayNow(g, GoAwayFrame(i, reason)), e2)
<1> DEFINE f == GoAwayFrame(i, reason)
<1>1. f \in GoAwayFrames /\ f.reason = reason
  BY FrameTyped DEF GoAwayFrame
<1> HIDE DEF f
<1>2. GoAwayNow(g, f).going = {f}
  BY <1>1, GoAwayNowCloses
<1>3. Blameless(c, GoAwayNow(g, f), e2)
  BY <1>1, <1>2 DEF Blameless
<1> QED
  BY <1>3 DEF f

LEMMA BlamelessError ==
  ASSUME Honest, NEW reason \in Reasons, reason /= "protocol",
         ConnectionError(conn, inner, reason), exec'.result = exec.result
  PROVE  /\ Blameless(conn', goAway', exec') /\ conn'.local = conn.local
         /\ SameStreams(inner, inner')
<1>1. /\ conn \in Connections /\ inner \in Inners /\ goAway \in GoAways
      /\ goAway.pending \subseteq goAway.going
      /\ Blameless(conn, goAway, exec)
  BY DEF Honest, IInv, Types, Announced, Trusts
<1>2. CASE \E f \in goAway.going : f.reason = reason
  <2>1. conn' = Closing(conn, reason) /\ inner' = inner /\ goAway' = goAway
    BY <1>2 DEF ConnectionError
  <2>2. conn'.reason = reason /\ conn'.local = conn.local
    BY <1>1, <2>1 DEF Closing, Connections
  <2> QED
    BY <1>1, <2>1, <2>2, BlamelessStill DEF SameStreams
<1>3. CASE ~\E f \in goAway.going : f.reason = reason
  <2>1. /\ conn' = conn /\ inner' = FailAll(inner)
        /\ goAway' = GoAwayNow(goAway, GoAwayFrame(inner, reason))
    BY <1>3 DEF ConnectionError, CloseNow
  <2> QED
    BY <1>1, <2>1, BlamelessClosing, FailAllSame
<1> QED
  BY <1>2, <1>3

----------------------------------------------------------------------------
(* Steps of others.                                                        *)

LEMMA HandlesTrust == ASSUME Honest, Handles PROVE Trusts'
<1>1. /\ UNCHANGED <<scene, conn, goAway, codec, net, peer>> /\ inner \in Inners
      /\ exec'.result = exec.result
  <2>1. UNCHANGED <<scene, conn, goAway, codec, net, peer>>
    BY DEF Handles, FinishStream, DropHandle, SendRequest, DropSendRequest, Others
  <2> QED
    BY <2>1, OthersExecute DEF Honest, IInv, Types
<1>2. \A i \in Inners : WakeTask(i) => SameStreams(i, inner')
  BY DEF WakeTask, Inners, SameStreams
<1>3. /\ inner'.maxId = inner.maxId /\ inner'.sendMaxId = inner.sendMaxId
      /\ role = "server" => inner'.next = inner.next /\ (inner'.sender => inner.sender)
  <2>1. CASE \E id \in Ids : FinishStream(id)
    <3> DEFINE queue(id) == [inner EXCEPT !.queued = @ \cup {id}]
    <3>1. \A id \in Ids : queue(id) \in Inners /\ SameStreams(inner, queue(id))
      BY <1>1 DEF Inners, SameStreams
    <3>2. PICK id \in Ids : WakeTask(queue(id))
      BY <2>1 DEF FinishStream
    <3> HIDE DEF queue
    <3> QED
      BY <1>2, <3>1, <3>2 DEF SameStreams
  <2>2. CASE \E id \in Ids : DropHandle(id)
    <3> DEFINE dropped(id) == [inner EXCEPT !.held = @ \ {id}]
               cancelled(id) == [dropped(id) EXCEPT !.queued = @ \cup {id}]
    <3>1. \A id \in Ids : /\ dropped(id) \in Inners /\ cancelled(id) \in Inners
                          /\ SameStreams(inner, dropped(id))
                          /\ SameStreams(inner, cancelled(id))
      BY <1>1 DEF Inners, SameStreams
    <3>2. PICK id \in Ids : DropHandle(id)
      BY <2>2
    <3>3. inner' = cancelled(id) \/ WakeTask(cancelled(id)) \/ WakeTask(dropped(id))
      BY <3>2 DEF DropHandle
    <3> HIDE DEF dropped, cancelled
    <3> QED
      BY <1>2, <3>1, <3>3 DEF SameStreams
  <2>3. CASE SendRequest
    <3>1. role /= "server"
      BY <2>3 DEF Honest, Trusts, Polite, SendRequest
    <3> DEFINE j == [inner EXCEPT !.next = @ + 1, !.opening = @ \cup {inner.next},
                                  !.held = @ \cup {inner.next}]
    <3>2. j \in Inners /\ j.maxId = inner.maxId /\ j.sendMaxId = inner.sendMaxId
      <4> DEFINE n == inner.next
      <4>1. n \in Ids /\ n + 1 \in Nat
        BY <1>1, <2>3 DEF Inners, SendRequest
      <4>2. inner.opening \cup {n} \in SUBSET Ids /\ inner.held \cup {n} \in SUBSET Ids
        BY <1>1, <4>1 DEF Inners
      <4> QED
        BY <1>1, <4>1, <4>2 DEF Inners
    <3>3. WakeTask(j)
      BY <2>3 DEF SendRequest
    <3> HIDE DEF j
    <3> QED
      BY <1>2, <3>1, <3>2, <3>3 DEF SameStreams
  <2>4. CASE DropSendRequest
    <3> DEFINE j == [inner EXCEPT !.sender = FALSE]
    <3>1. /\ j \in Inners /\ j.maxId = inner.maxId /\ j.sendMaxId = inner.sendMaxId
          /\ j.next = inner.next /\ ~j.sender
      BY <1>1 DEF Inners
    <3>2. WakeTask(j) \/ inner' = j
      BY <2>4 DEF DropSendRequest
    <3> HIDE DEF j
    <3> QED
      BY <1>2, <3>1, <3>2 DEF SameStreams
  <2> QED
    BY <2>1, <2>2, <2>3, <2>4 DEF Handles
<1>4. Pipe' = Pipe
  BY <1>1 DEF Pipe
<1>5. Blameless(conn', goAway', exec')
  BY <1>1, BlamelessStill DEF Honest, Trusts
<1> QED
  BY <1>1, <1>3, <1>4, <1>5, TrustApart

LEMMA CallsTrust == ASSUME Honest, Calls PROVE Trusts'
<1>1. /\ UNCHANGED <<scene, codec, net, peer>> /\ exec'.result = exec.result
      /\ conn \in Connections /\ goAway \in GoAways /\ inner \in Inners
      /\ goAway.pending \subseteq goAway.going /\ scene \in SceneSpace
      /\ Announced(conn, goAway, inner, log)
      /\ Blameless(conn, goAway, exec)
  <2>1. UNCHANGED <<scene, codec, net, peer>>
    BY DEF Calls, GracefulShutdown, SetInitialWindowSize, AbruptShutdown
  <2>2. scene \in SceneSpace
    BY ConnectionAssumption DEF Honest, IInv, Types
  <2> QED
    BY <2>1, <2>2, OthersExecute DEF Honest, IInv, Types, Announced, Trusts
<1>2. Pipe' = Pipe
  BY <1>1 DEF Pipe
<1>3. CASE GracefulShutdown
  <2> DEFINE f == [id |-> MaxId, reason |-> "no_error"]
  <2>1. f \in GoAwayFrames /\ f.reason = "no_error"
    BY GoAwayAssumption DEF GoAwayFrames
  <2> HIDE DEF f
  <2>2. goAway.going = {} /\ goAway' = SetGoAway(goAway, f)
    BY <1>3 DEF GracefulShutdown, IsGoingAway, f
  <2>3. goAway'.going = {f}
    BY <1>1, <2>1, <2>2, SetGoAwaySets
  <2>4. inner.maxId = MaxId
    BY <1>1, <2>2 DEF Announced
  <2>5. SameStreams(inner, inner') /\ conn'.reason = conn.reason /\ conn'.local = conn.local
    BY <1>1, <1>3, <2>4 DEF GracefulShutdown, SameStreams, Inners, Connections
  <2>6. Blameless(conn', goAway', exec')
    BY <1>1, <2>1, <2>3, <2>5 DEF Blameless
  <2> QED
    BY <1>1, <1>2, <2>5, <2>6, TrustApart DEF SameStreams
<1>4. ASSUME NEW reason \in scene.reasons, AbruptShutdown(reason) PROVE Trusts'
  <2> DEFINE g == [goAway EXCEPT !.user = TRUE]
  <2>1. reason \in Reasons /\ reason /= "protocol"
    BY <1>1, <1>4 DEF SceneSpace
  <2>2. g \in GoAways /\ g.pending \subseteq g.going /\ g.going = goAway.going
    BY <1>1 DEF GoAways
  <2>3. /\ goAway' = GoAwayNow(g, GoAwayFrame(inner, reason)) /\ conn' = conn
        /\ inner' = FailAll(inner)
    BY <1>4 DEF AbruptShutdown, GoAwayFromUser
  <2> HIDE DEF g
  <2>4. Blameless(conn, g, exec)
    BY <1>1, <2>2, BlamelessStill
  <2>5. Blameless(conn', goAway', exec')
    BY <1>1, <2>1, <2>2, <2>3, <2>4, BlamelessClosing
  <2>6. SameStreams(inner, inner')
    BY <1>1, <2>3, FailAllSame
  <2> QED
    BY <1>1, <1>2, <2>3, <2>5, <2>6, TrustApart DEF SameStreams
<1>5. CASE SetInitialWindowSize
  <2>1. /\ conn.local = "synced" /\ conn'.reason = conn.reason
        /\ goAway' = goAway /\ inner' = inner
    BY <1>1, <1>5 DEF SetInitialWindowSize, Connections
  <2>2. Asked(conn'.local, Pipe, net.in)
    BY <2>1 DEF Honest, Trusts, Asked
  <2>3. Blameless(conn', goAway', exec')
    BY <1>1, <2>1, BlamelessStill
  <2>4. role' = role /\ Polite(net.in, inner, peer)
    BY <1>1 DEF role, Honest, Trusts
  <2>5. Polite(net.in, inner, peer)'
    BY <1>1, <2>1, <2>4 DEF Polite
  <2> QED
    BY <1>1, <1>2, <2>2, <2>3, <2>5 DEF Trusts
<1> QED
  BY <1>3, <1>4, <1>5 DEF Calls

LEMMA PingerTrusts == ASSUME Honest, Pinger PROVE Trusts'
<1>1. UNCHANGED <<scene, conn, goAway, inner, codec, net, peer>>
  BY DEF Pinger, SendPing, WakeForPing, RegisterForPong, CheckPong, OnlyPinger
<1>2. exec'.result = exec.result
  BY OthersExecute DEF Honest
<1>3. Blameless(conn', goAway', exec')
  BY <1>1, <1>2, BlamelessStill DEF Honest, Trusts
<1> QED
  BY <1>1, <1>3, TrustApart DEF Pipe

----------------------------------------------------------------------------
(* Steps of the peer.                                                      *)

\* What the wires and the history hold.
LEMMA Honestly ==
  ASSUME Honest
  PROVE  /\ conn \in Connections /\ goAway \in GoAways /\ inner \in Inners /\ peer \in Peers
         /\ codec \in Codecs /\ net \in Nets /\ net.in \in Seq(InFrames)
         /\ net.out \in Seq(OutFrames) /\ Pipe \in Seq(OutFrames)
         /\ goAway.pending \subseteq goAway.going
         /\ Blameless(conn, goAway, exec) /\ Asked(conn.local, Pipe, net.in)
         /\ Polite(net.in, inner, peer) /\ scene \in SceneSpace
BY Wires, ConnectionAssumption DEF Honest, IInv, Types, Announced, Trusts

\* The peer sends a frame that breaks no rule, of its own accord or as a reply.
LEMMA SpeakTrusts ==
  ASSUME Honest, UNCHANGED <<scene, conn, goAway, inner>>, exec'.result = exec.result,
         NEW frame \in InFrames, net'.in = net.in \o <<frame>>,
         Asked(conn.local, Pipe', net.in),
         frame.kind = "ack" =>
           /\ conn.local = "waitingAck"
           /\ \A j \in 1 .. Len(Pipe') : Pipe'[j].kind /= "settings"
           /\ \A k \in 1 .. Len(net.in) : net.in[k].kind /= "ack",
         peer' \in Peers, frame.kind /= "bad",
         frame.kind = "headers" =>
           role = "server" /\ frame.arg = peer.next /\ peer'.next = peer.next + 1,
         frame.kind /= "headers" => peer'.next = peer.next,
         frame.kind = "reset" => role = "server" /\ frame.arg < peer.next,
         frame.kind = "goAway" => frame.arg.id <= peer.mine /\ peer'.mine = frame.arg.id,
         frame.kind /= "goAway" => peer'.mine = peer.mine
  PROVE  Trusts'
<1>1. /\ net.in \in Seq(InFrames) /\ inner \in Inners /\ peer \in Peers
      /\ Blameless(conn, goAway, exec) /\ Polite(net.in, inner, peer)
  BY Honestly
<1>2. net'.in = Append(net.in, frame)
  BY <1>1, AppendIsConcat
<1>3. Asked(conn.local, Pipe', Append(net.in, frame))
  BY <1>1, AskedBySpeaking
<1>4. Polite(Append(net.in, frame), inner, peer')
  BY <1>1, PoliteBySpeaking
<1>5. Blameless(conn', goAway', exec')
  BY <1>1, BlamelessStill
<1>6. role' = role
  BY DEF role
<1>7. Polite(net.in, inner, peer)' <=> Polite(net'.in, inner', peer')
  BY <1>6 DEF Polite
<1> QED
  BY <1>2, <1>3, <1>4, <1>5, <1>7 DEF Trusts

LEMMA PeerReadsTrusts == ASSUME Honest, PeerReads, peer' \in Peers PROVE Trusts'
<1> DEFINE frame == Head(net.out)
<1>1. /\ codec \in Codecs /\ net.out \in Seq(OutFrames) /\ net.in \in Seq(InFrames)
      /\ peer \in Peers /\ Pipe \in Seq(OutFrames) /\ Asked(conn.local, Pipe, net.in)
      /\ Blameless(conn, goAway, exec)
  BY Honestly
<1>2. /\ net.out /= <<>> /\ Transport(Tail(net.out), Replies(frame)) /\ UNCHANGED PeerOnly
      /\ exec'.result = exec.result
  BY OthersExecute DEF PeerReads, Peer, Honest
<1>3. frame \in OutFrames
  BY <1>1, <1>2, HeadTailProperties
<1>4. peer'.next = peer.next /\ peer'.mine = peer.mine
  <2>1. \E acked, opened : peer' = [peer EXCEPT !.acked = acked, !.opened = opened]
    BY DEF PeerReads
  <2> QED
    BY <1>1, <2>1 DEF Peers
<1>5. /\ net'.out = Tail(net.out) /\ codec'.buf = codec.buf
      /\ net'.in = net.in \o Replies(frame)
  BY <1>1, <1>2 DEF Transport, Codecs
<1>6. Pipe /= <<>> /\ Head(Pipe) = frame /\ Pipe' = Tail(Pipe)
  BY <1>2, <1>5, PipeByReceiving DEF Honest
<1>7. /\ Asked(conn.local, Pipe', net.in)
      /\ frame.kind = "settings" =>
           /\ conn.local = "waitingAck"
           /\ \A j \in 1 .. Len(Pipe') : Pipe'[j].kind /= "settings"
           /\ \A k \in 1 .. Len(net.in) : net.in[k].kind /= "ack"
  BY <1>1, <1>6, AskedByReceiving
<1> HIDE DEF frame
<1>8. UNCHANGED <<scene, conn, goAway, inner>>
  BY <1>2 DEF PeerOnly
<1>9. CASE Replies(frame) = <<>>
  <2>1. net'.in = net.in
    BY <1>1, <1>5, <1>9, ConcatEmptySeq
  <2>2. Blameless(conn', goAway', exec')
    BY <1>1, <1>2, <1>8, BlamelessStill
  <2>3. Polite(net.in, inner, peer')
    BY <1>4, PoliteApart DEF Honest, Trusts
  <2>4. role' = role
    BY <1>8 DEF role
  <2>5. Polite(net.in, inner, peer)' <=> Polite(net'.in, inner', peer')
    BY <2>4 DEF Polite
  <2> QED
    BY <1>7, <1>8, <2>1, <2>2, <2>3, <2>5 DEF Trusts
<1>10. CASE Replies(frame) /= <<>>
  <2>1. PICK reply \in InFrames :
          /\ Replies(frame) = <<reply>> /\ reply.kind \in {"ack", "pong"}
          /\ reply.kind = "ack" => frame.kind = "settings"
    <3>1. In("ack", 0) \in InFrames /\ In("ack", 0).kind = "ack"
      BY <1>1 DEF In, InFrames, Peers
    <3>2. frame.kind = "ping" =>
            In("pong", frame.arg) \in InFrames /\ In("pong", frame.arg).kind = "pong"
      BY <1>1, <1>3 DEF In, InFrames, OutFrames, Peers
    <3> QED
      BY <1>10, <3>1, <3>2 DEF Replies
  <2> QED
    BY <1>2, <1>4, <1>5, <1>7, <1>8, <2>1, SpeakTrusts
<1> QED
  BY <1>9, <1>10

LEMMA PeerTrusts ==
  ASSUME Honest, Peer, ~PeerBreaksRules, peer' \in Peers
  PROVE  Trusts'
<1>1. /\ peer \in Peers /\ peer.epoch \in Nat /\ scene \in SceneSpace
      /\ codec \in Codecs /\ net.out \in Seq(OutFrames)
      /\ Asked(conn.local, Pipe, net.in)
  BY Honestly DEF Peers
<1>2. exec'.result = exec.result
  BY OthersExecute DEF Honest
<1>3. CASE PeerReads
  BY <1>3, PeerReadsTrusts
<1>4. CASE ~PeerReads
  <2>1. UNCHANGED PeerOnly
    BY <1>4 DEF Peer, PeerOpens, PeerPings, PeerBreaksRules, PeerAnswers,
       PeerResets, PeerChangesSettings, PeerGoesAway, PeerCloses
  <2>2. PICK frame \in InFrames :
          /\ Transport(net.out, <<frame>>)
          /\ frame.kind \notin {"bad", "ack"}
          /\ frame.kind = "headers" =>
               role = "server" /\ frame.arg = peer.next /\ peer'.next = peer.next + 1
          /\ frame.kind /= "headers" => peer'.next = peer.next
          /\ frame.kind = "reset" => role = "server" /\ frame.arg < peer.next
          /\ frame.kind = "goAway" => frame.arg.id <= peer.mine /\ peer'.mine = frame.arg.id
          /\ frame.kind /= "goAway" => peer'.mine = peer.mine
    <3>1. CASE PeerOpens
      <4>1. /\ Transport(net.out, <<In("headers", peer.next)>>) /\ role = "server"
            /\ peer.next \in Ids
            /\ peer'.next = peer.next + 1 /\ peer'.mine = peer.mine
        BY <1>1, <3>1 DEF PeerOpens, PeerSends, Peers
      <4>2. In("headers", peer.next) \in InFrames
        BY <1>1, <4>1 DEF In, InFrames
      <4> QED
        BY <4>1, <4>2 DEF In
    <3>2. CASE \E id \in Ids : PeerResets(id)
      <4>1. PICK id \in Ids : PeerResets(id)
        BY <3>2
      <4>2. /\ Transport(net.out, <<In("reset", id)>>) /\ role = "server" /\ id < peer.next
            /\ peer'.next = peer.next /\ peer'.mine = peer.mine
        BY <1>1, <4>1 DEF PeerResets, PeerSends, Peers
      <4>3. In("reset", id) \in InFrames
        BY <1>1 DEF In, InFrames
      <4> QED
        BY <4>2, <4>3 DEF In
    <3>3. CASE \E id \in Ids : PeerAnswers(id)
      <4>1. PICK id \in Ids : PeerAnswers(id)
        BY <3>3
      <4>2. /\ Transport(net.out, <<In("response", id)>>)
            /\ peer'.next = peer.next /\ peer'.mine = peer.mine
        BY <1>1, <4>1 DEF PeerAnswers, Peers
      <4>3. In("response", id) \in InFrames
        BY <1>1 DEF In, InFrames
      <4> QED
        BY <4>2, <4>3 DEF In
    <3>4. CASE PeerPings
      <4>1. /\ \/ Transport(net.out, <<In("ping", 0)>>)
               \/ Transport(net.out, <<In("pong", "other")>>)
            /\ peer'.next = peer.next /\ peer'.mine = peer.mine
        BY <1>1, <3>4 DEF PeerPings, PeerSends, Peers
      <4>2. In("ping", 0) \in InFrames /\ In("pong", "other") \in InFrames
        BY <1>1 DEF In, InFrames
      <4> QED
        BY <4>1, <4>2 DEF In
    <3>5. CASE \E limit \in Limits : PeerChangesSettings(limit)
      <4>1. PICK limit \in Limits : PeerChangesSettings(limit)
        BY <3>5
      <4>2. /\ Transport(net.out, <<In("settings", limit)>>)
            /\ peer'.next = peer.next /\ peer'.mine = peer.mine
        BY <1>1, <4>1 DEF PeerChangesSettings, PeerSends, Peers
      <4>3. In("settings", limit) \in InFrames
        BY <1>1 DEF In, InFrames
      <4> QED
        BY <4>2, <4>3 DEF In
    <3>6. CASE \E id \in 0 .. MaxId, reason \in scene.reasons : PeerGoesAway(id, reason)
      <4>1. PICK id \in 0 .. MaxId, reason \in scene.reasons : PeerGoesAway(id, reason)
        BY <3>6
      <4> DEFINE f == [id |-> id, reason |-> reason]
      <4>2. /\ Transport(net.out, <<In("goAway", f)>>) /\ id <= peer.mine
            /\ peer'.next = peer.next /\ peer'.mine = id
        BY <1>1, <4>1 DEF PeerGoesAway, PeerSends, Peers
      <4>3. f \in GoAwayFrames /\ f.id = id
        BY <1>1 DEF GoAwayFrames, SceneSpace
      <4> HIDE DEF f
      <4>4. In("goAway", f) \in InFrames
        BY <1>1, <4>3 DEF In, InFrames
      <4> QED
        BY <4>2, <4>3, <4>4 DEF In
    <3>7. CASE \E kind \in {"eof", "broken"} : PeerCloses(kind)
      <4>1. PICK kind \in {"eof", "broken"} : PeerCloses(kind)
        BY <3>7
      <4>2. /\ Transport(net.out, <<In(kind, 0)>>)
            /\ peer'.next = peer.next /\ peer'.mine = peer.mine
        BY <1>1, <4>1 DEF PeerCloses, PeerSends, Peers
      <4>3. In(kind, 0) \in InFrames
        BY <1>1 DEF In, InFrames
      <4> QED
        BY <4>2, <4>3 DEF In
    <3> QED
      BY <1>4, <3>1, <3>2, <3>3, <3>4, <3>5, <3>6, <3>7 DEF Peer
  <2>3. net'.in = net.in \o <<frame>> /\ net'.out = net.out /\ codec'.buf = codec.buf
    BY <1>1, <2>2 DEF Transport, Codecs
  <2>4. Pipe' = Pipe
    BY <2>3 DEF Pipe
  <2> QED
    BY <1>1, <1>2, <2>1, <2>2, <2>3, <2>4, SpeakTrusts DEF PeerOnly
<1> QED
  BY <1>3, <1>4

----------------------------------------------------------------------------
(* Steps of the task that read nothing.                                    *)

LEMMA MoveTrusts ==
  ASSUME Honest, scene' = scene, peer' = peer, net'.in = net.in,
         Asked(conn'.local, Pipe', net.in), SameStreams(inner, inner'),
         Blameless(conn', goAway', exec')
  PROVE  Trusts'
<1>1. Polite(net.in, inner', peer')
  BY PoliteApart DEF Honest, Trusts, SameStreams
<1>2. role' = role
  BY DEF role
<1>3. Polite(net.in, inner, peer)' <=> Polite(net'.in, inner', peer')
  BY <1>2 DEF Polite
<1> QED
  BY <1>1, <1>3 DEF Trusts

LEMMA BufferTrusts ==
  ASSUME Honest, scene' = scene, peer' = peer, net' = net,
         NEW frame \in OutFrames, Buffer(frame),
         frame.kind = "settings" => conn.local /= "waitingAck" /\ conn'.local = "waitingAck",
         frame.kind /= "settings" => conn'.local = conn.local,
         SameStreams(inner, inner'), Blameless(conn', goAway', exec')
  PROVE  Trusts'
<1>1. Pipe' = Append(Pipe, frame)
  BY PipeByBuffering DEF Honest
<1>2. Asked(conn'.local, Append(Pipe, frame), net.in)
  BY Honestly, AskedByWriting
<1> QED
  BY <1>1, <1>2, MoveTrusts

LEMMA FlushTrusts ==
  ASSUME Honest, Handshake \/ MakeRoom \/ FlushAll \/ Shutdown,
         exec'.result = exec.result
  PROVE  Trusts'
<1>1. conn \in Connections /\ Blameless(conn, goAway, exec) /\ Asked(conn.local, Pipe, net.in)
  BY Honestly
<1>2. /\ scene' = scene /\ peer' = peer /\ inner' = inner /\ goAway' = goAway
      /\ conn'.local = conn.local /\ conn'.reason = conn.reason
  BY <1>1 DEF Handshake, MakeRoom, FlushAll, Shutdown, Idle, task, Connections
<1>3. PICK done, blocked : Flush(done, blocked)
  BY DEF Handshake, MakeRoom, FlushAll, Shutdown
<1>4. Pipe' = Pipe /\ net'.in = net.in
  BY <1>3, PipeByFlushing DEF Honest
<1>5. Blameless(conn', goAway', exec')
  BY <1>1, <1>2, BlamelessStill
<1>6. SameStreams(inner, inner')
  BY <1>2 DEF SameStreams
<1> QED
  BY <1>1, <1>2, <1>4, <1>5, <1>6, MoveTrusts

LEMMA MovesTrust ==
  ASSUME Honest,
         \/ ReadPreface \/ StartPoll \/ CheckReferences \/ CloseAfterGoAway \/ NoUserPing
         \/ RegisterPing \/ ReadNothing \/ WakePong \/ AllBuffered \/ CheckIdle
         \/ ParkClient \/ ParkServer \/ WakeOnDrop,
         exec'.result = exec.result
  PROVE  Trusts'
<1>1. /\ conn \in Connections /\ goAway \in GoAways /\ inner \in Inners /\ codec \in Codecs
      /\ goAway.pending \subseteq goAway.going
      /\ Blameless(conn, goAway, exec) /\ Asked(conn.local, Pipe, net.in)
  BY Honestly
<1>2. scene' = scene /\ peer' = peer /\ net' = net /\ codec'.buf = codec.buf
  BY <1>1 DEF ReadPreface, StartPoll, CheckReferences, CloseAfterGoAway, NoUserPing,
     RegisterPing, ReadNothing, WakePong, AllBuffered, CheckIdle, ParkClient, ParkServer,
     WakeOnDrop, Idle, task, Codecs
<1>3. Pipe' = Pipe
  BY <1>2 DEF Pipe
<1>4. SameStreams(inner, inner')
  <2>1. CASE AllBuffered \/ ParkServer
    BY <1>1, <2>1 DEF AllBuffered, ParkServer, SameStreams, Inners
  <2>2. CASE ~(AllBuffered \/ ParkServer)
    <3>1. inner' = inner
      BY <2>2 DEF ReadPreface, StartPoll, CheckReferences, CloseAfterGoAway, NoUserPing,
         RegisterPing, ReadNothing, WakePong, CheckIdle, ParkClient, WakeOnDrop, Idle, task
    <3> QED
      BY <3>1 DEF SameStreams
  <2> QED
    BY <2>1, <2>2
<1>5. CASE CheckReferences \/ CheckIdle
  <2>1. /\ conn' = conn
        /\ goAway' = goAway \/ goAway' = GoAwayNow(goAway, GoAwayFrame(inner, "no_error"))
    BY <1>5 DEF CheckReferences, CheckIdle, CloseNow
  <2>2. "no_error" \in Reasons
    BY GoAwayAssumption
  <2>3. Blameless(conn', goAway', exec')
    BY <1>1, <2>1, <2>2, BlamelessStill, BlamelessClosing
  <2> QED
    BY <1>1, <1>2, <1>3, <1>4, <2>1, <2>3, MoveTrusts
<1>6. CASE CloseAfterGoAway
  <2>1. PICK f \in goAway.going : conn' = CloseWith(f.reason)
    BY <1>6 DEF CloseAfterGoAway
  <2>2. conn'.local = conn.local /\ conn'.reason \in {"no_error", f.reason}
    BY <1>1, <2>1 DEF CloseWith, Closing, Connections
  <2>3. conn'.reason /= "protocol"
    BY <1>1, <2>2 DEF Blameless
  <2>4. Blameless(conn', goAway', exec')
    BY <1>1, <1>6, <2>3, BlamelessStill DEF CloseAfterGoAway
  <2> QED
    BY <1>1, <1>2, <1>3, <1>4, <2>2, <2>4, MoveTrusts
<1>7. CASE ~(CheckReferences \/ CheckIdle \/ CloseAfterGoAway)
  <2>1. conn' = conn /\ goAway' = goAway
    BY <1>7 DEF ReadPreface, StartPoll, NoUserPing, RegisterPing, ReadNothing, WakePong,
       AllBuffered, ParkClient, ParkServer, WakeOnDrop, Idle, task
  <2>2. Blameless(conn', goAway', exec')
    BY <1>1, <2>1, BlamelessStill
  <2> QED
    BY <1>1, <1>2, <1>3, <1>4, <2>1, <2>2, MoveTrusts
<1> QED
  BY <1>5, <1>6, <1>7

LEMMA FinishTrusts == ASSUME Honest, Finish PROVE Trusts'
<1>1. /\ conn \in Connections /\ inner \in Inners
      /\ Blameless(conn, goAway, exec) /\ Asked(conn.local, Pipe, net.in)
  BY Honestly
<1>2. UNCHANGED <<scene, peer, net, codec, conn, goAway>>
  BY DEF Finish
<1>3. SameStreams(inner, inner')
  <2>1. FailAll(inner) \in Inners /\ SameStreams(inner, FailAll(inner))
    BY <1>1, FailAllSame
  <2>2. inner' = [FailAll(inner) EXCEPT !.accept = {}]
    BY DEF Finish
  <2> QED
    BY <2>1, <2>2 DEF SameStreams, Inners
<1>4. exec'.result /= "protocol"
  <2>1. TakeError(conn.reason, conn.error) /= "protocol"
    BY <1>1 DEF TakeError, Blameless
  <2>2. PICK r : /\ exec' = [exec EXCEPT !.result = r]
                 /\ r \in {exec.result, TakeError(conn.reason, conn.error)}
    BY DEF Finish
  <2>3. exec'.result = r
    BY <2>2, ExecutorEnds DEF Honest
  <2> QED
    BY <1>1, <2>1, <2>2, <2>3 DEF Blameless
<1>5. Blameless(conn', goAway', exec')
  BY <1>1, <1>2, <1>4 DEF Blameless
<1>6. Pipe' = Pipe
  BY <1>2 DEF Pipe
<1> QED
  BY <1>1, <1>2, <1>3, <1>5, <1>6, MoveTrusts

LEMMA WritesTrust ==
  ASSUME Honest,
         \/ SendGoAway \/ SendPong \/ SendShutdownPing \/ SendUserPing
         \/ SendSettingsAck \/ SendLocalSettings \/ WriteLastFrame \/ OpenStream,
         exec'.result = exec.result
  PROVE  Trusts'
<1>1. /\ conn \in Connections /\ goAway \in GoAways /\ inner \in Inners
      /\ goAway.pending \subseteq goAway.going
      /\ Blameless(conn, goAway, exec)
  BY Honestly
<1>2. net' = net /\ peer' = peer /\ scene' = scene
  BY DEF SendGoAway, SendPong, SendShutdownPing, SendUserPing, SendSettingsAck,
     SendLocalSettings, WriteLastFrame, OpenStream
<1>3. SameStreams(inner, inner')
  <2>1. CASE SendSettingsAck \/ WriteLastFrame \/ OpenStream
    <3>1. \/ \E limit : inner' = [inner EXCEPT !.limit = limit]
          \/ \E active, queued : inner' = [inner EXCEPT !.active = active, !.queued = queued]
          \/ \E active, opening : inner' = [inner EXCEPT !.active = active, !.opening = opening]
      BY <2>1 DEF SendSettingsAck, WriteLastFrame, OpenStream
    <3> QED
      BY <1>1, <3>1 DEF SameStreams, Inners
  <2>2. CASE ~(SendSettingsAck \/ WriteLastFrame \/ OpenStream)
    <3>1. inner' = inner
      BY <2>2 DEF SendGoAway, SendPong, SendShutdownPing, SendUserPing, SendLocalSettings
    <3> QED
      BY <3>1 DEF SameStreams
  <2> QED
    BY <2>1, <2>2
<1>4. CASE SendGoAway
  <2>1. PICK f \in goAway.pending :
          /\ Buffer(Out("goAway", f))
          /\ conn' = conn \/ conn' = CloseWith(f.reason)
    BY <1>4 DEF SendGoAway
  <2>2. Out("goAway", f) \in OutFrames /\ Out("goAway", f).kind = "goAway"
    <3>1. f \in GoAwayFrames
      BY <1>1, FramesOfGoAway
    <3> QED
      BY <3>1 DEF Out, OutFrames
  <2>3. conn'.local = conn.local /\ conn'.reason \in {conn.reason, "no_error", f.reason}
    BY <1>1, <2>1 DEF CloseWith, Closing, Connections
  <2>4. f.reason /= "protocol"
    BY <1>1 DEF Blameless
  <2>5. goAway'.going = goAway.going
    BY <1>1, <1>4 DEF SendGoAway, GoAways
  <2>6. Blameless(conn', goAway', exec')
    BY <1>1, <2>3, <2>4, <2>5, BlamelessStill
  <2> QED
    BY <1>2, <1>3, <2>1, <2>2, <2>3, <2>6, BufferTrusts
<1>5. CASE ~SendGoAway
  <2>1. goAway' = goAway /\ conn'.reason = conn.reason
    BY <1>1, <1>5 DEF SendPong, SendShutdownPing, SendUserPing, SendSettingsAck,
       SendLocalSettings, WriteLastFrame, OpenStream, task, Connections
  <2>2. Blameless(conn', goAway', exec')
    BY <1>1, <2>1, BlamelessStill
  <2>3. PICK frame \in OutFrames :
          /\ Buffer(frame)
          /\ frame.kind = "settings" => conn.local /= "waitingAck" /\ conn'.local = "waitingAck"
          /\ frame.kind /= "settings" => conn'.local = conn.local
    <3>1. CASE SendLocalSettings
      <4>1. Out("settings", 0) \in OutFrames /\ Out("settings", 0).kind = "settings"
        BY DEF Out, OutFrames
      <4>2. conn.local = "toSend"
        BY <3>1 DEF SendLocalSettings, Honest, LocalDuty
      <4>3. conn'.local = "waitingAck" /\ Buffer(Out("settings", 0))
        BY <1>1, <3>1 DEF SendLocalSettings, Connections
      <4> QED
        BY <4>1, <4>2, <4>3
    <3>2. CASE SendPong \/ SendShutdownPing \/ SendUserPing \/ SendSettingsAck
      <4>1. conn'.local = conn.local
        BY <1>1, <3>2
           DEF SendPong, SendShutdownPing, SendUserPing, SendSettingsAck, task, Connections
      <4>2. \E frame \in OutFrames : Buffer(frame) /\ frame.kind /= "settings"
        BY <3>2 DEF SendPong, SendShutdownPing, SendUserPing, SendSettingsAck, Out, OutFrames
      <4> QED
        BY <4>1, <4>2
    <3>3. CASE WriteLastFrame \/ OpenStream
      <4>1. PICK id \in Ids : Buffer(Out("end", id)) \/ Buffer(Out("headers", id))
        BY <1>1, <3>3 DEF WriteLastFrame, OpenStream, Inners
      <4>2. conn' = conn
        BY <3>3 DEF WriteLastFrame, OpenStream, task
      <4> QED
        BY <4>1, <4>2 DEF Out, OutFrames
    <3> QED
      BY <1>5, <3>1, <3>2, <3>3
  <2> QED
    BY <1>2, <1>3, <2>2, <2>3, BufferTrusts
<1> QED
  BY <1>4, <1>5

LEMMA RefusalTrusts ==
  ASSUME Honest, SendRefusal, exec'.result = exec.result
  PROVE  Trusts'
<1>1. conn \in Connections /\ inner \in Inners /\ Blameless(conn, goAway, exec)
      /\ Asked(conn.local, Pipe, net.in)
  BY Honestly
<1>2. net' = net /\ peer' = peer /\ scene' = scene
  BY DEF SendRefusal
<1>3. CASE inner.refusals < MaxRefusals
  <2>1. PICK id \in conn.refusal : Buffer(Out("reset", id))
    BY <1>3 DEF SendRefusal
  <2>2. Out("reset", id) \in OutFrames /\ Out("reset", id).kind = "reset"
    <3>1. id \in Ids
      BY <1>1, OneAtMost DEF Connections
    <3> QED
      BY <3>1 DEF Out, OutFrames
  <2>3. /\ conn'.local = conn.local /\ conn'.reason = conn.reason /\ goAway' = goAway
        /\ SameStreams(inner, inner')
    BY <1>1, <1>3 DEF SendRefusal, Connections, SameStreams, Inners
  <2>4. Blameless(conn', goAway', exec')
    BY <1>1, <2>3, BlamelessStill
  <2> QED
    BY <1>2, <2>1, <2>2, <2>3, <2>4, BufferTrusts
<1>4. CASE ~(inner.refusals < MaxRefusals)
  <2>1. ConnectionError(conn, inner, "calm") /\ codec' = codec
    BY <1>4 DEF SendRefusal
  <2>2. "calm" \in Reasons /\ "calm" /= "protocol"
    BY ConnectionAssumption
  <2>3. /\ Blameless(conn', goAway', exec') /\ conn'.local = conn.local
        /\ SameStreams(inner, inner')
    BY <2>1, <2>2, BlamelessError
  <2>4. Pipe' = Pipe
    BY <1>2, <2>1 DEF Pipe
  <2> QED
    BY <1>1, <1>2, <2>3, <2>4, MoveTrusts
<1> QED
  BY <1>3, <1>4

----------------------------------------------------------------------------
(* A frame is read.                                                        *)

LEMMA ReadTrusts ==
  ASSUME Honest, IInv', NEW kind, Receives(kind), Consume, UNCHANGED <<scene, codec, peer>>,
         kind /= "ack" => conn'.local = conn.local,
         inner'.maxId <= inner.maxId, inner'.sender => inner.sender,
         inner'.sendMaxId = IF kind = "goAway" THEN Arg.id ELSE inner.sendMaxId,
         kind = "headers" /\ Arg <= inner.maxId => inner'.next = Arg + 1,
         ~(kind = "headers" /\ Arg <= inner.maxId) => inner'.next = inner.next,
         Blameless(conn', goAway', exec')
  PROVE  Trusts'
<1>1. /\ net \in Nets /\ net.in \in Seq(InFrames) /\ inner \in Inners /\ peer \in Peers
      /\ Asked(conn.local, Pipe, net.in) /\ Polite(net.in, inner, peer)
  BY Honestly
<1>2. net.in /= <<>> /\ Head(net.in).kind = kind /\ Head(net.in).arg = Arg
  BY DEF Receives, Arg
<1>3. net'.in = Tail(net.in) /\ net'.out = net.out
  BY <1>1 DEF Consume, Nets
<1>4. Pipe' = Pipe
  BY <1>3 DEF Pipe
<1>5. Asked(conn'.local, Pipe, Tail(net.in))
  BY <1>1, <1>2, AskedByReading
<1>6. inner' \in Inners
  BY DEF IInv, Types
<1>7. Polite(Tail(net.in), inner', peer)
  BY <1>1, <1>2, <1>6, PoliteByReading
<1>8. role' = role
  BY DEF role
<1>9. Polite(net.in, inner, peer)' <=> Polite(net'.in, inner', peer')
  BY <1>8 DEF Polite
<1> QED
  BY <1>3, <1>4, <1>5, <1>7, <1>9 DEF Trusts

\* The loop goes on, and a request is the only frame that moves the next one.
LEMMA ReadOnTrusts ==
  ASSUME Honest, IInv', NEW kind, Receives(kind), kind \notin {"headers", "goAway"},
         NEW c, NEW i, ReadOn(c, i), Consume, UNCHANGED Rest,
         c.reason = conn.reason, kind /= "ack" => c.local = conn.local,
         SameStreams(inner, i)
  PROVE  Trusts'
<1>1. inner \in Inners /\ Blameless(conn, goAway, exec) /\ inner.maxId \in Nat
  BY Honestly, GoAwayAssumption DEF Inners
<1>2. /\ conn' = c /\ inner' = i /\ goAway' = goAway /\ exec' = exec
      /\ UNCHANGED <<scene, codec, peer>>
  BY DEF ReadOn, Rest
<1>3. Blameless(conn', goAway', exec')
  BY <1>1, <1>2, BlamelessStill
<1>4. inner'.maxId <= inner.maxId
  BY <1>1, <1>2 DEF SameStreams
<1> QED
  BY <1>2, <1>3, <1>4, ReadTrusts DEF SameStreams

\* What may be at the head of the frames of a polite peer.
LEMMA Welcome ==
  ASSUME Honest, NEW kind, Receives(kind)
  PROVE  /\ kind /= "bad"
         /\ kind = "headers" => role = "server" /\ inner.next <= Arg
         /\ kind = "reset" => role = "server" /\ (Arg < inner.next \/ Arg > inner.maxId)
         /\ kind = "ack" => conn.local = "waitingAck"
         /\ kind = "goAway" => Arg.id <= inner.sendMaxId
<1>1. /\ net.in \in Seq(InFrames) /\ scene \in SceneSpace
      /\ Asked(conn.local, Pipe, net.in) /\ Polite(net.in, inner, peer)
  BY Honestly
<1>2. net.in /= <<>> /\ Head(net.in).kind = kind /\ Head(net.in).arg = Arg
  BY DEF Receives, Arg
<1>3. 1 \in 1 .. Len(net.in) /\ Head(net.in) = net.in[1] /\ \A j \in 1 .. Len(net.in) : ~(j < 1)
  BY <1>1, <1>2, Shorter
<1>4. role \in {"server", "client"}
  BY <1>1 DEF SceneSpace, role
<1>5. kind /= "bad" /\ (kind \in {"headers", "reset"} => role = "server")
  BY <1>1, <1>2, <1>3, <1>4 DEF Polite
<1>6. kind = "headers" => inner.next <= Arg
  BY <1>1, <1>2, <1>3, <1>5 DEF Polite, Streamed
<1>7. kind = "reset" => Arg < inner.next \/ Arg > inner.maxId
  <2>1. ASSUME kind = "reset"
        PROVE  \/ Arg < inner.next \/ Arg > inner.maxId
               \/ \E j \in 1 .. Len(net.in) : j < 1 /\ OpensId(net.in[j], Arg)
    BY <1>1, <1>2, <1>3, <1>5, <2>1 DEF Polite, Streamed
  <2> QED
    BY <1>3, <2>1
<1>8. kind = "ack" => conn.local = "waitingAck"
  BY <1>1, <1>2, AskedByReading
<1>9. kind = "goAway" => Arg.id <= inner.sendMaxId
  BY <1>1, <1>2, <1>3 DEF Polite, Falling
<1> QED
  BY <1>5, <1>6, <1>7, <1>8, <1>9

LEMMA ReadHeadersTrusts == ASSUME Honest, IInv', ReadHeaders PROVE Trusts'
<1> DEFINE id == Arg
           seen == [inner EXCEPT !.next = id + 1]
<1>1. /\ conn \in Connections /\ inner \in Inners /\ Blameless(conn, goAway, exec)
      /\ inner.maxId \in Nat /\ inner.next \in Nat
  BY Honestly, GoAwayAssumption DEF Inners
<1>2. Receives("headers") /\ Consume /\ UNCHANGED Rest
  BY DEF ReadHeaders
<1>3. inner.next <= id
  BY <1>2, Welcome
<1>4. id \in Nat
  <2>1. net \in Nets
    BY DEF Honest, IInv, Types
  <2>2. Head(net.in) \in InFrames /\ Head(net.in).kind = "headers"
    BY <1>2, <2>1, ReceivedTyped
  <2> QED
    BY <2>2 DEF InFrames, Ids, Arg
<1>5. /\ goAway' = goAway /\ conn'.reason = conn.reason /\ conn'.local = conn.local
      /\ inner'.maxId = inner.maxId /\ inner'.sender = inner.sender
      /\ inner'.sendMaxId = inner.sendMaxId
      /\ inner'.next = IF id <= inner.maxId THEN id + 1 ELSE inner.next
  <2> HIDE DEF id
  <2>1. CASE id > inner.maxId
    <3>1. ReadOn(conn, inner)
      BY <1>1, <1>4, <2>1 DEF ReadHeaders, id
    <3> QED
      BY <1>1, <1>4, <2>1, <3>1 DEF ReadOn, id
  <2>2. CASE id <= inner.maxId /\ id >= inner.next /\ Cardinality(inner.active) >= RecvLimit
    <3>1. ReadOn([conn EXCEPT !.refusal = {id}], seen)
      BY <1>1, <1>4, <2>2 DEF ReadHeaders, id
    <3> QED
      BY <1>1, <2>2, <3>1 DEF ReadOn, Connections, Inners
  <2>3. CASE id <= inner.maxId /\ id >= inner.next /\ ~(Cardinality(inner.active) >= RecvLimit)
    <3>1. ReadOn(conn, [seen EXCEPT !.last = id, !.active = @ \cup {id},
                                    !.accept = @ \cup {id}])
      BY <1>1, <1>4, <2>3 DEF ReadHeaders, id
    <3> QED
      BY <1>1, <2>3, <3>1 DEF ReadOn, Inners
  <2> QED
    BY <1>1, <1>3, <1>4, <2>1, <2>2, <2>3 DEF id
<1> HIDE DEF id, seen
<1>6. exec' = exec /\ UNCHANGED <<scene, codec, peer>>
  BY <1>2 DEF Rest
<1>7. Blameless(conn', goAway', exec')
  BY <1>1, <1>5, <1>6, BlamelessStill
<1>8. inner'.maxId <= inner.maxId
  BY <1>1, <1>5
<1>9. /\ Arg <= inner.maxId => inner'.next = Arg + 1
      /\ ~(Arg <= inner.maxId) => inner'.next = inner.next
  BY <1>5 DEF id
<1> QED
  BY <1>2, <1>5, <1>6, <1>7, <1>8, <1>9, ReadTrusts

LEMMA ReadGoAwayTrusts == ASSUME Honest, IInv', ReadGoAway PROVE Trusts'
<1> DEFINE refused == IF role = "client" THEN {id \in Ids : id > Arg.id} ELSE {}
<1>1. /\ conn \in Connections /\ inner \in Inners /\ Blameless(conn, goAway, exec)
      /\ inner.maxId \in Nat /\ inner.sendMaxId \in Nat
  BY Honestly, GoAwayAssumption DEF Inners
<1>2. Receives("goAway") /\ Consume /\ UNCHANGED Rest
  BY DEF ReadGoAway
<1>3. Arg.id <= inner.sendMaxId
  BY <1>2, Welcome
<1>4. Arg.id \in Nat
  <2>1. net \in Nets
    BY DEF Honest, IInv, Types
  <2>2. Head(net.in) \in InFrames /\ Head(net.in).kind = "goAway"
    BY <1>2, <2>1, ReceivedTyped
  <2>3. Arg \in GoAwayFrames
    BY <2>2 DEF InFrames, Arg
  <2> QED
    BY <2>3 DEF GoAwayFrames
<1>5. ~(Arg.id > inner.sendMaxId)
  BY <1>1, <1>3, <1>4
<1>6. ReadOn([conn EXCEPT !.error = {Arg.reason}],
             [inner EXCEPT !.connError = TRUE, !.sendMaxId = Arg.id,
                           !.active = @ \ refused, !.queued = @ \ refused,
                           !.opening = @ \ refused])
  BY <1>5 DEF ReadGoAway
<1> HIDE DEF refused
<1>7. /\ goAway' = goAway /\ conn'.reason = conn.reason /\ conn'.local = conn.local
      /\ inner'.maxId = inner.maxId /\ inner'.sender = inner.sender
      /\ inner'.sendMaxId = Arg.id /\ inner'.next = inner.next
  BY <1>1, <1>6 DEF ReadOn, Connections, Inners
<1>8. exec' = exec /\ UNCHANGED <<scene, codec, peer>>
  BY <1>2 DEF Rest
<1>9. Blameless(conn', goAway', exec')
  BY <1>1, <1>7, <1>8, BlamelessStill
<1>10. inner'.maxId <= inner.maxId
  BY <1>1, <1>7
<1> QED
  BY <1>2, <1>7, <1>8, <1>9, <1>10, ReadTrusts

\* Frames after which the loop goes on.
LEMMA ReadsTrust ==
  ASSUME Honest, IInv',
         \/ ReadReset \/ ReadResponse \/ ReadPing \/ ReadUnknownPong \/ ReadSettings
         \/ ReadSettingsAck
  PROVE  Trusts'
<1>1. conn \in Connections /\ inner \in Inners /\ inner.next \in Nat /\ inner.maxId \in Nat
  BY Honestly, GoAwayAssumption DEF Inners
<1>2. Consume /\ UNCHANGED Rest
  BY DEF ReadReset, ReadResponse, ReadPing, ReadUnknownPong, ReadSettings, ReadSettingsAck
<1>3. SameStreams(inner, inner)
  BY DEF SameStreams
<1>4. CASE ReadReset \/ ReadResponse
  <2>1. PICK kind \in {"reset", "response"} : Receives(kind)
    BY <1>4 DEF ReadReset, ReadResponse
  <2>2. PICK i : /\ ReadOn(conn, i)
                 /\ \/ i = inner
                    \/ \E active, queued : i = [inner EXCEPT !.active = active, !.queued = queued]
                    \/ \E active : i = [inner EXCEPT !.active = active]
    <3>1. CASE ReadReset
      <4>1. Receives("reset")
        BY <3>1 DEF ReadReset
      <4>2. Arg < inner.next \/ Arg > inner.maxId
        BY <4>1, Welcome
      <4>3. Arg \in Nat
        <5>1. net \in Nets
          BY DEF Honest, IInv, Types
        <5>2. Head(net.in) \in InFrames /\ Head(net.in).kind = "reset"
          BY <4>1, <5>1, ReceivedTyped
        <5> QED
          BY <5>2 DEF InFrames, Ids, Arg
      <4>4. ~(Arg <= inner.maxId /\ Arg >= inner.next)
        BY <1>1, <4>2, <4>3
      <4>5. \/ ReadOn(conn, inner)
            \/ ReadOn(conn, [inner EXCEPT !.active = @ \ {Arg}, !.queued = @ \ {Arg}])
        BY <3>1, <4>4 DEF ReadReset
      <4> QED
        BY <4>5
    <3>2. CASE ReadResponse
      BY <3>2 DEF ReadResponse
    <3> QED
      BY <1>4, <3>1, <3>2
  <2>3. SameStreams(inner, i)
    BY <1>1, <2>2 DEF SameStreams, Inners
  <2> QED
    BY <1>2, <2>1, <2>2, <2>3, ReadOnTrusts
<1>5. CASE ReadPing \/ ReadUnknownPong \/ ReadSettings
  <2>1. PICK kind \in {"ping", "pong", "settings"} : Receives(kind)
    BY <1>5 DEF ReadPing, ReadUnknownPong, ReadSettings
  <2>2. PICK c : ReadOn(c, inner) /\ c.reason = conn.reason /\ c.local = conn.local
    BY <1>1, <1>5 DEF ReadPing, ReadUnknownPong, ReadSettings, Connections
  <2> QED
    BY <1>2, <1>3, <2>1, <2>2, ReadOnTrusts
<1>6. CASE ReadSettingsAck
  <2> DEFINE c == [conn EXCEPT !.local = "synced"]
  <2>1. Receives("ack")
    BY <1>6 DEF ReadSettingsAck
  <2>2. conn.local = "waitingAck"
    BY <2>1, Welcome
  <2>3. ReadOn(c, inner)
    BY <1>6, <2>2 DEF ReadSettingsAck
  <2>4. c.reason = conn.reason
    BY <1>1 DEF Connections
  <2> HIDE DEF c
  <2> QED
    BY <1>2, <1>3, <2>1, <2>3, <2>4, ReadOnTrusts
<1> QED
  BY <1>4, <1>5, <1>6

\* Frames after which the connection is another one.
LEMMA ReadEndTrusts ==
  ASSUME Honest, IInv', ReadShutdownPong \/ ReadUserPong \/ ReadEof \/ ReadBroken
  PROVE  Trusts'
<1>1. /\ conn \in Connections /\ inner \in Inners /\ goAway \in GoAways
      /\ Blameless(conn, goAway, exec)
      /\ inner.maxId \in Nat /\ inner.last \in Nat /\ inner.last <= inner.maxId
  BY Honestly, GoAwayAssumption DEF Inners, Honest, IInv, Announced
<1>2. PICK kind \in {"pong", "eof", "broken"} : Receives(kind)
  BY DEF ReadShutdownPong, ReadUserPong, ReadEof, ReadBroken
<1>3. Consume /\ UNCHANGED <<scene, codec, peer>>
  BY DEF ReadShutdownPong, ReadUserPong, ReadEof, ReadBroken, Rest
<1>4. conn'.local = conn.local /\ conn'.reason \in {conn.reason, "no_error"}
  BY <1>1 DEF ReadShutdownPong, ReadUserPong, ReadEof, ReadBroken, Closing, Connections
<1>5. /\ inner'.maxId <= inner.maxId /\ inner'.sender = inner.sender
      /\ inner'.sendMaxId = inner.sendMaxId /\ inner'.next = inner.next
  <2>1. CASE ReadShutdownPong
    BY <1>1, <2>1 DEF ReadShutdownPong, Inners
  <2>2. CASE ReadUserPong
    BY <1>1, <2>2 DEF ReadUserPong
  <2>3. CASE ReadEof \/ ReadBroken
    <3>1. inner' = FailAll(inner)
      BY <2>3 DEF ReadEof, ReadBroken
    <3> QED
      BY <1>1, <3>1, FailAllSame DEF SameStreams
  <2> QED
    BY <2>1, <2>2, <2>3
<1>6. exec'.result /= "protocol"
  <2>1. CASE ReadBroken
    <3>1. exec' = exec \/ exec' = [exec EXCEPT !.result = "io"]
      BY <2>1 DEF ReadBroken
    <3> QED
      BY <1>1, <3>1, ExecutorEnds DEF Honest, Blameless
  <2>2. CASE ~ReadBroken
    <3>1. exec' = exec
      BY <2>2 DEF ReadShutdownPong, ReadUserPong, ReadEof, Rest
    <3> QED
      BY <1>1, <3>1 DEF Blameless
  <2> QED
    BY <2>1, <2>2
<1>7. \A f \in goAway'.going : f.reason /= "protocol"
  <2>1. CASE ReadShutdownPong
    <3> DEFINE f == GoAwayFrame(inner, "no_error")
    <3>1. f \in GoAwayFrames /\ f.reason = "no_error"
      BY <1>1, FrameTyped, GoAwayAssumption DEF GoAwayFrame
    <3>2. goAway' = SetGoAway(goAway, f)
      BY <2>1 DEF ReadShutdownPong
    <3> HIDE DEF f
    <3>3. goAway'.going = {f}
      BY <1>1, <3>1, <3>2, SetGoAwaySets
    <3> QED
      BY <3>1, <3>3
  <2>2. CASE ~ReadShutdownPong
    <3>1. goAway' = goAway
      BY <2>2 DEF ReadUserPong, ReadEof, ReadBroken
    <3> QED
      BY <1>1, <3>1 DEF Blameless
  <2> QED
    BY <2>1, <2>2
<1>8. Blameless(conn', goAway', exec')
  BY <1>1, <1>4, <1>6, <1>7 DEF Blameless
<1> QED
  BY <1>2, <1>3, <1>4, <1>5, <1>8, ReadTrusts

LEMMA ReadTrustsAlways == ASSUME Honest, IInv', Read, ~ReadNothing PROVE Trusts'
<1>1. ~ReadBad
  BY Welcome DEF ReadBad
<1> QED
  BY <1>1, ReadHeadersTrusts, ReadGoAwayTrusts, ReadsTrust, ReadEndTrusts DEF Read

----------------------------------------------------------------------------
(* The invariant.                                                          *)

LEMMA HonestStep ==
  ASSUME Honest, IInv', [Next]_vars, ~peer'.broke
  PROVE  Trusts'
<1>1. peer' \in Peers /\ peer \in Peers
  BY DEF Honest, IInv, Types
<1>2. ~BadPreface /\ ~PeerBreaksRules
  BY <1>1 DEF BadPreface, PeerBreaksRules, Peers
<1>3. CASE Task
  <2>1. exec'.result = exec.result \/ Resulting
    BY <1>3, TaskExecutes DEF Honest
  <2>2. CASE Resulting
    BY <1>2, <2>2, FinishTrusts, ReadEndTrusts DEF Resulting
  <2>3. CASE ~Resulting
    <3>1. exec'.result = exec.result
      BY <2>1, <2>3
    <3>2. CASE Read /\ ~ReadNothing
      BY <3>2, ReadTrustsAlways
    <3>3. CASE Duties
      BY <3>1, <3>3, WritesTrust, MovesTrust, RefusalTrusts DEF Duties
    <3>4. CASE Complete
      BY <3>1, <3>4, WritesTrust, MovesTrust, FlushTrusts DEF Complete
    <3>5. CASE \/ Handshake \/ ReadPreface \/ StartPoll \/ CheckReferences \/ MakeRoom
               \/ ReadNothing \/ WakePong \/ Shutdown \/ WakeOnDrop
      BY <3>1, <3>5, MovesTrust, FlushTrusts
    <3> QED
      BY <1>2, <1>3, <2>3, <3>2, <3>3, <3>4, <3>5 DEF Task, Resulting
  <2> QED
    BY <2>2, <2>3
<1>4. CASE Handles \/ Calls \/ Pinger
  BY <1>4, HandlesTrust, CallsTrust, PingerTrusts
<1>5. CASE Peer
  BY <1>1, <1>2, <1>5, PeerTrusts
<1>6. CASE UNCHANGED vars
  <2>1. Blameless(conn', goAway', exec')
    BY <1>6 DEF vars, Honest, Trusts
  <2> QED
    BY <1>6, <2>1, TrustApart DEF vars, Pipe
<1> QED
  BY <1>3, <1>4, <1>5, <1>6 DEF Next

\* A peer that has broken a rule has broken it for good.
LEMMA BrokenStays ==
  ASSUME peer \in Peers, Next, peer.broke
  PROVE  peer'.broke
<1>1. CASE Peer
  <2>1. \/ PeerReads \/ PeerOpens \/ PeerPings \/ PeerBreaksRules
        \/ \E id \in Ids : PeerAnswers(id)
        \/ \E id \in Ids : PeerResets(id)
        \/ \E limit \in Limits : PeerChangesSettings(limit)
        \/ \E id \in 0 .. MaxId, reason \in scene.reasons : PeerGoesAway(id, reason)
        \/ \E kind \in {"eof", "broken"} : PeerCloses(kind)
    BY <1>1 DEF Peer
  <2>2. \A id : PeerAnswers(id) \/ PeerResets(id) => peer'.broke
    BY DEF PeerAnswers, PeerResets, Peers
  <2>3. \A limit : PeerChangesSettings(limit) => peer'.broke
    BY DEF PeerChangesSettings, Peers
  <2>4. \A id, reason : PeerGoesAway(id, reason) => peer'.broke
    BY DEF PeerGoesAway, Peers
  <2>5. \A kind : PeerCloses(kind) => peer'.broke
    BY DEF PeerCloses, Peers
  <2>6. PeerOpens \/ PeerPings \/ PeerBreaksRules => peer'.broke
    BY DEF PeerOpens, PeerPings, PeerBreaksRules, Peers
  <2>7. PeerReads => peer'.broke
    <3>1. PeerReads => \E acked, opened : peer' = [peer EXCEPT !.acked = acked, !.opened = opened]
      BY DEF PeerReads
    <3> QED
      BY <3>1 DEF Peers
  <2> QED
    BY <2>1, <2>2, <2>3, <2>4, <2>5, <2>6, <2>7
<1>2. CASE BadPreface
  BY <1>2 DEF BadPreface, Peers
<1>3. CASE Handles \/ Calls \/ Pinger
  <2>1. peer' = peer
    BY <1>3 DEF Handles, FinishStream, DropHandle, SendRequest, DropSendRequest, Others,
       Calls, GracefulShutdown, SetInitialWindowSize, AbruptShutdown,
       Pinger, SendPing, WakeForPing, RegisterForPong, CheckPong, OnlyPinger
  <2> QED
    BY <2>1
<1>4. CASE Task /\ ~BadPreface
  <2>1. CASE Read
    BY <2>1 DEF Read, ReadNothing, ReadHeaders, ReadReset, ReadResponse, ReadPing,
       ReadShutdownPong, ReadUserPong, ReadUnknownPong, ReadSettings, ReadSettingsAck,
       ReadGoAway, ReadBad, ReadEof, ReadBroken, Rest, Idle
  <2>2. CASE Duties \/ Complete
    BY <2>2 DEF Duties, SendGoAway, CloseAfterGoAway, SendPong, SendShutdownPing,
       SendUserPing, NoUserPing, RegisterPing, SendSettingsAck, SendLocalSettings, SendRefusal,
       Complete, WriteLastFrame, OpenStream, AllBuffered, FlushAll, CheckIdle, ParkClient,
       ParkServer, Idle
  <2>3. CASE \/ Handshake \/ ReadPreface \/ StartPoll \/ CheckReferences \/ MakeRoom
             \/ WakePong \/ Shutdown \/ Finish \/ WakeOnDrop
    BY <2>3 DEF Handshake, ReadPreface, StartPoll, CheckReferences, MakeRoom, WakePong,
       Shutdown, Finish, WakeOnDrop, Idle
  <2> QED
    BY <1>4, <2>1, <2>2, <2>3 DEF Task
<1> QED
  BY <1>1, <1>2, <1>3, <1>4 DEF Next

LEMMA StepTrusts == AInv /\ [Next]_vars => AInv'
<1> SUFFICES ASSUME AInv, [Next]_vars PROVE AInv'
  OBVIOUS
<1>1. IInv' /\ IInv
  BY StepKeeps DEF AInv
<1>2. Executing(exec') /\ LocalDuty'
  <2>1. CASE UNCHANGED vars
    BY <2>1 DEF AInv, vars, LocalDuty
  <2>2. CASE Next
    BY <1>1, <2>2, TaskExecutes, OthersExecute, TaskIsDue, OthersAreDue DEF AInv, Next
  <2> QED
    BY <2>1, <2>2
<1>3. ASSUME ~peer'.broke PROVE Trusts'
  <2>1. ~peer.broke
    <3>1. CASE UNCHANGED vars
      BY <1>3, <3>1 DEF vars
    <3>2. CASE Next
      BY <1>1, <1>3, <3>2, BrokenStays DEF IInv, Types
    <3> QED
      BY <3>1, <3>2
  <2>2. Honest
    BY <2>1 DEF AInv, Honest
  <2> QED
    BY <1>1, <1>3, <2>2, HonestStep
<1> QED
  BY <1>1, <1>2, <1>3 DEF AInv

LEMMA InitiallyTrusts == Init => AInv
<1> SUFFICES ASSUME Init PROVE AInv
  OBVIOUS
<1>1. IInv
  BY Initially
<1>2. Executing(exec) /\ LocalDuty
  BY DEF Init, Executing, LocalDuty
<1>3. /\ conn.reason = "no_error" /\ conn.local = "waitingAck"
      /\ goAway.going = {} /\ exec.result = "none"
  BY DEF Init, NewConnection, NewGoAway
<1>4. Blameless(conn, goAway, exec)
  BY <1>3 DEF Blameless
<1> DEFINE first == [kind |-> "settings", arg |-> scene.limit, epoch |-> 0]
<1>5. net.in = <<first>> /\ first.kind = "settings"
  BY DEF Init
<1>6. Pipe = <<Out("settings", 0)>>
  BY DEF Init, Pipe
<1> HIDE DEF first
<1>7. /\ Len(net.in) = 1 /\ Len(Pipe) = 1 /\ \A k \in 1 .. Len(net.in) : net.in[k].kind = "settings"
  BY <1>5, <1>6
<1>8. Asked(conn.local, Pipe, net.in)
  BY <1>3, <1>7 DEF Asked
<1>9. /\ inner.maxId = MaxId /\ inner.sendMaxId = MaxId /\ inner.next = 1
      /\ inner.sender = (role = "client")
      /\ peer.next = 1 /\ peer.mine = MaxId
  BY DEF Init, NewInner, role
<1>10. Falling(net.in, inner.sendMaxId, peer.mine)
  BY <1>7, <1>9, GoAwayAssumption DEF Falling
<1>11. Streamed(net.in, inner.next, inner.maxId, peer.next)
  BY <1>7, <1>9 DEF Streamed
<1>12. Polite(net.in, inner, peer)
  BY <1>7, <1>9, <1>10, <1>11 DEF Polite
<1> QED
  BY <1>1, <1>2, <1>4, <1>8, <1>12 DEF AInv, Trusts

\* A peer that keeps the protocol is never answered by PROTOCOL_ERROR, nor the
\* user told of one: whatever crosses a GOAWAY, a refusal or SETTINGS of ours,
\* what this endpoint remembers of identifiers and settings agrees with what
\* the peer may still send (streams.rs, recv.rs, settings.rs, go_away.rs).
THEOREM PoliteNeverAccused == Spec => []NeverAccused
<1>1. AInv => NeverAccused
  BY DEF AInv, Trusts, Blameless, NeverAccused
<1> QED
  BY <1>1, InitiallyTrusts, StepTrusts, PTL DEF Spec

==============================================================================
