---------------------------- MODULE RecvFlowPeer ----------------------------
(***************************************************************************)
(* RecvFlow composed with a peer that keeps to the rules, over two FIFO    *)
(* byte streams.  The peer counts its own windows: it debits them when it  *)
(* sends DATA, credits them when a WINDOW_UPDATE arrives and shifts them   *)
(* when SETTINGS_INITIAL_WINDOW_SIZE arrives, which is at another moment   *)
(* than this endpoint, which waits for the acknowledgement.  The question  *)
(* is whether the two accounts can ever disagree: whether such a peer can  *)
(* be accused of a flow-control error, and whether it always gets to send. *)
(***************************************************************************)
EXTENDS RecvFlow, Sequences, Sums

CONSTANTS
  Requests,  \* the streams this endpoint opens; the peer opens the others
  MaxWire    \* bound of the model: frames under way in one direction

ASSUME PeerAssumption ==
  /\ Requests \subseteq Streams
  /\ Promised = {}
  /\ MaxWire \in Nat \ {0}

VARIABLES
  toPeer,           \* frames from this endpoint, oldest first
  fromPeer,         \* frames to this endpoint
  pendingSettings,  \* settings.rs: {} synced, {v} sent and unacknowledged
  peer              \* the peer's own account

wires == <<toPeer, fromPeer>>
allVars == <<vars, wires, pendingSettings, peer>>

Frame(type, s, sz) == [type |-> type, stream |-> s, sz |-> sz]
DataFrame(s, payload, padding, eos) ==
  [type |-> "data", stream |-> s, sz |-> payload + padding, payload |-> payload,
   padding |-> padding, eos |-> eos]

PeerInit ==
  /\ Init
  /\ toPeer = <<>>
  /\ fromPeer = <<>>
  /\ pendingSettings = {}
  /\ peer = [conn |-> DefaultWindow, init |-> DefaultWindow,
             stream |-> [s \in Streams |-> 0],
             state |-> [s \in Streams |-> "none"]]

Room(wire) == Len(wire) < MaxWire

----------------------------------------------------------------------------
(* This endpoint writes.                                                   *)

WriteConnectionWindowUpdate ==
  /\ Room(toPeer)
  /\ SendConnectionWindowUpdate
  /\ toPeer' = Append(toPeer, [type |-> "connUpdate", sz |-> Unclaimed(conn.flow)])
  /\ UNCHANGED <<fromPeer, pendingSettings, peer>>

WriteStreamWindowUpdate(s) ==
  /\ Room(toPeer)
  /\ SendStreamWindowUpdate(s)
  /\ LET inc == StreamIncrement(streams[s])
     IN  toPeer' = IF inc = 0 THEN toPeer
                              ELSE Append(toPeer, Frame("streamUpdate", s, inc))
  /\ UNCHANGED <<fromPeer, pendingSettings, peer>>

\* Settings::send_settings, then poll_send: one change may await its
\* acknowledgement at a time.
WriteSettings(sz) ==
  /\ ~connErr /\ Room(toPeer)
  /\ pendingSettings = {} /\ sz # initWindowSz
  /\ pendingSettings' = {sz}
  /\ toPeer' = Append(toPeer, [type |-> "settings", sz |-> sz])
  /\ UNCHANGED <<vars, fromPeer, peer>>

\* send_request puts the stream in the store; its HEADERS follow later.
Request(s) ==
  /\ s \in Requests
  /\ OpenStream(s)
  /\ streams'[s].handle = "held"
  /\ UNCHANGED <<wires, pendingSettings, peer>>

WriteRequestHeaders(s) ==
  /\ ~connErr /\ Room(toPeer)
  /\ s \in Requests /\ streams[s].state = "awaiting"
  /\ peer.state[s] = "none"
  /\ \A i \in DOMAIN toPeer : toPeer[i].type = "headers" => toPeer[i].stream # s
  /\ toPeer' = Append(toPeer, Frame("headers", s, 0))
  /\ UNCHANGED <<vars, fromPeer, pendingSettings, peer>>

----------------------------------------------------------------------------
(* This endpoint reads: Connection::recv_frame.                            *)

ReadData(f) ==
  \/ RecvDataUnexpected(f.stream)
  \/ RecvDataOverConnWindow(f.stream, f.sz)
  \/ RecvDataIgnored(f.stream, f.sz)
  \/ RecvDataForgotten(f.stream, f.sz)
  \/ WindowSize(streams[f.stream].flow) < f.sz /\ RecvDataStreamError(f.stream, f.sz)
  \/ RecvDataUncared(f.stream, f.sz, f.eos)
  \/ RecvDataAccepted(f.stream, f.payload, f.padding, f.eos)

\* HEADERS open the peer's stream, or answer a request that is still wanted.
ReadHeaders(s) ==
  IF s \in Requests
    THEN IF streams[s].state = "awaiting"
           THEN RecvHeaders(s) /\ streams'[s].state = "streaming"
           ELSE ~connErr /\ UNCHANGED vars
    ELSE OpenStream(s) /\ streams'[s].handle = "waiting"

ReadReset(s) ==
  IF s \in Stored THEN RecvReset(s) ELSE ~connErr /\ UNCHANGED vars

\* The acknowledgement applies the settings it is for.
ReadAck == \E sz \in pendingSettings : ApplyLocalSettings(sz)

Read ==
  /\ fromPeer # <<>>
  /\ fromPeer' = Tail(fromPeer)
  /\ LET f == Head(fromPeer)
     IN  \/ f.type = "data" /\ ReadData(f) /\ UNCHANGED pendingSettings
         \/ f.type = "headers" /\ ReadHeaders(f.stream) /\ UNCHANGED pendingSettings
         \/ f.type = "reset" /\ ReadReset(f.stream) /\ UNCHANGED pendingSettings
         \/ f.type = "ack" /\ ReadAck /\ pendingSettings' = {}
  /\ UNCHANGED <<toPeer, peer>>

----------------------------------------------------------------------------
(* The peer: RFC 9113, sections 6.5 and 6.9.                               *)

PeerOpens(s) ==
  /\ Room(fromPeer)
  /\ s \notin Requests /\ peer.state[s] = "none"
  /\ peer' = [peer EXCEPT !.stream[s] = peer.init, !.state[s] = "open"]
  /\ fromPeer' = Append(fromPeer, Frame("headers", s, 0))
  /\ UNCHANGED <<vars, toPeer, pendingSettings>>

PeerSends(s, payload, padding, eos) ==
  LET sz == payload + padding
  IN  /\ Room(fromPeer)
      /\ peer.state[s] = "open"
      /\ sz > 0 \/ eos
      /\ sz <= peer.conn /\ sz <= AsSize(peer.stream[s])
      /\ peer' = [peer EXCEPT !.conn = @ - sz, !.stream[s] = @ - sz,
                              !.state[s] = IF eos THEN "done" ELSE @]
      /\ fromPeer' = Append(fromPeer, DataFrame(s, payload, padding, eos))
      /\ UNCHANGED <<vars, toPeer, pendingSettings>>

PeerResets(s) ==
  /\ Room(fromPeer)
  /\ peer.state[s] = "open"
  /\ peer' = [peer EXCEPT !.state[s] = "done"]
  /\ fromPeer' = Append(fromPeer, Frame("reset", s, 0))
  /\ UNCHANGED <<vars, toPeer, pendingSettings>>

\* The peer's answer and its new account, for the oldest frame under way.
PeerReads ==
  /\ toPeer # <<>> /\ Room(fromPeer)
  /\ toPeer' = Tail(toPeer)
  /\ LET f == Head(toPeer)
     IN  \/ /\ f.type = "connUpdate"
            /\ peer' = [peer EXCEPT !.conn = @ + f.sz]
            /\ UNCHANGED fromPeer
         \/ /\ f.type = "streamUpdate"
            /\ peer' = [peer EXCEPT !.stream[f.stream] = @ + f.sz]
            /\ UNCHANGED fromPeer
         \/ /\ f.type = "headers"
            /\ peer' = [peer EXCEPT !.stream[f.stream] = peer.init,
                                    !.state[f.stream] = "open"]
            /\ fromPeer' = Append(fromPeer, Frame("headers", f.stream, 0))
         \/ /\ f.type = "settings"
            /\ peer' = [peer EXCEPT !.init = f.sz,
                          !.stream = [s \in Streams |->
                             IF peer.state[s] = "none" THEN 0
                             ELSE @[s] + f.sz - peer.init]]
            /\ fromPeer' = Append(fromPeer, [type |-> "ack"])
  /\ UNCHANGED <<vars, pendingSettings>>

----------------------------------------------------------------------------
Local(s) ==
  /\ \/ SendSideCloses(s) \/ RemoveFromStore(s) \/ User(s)
  /\ UNCHANGED <<wires, pendingSettings, peer>>

Retarget ==
  /\ \E sz \in Targets : SetTargetConnectionWindow(sz)
  /\ UNCHANGED <<wires, pendingSettings, peer>>

PeerNext ==
  \/ \E s \in Streams :
       \/ Local(s) \/ Request(s) \/ WriteRequestHeaders(s)
       \/ WriteStreamWindowUpdate(s)
       \/ PeerOpens(s) \/ PeerResets(s)
       \/ \E sz \in 0 .. MaxFrame, eos \in BOOLEAN :
            \E padding \in 0 .. sz : PeerSends(s, sz - padding, padding, eos)
  \/ \E sz \in InitWindows : WriteSettings(sz)
  \/ Retarget \/ WriteConnectionWindowUpdate \/ Read \/ PeerReads

\* The connection task is polled until it has nothing left to write or read,
\* the network delivers, and the application accepts its streams, reads their
\* bodies and releases what it was given.  The peer need not send anything.
Consumes(s) ==
  /\ \/ Accept(s)
     \/ PollData(s, streams[s].buffered)
     \/ ReleaseCapacity(s, streams[s].inFlight)
  /\ UNCHANGED <<wires, pendingSettings, peer>>

Fairness ==
  /\ WF_allVars(Read) /\ WF_allVars(PeerReads)
  /\ WF_allVars(WriteConnectionWindowUpdate)
  /\ \A s \in Streams :
       WF_allVars(WriteStreamWindowUpdate(s)) /\ WF_allVars(Consumes(s))

PeerSpec == PeerInit /\ [][PeerNext]_allVars /\ Fairness

----------------------------------------------------------------------------
(* Properties.                                                             *)

\* The octets that the frames of one type on a wire are about.
FrameOctets(wire, type) ==
  [i \in DOMAIN wire |-> IF wire[i].type = type THEN wire[i].sz ELSE 0]

Octets(wire, type) == Total(FrameOctets(wire, type), Len(wire))

\* A peer that respects the windows it was told is never accused: the DATA it
\* sent is covered by the connection's window and by the stream's when it is
\* read, whatever settings, targets and resets happened in between.
NeverAccused ==
  fromPeer # <<>> /\ Head(fromPeer).type = "data" /\ ~connErr =>
    LET f == Head(fromPeer)
    IN  /\ WindowSize(conn.flow) >= f.sz
        /\ streams[f.stream].state = "streaming" =>
             WindowSize(streams[f.stream].flow) >= f.sz

\* "Window the peer knows about": the connection's window is the peer's own,
\* up to what is under way.
ConnectionWindowsAgree ==
  connErr \/ conn.flow.window =
               peer.conn + Octets(fromPeer, "data") + Octets(toPeer, "connUpdate")

\* Window updates keep the peer below the largest window HTTP/2 allows, also
\* when the initial window was raised meanwhile: no update overflows it.
PeerWindowsFit ==
  /\ peer.conn + Octets(toPeer, "connUpdate") <= MaxWindow
  /\ \A s \in Streams : peer.stream[s] <= MaxWindow

\* The peer has no room left on a stream that somebody is reading.
Starved(s) ==
  /\ streams[s].state = "streaming" /\ streams[s].handle = "held"
  /\ streams[s].isRecv /\ ~connErr
  /\ peer.state[s] = "open" /\ peer.stream[s] <= 0
  /\ initWindowSz > 0

\* A stream whose data is released gets room again: "This will then increment
\* the window size again, allowing the peer to send more data."  Batching
\* window updates keeps this promise while the initial window is left alone;
\* lowering it can leave released octets unadvertised for good.
ReleaseLetsPeerSend == \A s \in Streams : Starved(s) ~> ~Starved(s)

\* The same for the connection: with everything released, a peer that used up
\* the connection's window gets more of it.
ConnStarved == ~connErr /\ peer.conn = 0 /\ target > 0

ConnectionReopens == ConnStarved ~> ~ConnStarved

=============================================================================
