---------------------------- MODULE StreamState ----------------------------
(***************************************************************************)
(* The state of one stream: proto/streams/state.rs.                        *)
(*                                                                         *)
(* A stream has a local and a remote half, each waiting for HEADERS or     *)
(* streaming, until it is closed for a cause.  The module is pure: each    *)
(* operation maps a state to a state and comes with the condition under    *)
(* which the code returns Ok; a refused operation leaves the state alone.  *)
(*                                                                         *)
(* A state runs ahead of the wire: the local half closes when END_STREAM   *)
(* is queued, not when it is written, which is what "queued" in RecvReset  *)
(* and the send queue of SendFlow are about.                               *)
(***************************************************************************)
EXTENDS Naturals

AwaitingHeaders == "AwaitingHeaders"
Streaming == "Streaming"
Half == {AwaitingHeaders, Streaming}

\* The errors a cause carries, named for variant and initiator (error.rs).
\* The initiators User and Library are both local and nothing here tells
\* them apart.
LocalErrors == {"LocalReset", "LocalGoAway", "Io"}
RemoteErrors == {"RemoteReset", "RemoteGoAway"}
Errors == LocalErrors \cup RemoteErrors

Reasons == {"NO_ERROR", "CANCEL", "PROTOCOL_ERROR"}

EndStream == [cause |-> "EndStream"]
Error(e) == [cause |-> "Error", error |-> e]
ErrorAfterEndStream(e) == [cause |-> "ErrorAfterEndStream", error |-> e]
ScheduledLibraryReset(r) == [cause |-> "ScheduledLibraryReset", reason |-> r]

Causes ==
  {EndStream} \cup {Error(e) : e \in Errors}
              \cup {ErrorAfterEndStream(e) : e \in Errors}
              \cup {ScheduledLibraryReset(r) : r \in Reasons}

Idle == [kind |-> "Idle"]
ReservedLocal == [kind |-> "ReservedLocal"]
ReservedRemote == [kind |-> "ReservedRemote"]
Open(l, r) == [kind |-> "Open", local |-> l, remote |-> r]
HalfClosedLocal(r) == [kind |-> "HalfClosedLocal", remote |-> r]
HalfClosedRemote(l) == [kind |-> "HalfClosedRemote", local |-> l]
Closed(c) == [kind |-> "Closed", by |-> c]

States ==
  {Idle, ReservedLocal, ReservedRemote}
    \cup {Open(l, r) : l \in Half, r \in Half}
    \cup {HalfClosedLocal(r) : r \in Half}
    \cup {HalfClosedRemote(l) : l \in Half}
    \cup {Closed(c) : c \in Causes}

----------------------------------------------------------------------------
(* What the rest of the library asks of a state.                           *)

HasLocal(st) == st.kind \in {"Open", "HalfClosedRemote"}
HasRemote(st) == st.kind \in {"Open", "HalfClosedLocal"}

IsClosed(st) == st.kind = "Closed"
IsSendStreaming(st) == HasLocal(st) /\ st.local = Streaming
IsRecvStreaming(st) == HasRemote(st) /\ st.remote = Streaming
IsRecvHeaders(st) ==
  st \in {Idle, ReservedRemote} \/ (HasRemote(st) /\ st.remote = AwaitingHeaders)
IsSendClosed(st) == st.kind \in {"Closed", "HalfClosedLocal", "ReservedRemote"}

ClosedBy(st, why) == IsClosed(st) /\ st.by.cause \in why

IsRecvEndStream(st) ==
  st.kind = "HalfClosedRemote" \/ ClosedBy(st, {"EndStream", "ErrorAfterEndStream"})
IsScheduledReset(st) == ClosedBy(st, {"ScheduledLibraryReset"})
IsReset(st) == IsClosed(st) /\ st.by # EndStream
ClosedByError(st, errs) ==
  ClosedBy(st, {"Error", "ErrorAfterEndStream"}) /\ st.by.error \in errs
IsLocalError(st) == IsScheduledReset(st) \/ ClosedByError(st, LocalErrors)
IsRemoteReset(st) == ClosedByError(st, {"RemoteReset"})

----------------------------------------------------------------------------
(* Transitions.                                                            *)

CanSendOpen(st) ==
  st \in {Idle, ReservedLocal} \/ (HasLocal(st) /\ st.local = AwaitingHeaders)

SendOpen(st, eos) ==
  IF ~CanSendOpen(st) THEN st
  ELSE CASE st = Idle -> IF eos THEN HalfClosedLocal(AwaitingHeaders)
                                ELSE Open(Streaming, AwaitingHeaders)
         [] st.kind = "Open" -> IF eos THEN HalfClosedLocal(st.remote)
                                       ELSE Open(Streaming, st.remote)
         [] OTHER -> IF eos THEN Closed(EndStream) ELSE HalfClosedRemote(Streaming)

\* recv_open; an informational (1xx) head leaves the remote half waiting.
CanRecvOpen(st) == IsRecvHeaders(st)

RecvOpen(st, eos, informational) ==
  LET remote == IF informational THEN AwaitingHeaders ELSE Streaming
  IN  IF ~CanRecvOpen(st) THEN st
      ELSE CASE st = Idle -> IF eos THEN HalfClosedRemote(AwaitingHeaders)
                                    ELSE Open(AwaitingHeaders, remote)
             [] st.kind = "Open" -> IF eos THEN HalfClosedRemote(st.local)
                                           ELSE Open(st.local, remote)
             [] st = ReservedRemote /\ informational /\ ~eos -> st
             [] OTHER -> IF eos THEN Closed(EndStream) ELSE HalfClosedLocal(remote)

ReserveRemote(st) == IF st = Idle THEN ReservedRemote ELSE st
ReserveLocal(st) == IF st = Idle THEN ReservedLocal ELSE st

\* END_STREAM from the peer.
CanRecvClose(st) == HasRemote(st)

RecvClose(st) ==
  CASE st.kind = "Open" -> HalfClosedRemote(st.local)
    [] st.kind = "HalfClosedLocal" -> Closed(EndStream)
    [] OTHER -> st

\* END_STREAM queued by the user; the code panics in any other state.
CanSendClose(st) == HasLocal(st)

SendClose(st) ==
  CASE st.kind = "Open" -> HalfClosedLocal(st.remote)
    [] st.kind = "HalfClosedRemote" -> Closed(EndStream)
    [] OTHER -> st

\* An END_STREAM already received is remembered beside the error.
CloseWith(st, e) ==
  Closed(IF IsRecvEndStream(st) THEN ErrorAfterEndStream(e) ELSE Error(e))

\* RST_STREAM from the peer.  A closed stream that waits in the send queue
\* has not told the peer of its end yet, and the peer's reset wins.
RecvReset(st, queued) ==
  IF IsClosed(st) /\ ~queued THEN st ELSE CloseWith(st, "RemoteReset")

\* A connection-level error, and the end of the connection (recv_eof).
HandleError(st, e) == IF IsClosed(st) THEN st ELSE CloseWith(st, e)

SetReset(e) == Closed(Error(e))
SetScheduledReset(r) == Closed(ScheduledLibraryReset(r))

============================================================================
