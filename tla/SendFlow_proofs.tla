-------------------------- MODULE SendFlow_proofs --------------------------
(***************************************************************************)
(* Theorems about SendFlow, for any number of streams and any windows,     *)
(* sizes and limits.                                                       *)
(***************************************************************************)
EXTENDS SendFlow, Recursion_proofs, FiniteSetTheorems

----------------------------------------------------------------------------
(* The state of a stream.                                                  *)

\* What every transition keeps: a closed stream stays closed, a closed
\* sending half stays closed, and nothing reopens the way to HEADERS.
Ensues(st, st2) ==
  /\ st2 \in States
  /\ IsClosed(st) => IsClosed(st2)
  /\ IsSendClosed(st) => IsSendClosed(st2)
  /\ CanSendOpen(st2) => CanSendOpen(st)

\* What of a state decides whether DATA that is still queued is discarded.
Discards(st) == IsScheduledReset(st) /\ st.by.reason # "NO_ERROR"

\* A transition of the receiving half.
Receiving(st, st2) ==
  /\ Ensues(st, st2)
  /\ IsSendClosed(st2) => IsSendClosed(st)
  /\ Discards(st) => Discards(st2)

LEMMA StateKinds ==
  ASSUME NEW st \in States
  PROVE  /\ IsClosed(st) => IsSendClosed(st)
         /\ IsClosed(st) => st.by \in Causes
         /\ Discards(st) => IsScheduledReset(st)
         /\ IsScheduledReset(st) => IsClosed(st)
         /\ CanSendOpen(st) => ~IsSendClosed(st)
         /\ IsSendStreaming(st) => ~IsSendClosed(st) /\ ~CanSendOpen(st)
  BY DEF States, Causes, Half, AwaitingHeaders, Streaming, EndStream, Error, ErrorAfterEndStream,
         ScheduledLibraryReset, Idle, ReservedLocal, ReservedRemote, Open,
         HalfClosedLocal, HalfClosedRemote, Closed, IsClosed, IsSendClosed,
         IsScheduledReset, ClosedBy, Discards, CanSendOpen, HasLocal, IsSendStreaming

LEMMA ResetStates ==
  ASSUME NEW e \in Errors, NEW r \in Reasons
  PROVE  /\ SetReset(e) \in States /\ IsClosed(SetReset(e)) /\ IsSendClosed(SetReset(e))
         /\ ~CanSendOpen(SetReset(e)) /\ ~IsScheduledReset(SetReset(e))
         /\ SetScheduledReset(r) \in States /\ IsClosed(SetScheduledReset(r))
         /\ IsSendClosed(SetScheduledReset(r)) /\ ~CanSendOpen(SetScheduledReset(r))
         /\ Discards(SetScheduledReset(r)) <=> r # "NO_ERROR"
  BY DEF States, Causes, Half, AwaitingHeaders, Streaming, EndStream, Error, ErrorAfterEndStream,
         ScheduledLibraryReset, Idle, ReservedLocal, ReservedRemote, Open,
         HalfClosedLocal, HalfClosedRemote, Closed, IsClosed, IsSendClosed,
         IsScheduledReset, ClosedBy, Discards, CanSendOpen, HasLocal, IsSendStreaming,
         SetReset, SetScheduledReset

LEMMA SendOpenState ==
  ASSUME NEW st \in States, NEW eos \in BOOLEAN
  PROVE  /\ Ensues(st, SendOpen(st, eos))
         /\ ~CanSendOpen(SendOpen(st, eos))
         /\ CanSendOpen(st) => ~Discards(SendOpen(st, eos))
  BY SMTT(30) DEF States, Causes, Half, AwaitingHeaders, Streaming, EndStream, Error, ErrorAfterEndStream,
         ScheduledLibraryReset, Idle, ReservedLocal, ReservedRemote, Open,
         HalfClosedLocal, HalfClosedRemote, Closed, IsClosed, IsSendClosed,
         IsScheduledReset, ClosedBy, Discards, CanSendOpen, HasLocal, IsSendStreaming,
         SendOpen, Ensues

LEMMA SendCloseState ==
  ASSUME NEW st \in States
  PROVE  /\ Ensues(st, SendClose(st))
         /\ ~IsSendClosed(st) => ~Discards(SendClose(st))
  BY DEF States, Causes, Half, AwaitingHeaders, Streaming, EndStream, Error, ErrorAfterEndStream,
         ScheduledLibraryReset, Idle, ReservedLocal, ReservedRemote, Open,
         HalfClosedLocal, HalfClosedRemote, Closed, IsClosed, IsSendClosed,
         IsScheduledReset, ClosedBy, Discards, CanSendOpen, HasLocal, IsSendStreaming,
         SendClose, Ensues

LEMMA RecvOpenState ==
  ASSUME NEW st \in States, NEW eos \in BOOLEAN
  PROVE  Receiving(st, RecvOpen(st, eos, FALSE))
  BY DEF States, Causes, Half, AwaitingHeaders, Streaming, EndStream, Error, ErrorAfterEndStream,
         ScheduledLibraryReset, Idle, ReservedLocal, ReservedRemote, Open,
         HalfClosedLocal, HalfClosedRemote, Closed, IsClosed, IsSendClosed,
         IsScheduledReset, ClosedBy, Discards, CanSendOpen, HasLocal, IsSendStreaming,
         HasRemote, RecvOpen, CanRecvOpen, IsRecvHeaders, Receiving, Ensues

LEMMA RecvCloseState ==
  ASSUME NEW st \in States
  PROVE  Receiving(st, RecvClose(st))
  BY SMTT(30) DEF States, Causes, Half, AwaitingHeaders, Streaming, EndStream, Error, ErrorAfterEndStream,
         ScheduledLibraryReset, Idle, ReservedLocal, ReservedRemote, Open,
         HalfClosedLocal, HalfClosedRemote, Closed, IsClosed, IsSendClosed,
         IsScheduledReset, ClosedBy, Discards, CanSendOpen, HasLocal, IsSendStreaming,
         RecvClose, Receiving, Ensues

LEMMA CloseWithState ==
  ASSUME NEW st \in States, NEW e \in Errors
  PROVE  Ensues(st, CloseWith(st, e)) /\ IsClosed(CloseWith(st, e))
  BY DEF States, Causes, Half, AwaitingHeaders, Streaming, EndStream, Error, ErrorAfterEndStream,
         ScheduledLibraryReset, Idle, ReservedLocal, ReservedRemote, Open,
         HalfClosedLocal, HalfClosedRemote, Closed, IsClosed, IsSendClosed,
         CanSendOpen, HasLocal, CloseWith, Ensues

LEMMA HandleErrorState ==
  ASSUME NEW st \in States, NEW e \in Errors
  PROVE  /\ Ensues(st, HandleError(st, e)) /\ IsClosed(HandleError(st, e))
  BY CloseWithState DEF HandleError, Ensues

LEMMA RecvResetState ==
  ASSUME NEW st \in States, NEW queued \in BOOLEAN
  PROVE  Ensues(st, RecvReset(st, queued)) /\ IsClosed(RecvReset(st, queued))
<1>1. "RemoteReset" \in Errors
  BY DEF Errors, RemoteErrors
<1> QED
  BY <1>1, CloseWithState DEF RecvReset, Ensues

----------------------------------------------------------------------------
(* Queues of streams and queues of frames.                                 *)

Distinct(q) == \A k, l \in 1 .. Len(q) : k # l => q[k] # q[l]

LEMMA PushQueue ==
  ASSUME NEW q \in Seq(Streams), NEW s \in Streams
  PROVE  /\ Push(q, s) \in Seq(Streams)
         /\ \A t \in Streams : Contains(Push(q, s), t) <=> Contains(q, t) \/ t = s
         /\ Distinct(q) => Distinct(Push(q, s))
<1>1. CASE Contains(q, s)
  BY <1>1 DEF Push
<1>2. CASE ~Contains(q, s)
  <2>1. Push(q, s) = Append(q, s)
    BY <1>2 DEF Push
  <2> DEFINE p == Append(q, s)
  <2>2. /\ p \in Seq(Streams) /\ Len(p) = Len(q) + 1 /\ Len(q) \in Nat
        /\ \A k \in 1 .. Len(q) : p[k] = q[k]
        /\ p[Len(q) + 1] = s
    OBVIOUS
  <2> HIDE DEF p
  <2>3. \A t \in Streams : Contains(p, t) <=> Contains(q, t) \/ t = s
    <3> SUFFICES ASSUME NEW t \in Streams PROVE Contains(p, t) <=> Contains(q, t) \/ t = s
      OBVIOUS
    <3>1. ASSUME NEW k \in 1 .. Len(p), p[k] = t PROVE Contains(q, t) \/ t = s
      <4>1. k \in 1 .. Len(q) \/ k = Len(q) + 1
        BY <2>2
      <4> QED
        BY <2>2, <3>1, <4>1 DEF Contains
    <3>2. ASSUME NEW k \in 1 .. Len(q), q[k] = t PROVE Contains(p, t)
      <4>1. k \in 1 .. Len(p) /\ p[k] = t
        BY <2>2, <3>2
      <4> QED
        BY <4>1 DEF Contains
    <3>3. Len(q) + 1 \in 1 .. Len(p)
      BY <2>2
    <3> QED
      BY <2>2, <3>1, <3>2, <3>3 DEF Contains
  <2>4. ASSUME Distinct(q) PROVE Distinct(p)
    <3>1. ASSUME NEW k \in 1 .. Len(p), NEW l \in 1 .. Len(p), k # l
          PROVE  p[k] # p[l]
      <4>1. (k \in 1 .. Len(q) \/ k = Len(q) + 1) /\ (l \in 1 .. Len(q) \/ l = Len(q) + 1)
        BY <2>2
      <4>2. \A m \in 1 .. Len(q) : q[m] # s
        BY <1>2 DEF Contains
      <4> QED
        BY <2>2, <2>4, <3>1, <4>1, <4>2 DEF Distinct
    <3> QED
      BY <3>1 DEF Distinct
  <2> QED
    BY <2>1, <2>2, <2>3, <2>4 DEF p
<1> QED
  BY <1>1, <1>2

LEMMA PushFrontQueue ==
  ASSUME NEW q \in Seq(Streams), NEW s \in Streams
  PROVE  /\ PushFront(q, s) \in Seq(Streams)
         /\ \A t \in Streams : Contains(PushFront(q, s), t) <=> Contains(q, t) \/ t = s
<1>1. CASE Contains(q, s)
  BY <1>1 DEF PushFront
<1>2. CASE ~Contains(q, s)
  <2>1. PushFront(q, s) = <<s>> \o q
    BY <1>2 DEF PushFront
  <2> DEFINE p == <<s>> \o q
  <2>2. /\ p \in Seq(Streams) /\ Len(p) = Len(q) + 1 /\ Len(q) \in Nat
        /\ \A k \in 1 .. Len(q) : p[k + 1] = q[k]
        /\ p[1] = s
    OBVIOUS
  <2> HIDE DEF p
  <2>3. \A t \in Streams : Contains(p, t) <=> Contains(q, t) \/ t = s
    <3> SUFFICES ASSUME NEW t \in Streams PROVE Contains(p, t) <=> Contains(q, t) \/ t = s
      OBVIOUS
    <3>1. ASSUME NEW k \in 1 .. Len(p), p[k] = t PROVE Contains(q, t) \/ t = s
      <4>1. k = 1 \/ (k - 1 \in 1 .. Len(q) /\ p[(k - 1) + 1] = q[k - 1] /\ (k - 1) + 1 = k)
        BY <2>2
      <4> QED
        BY <2>2, <3>1, <4>1 DEF Contains
    <3>2. ASSUME NEW k \in 1 .. Len(q), q[k] = t PROVE Contains(p, t)
      <4>1. k + 1 \in 1 .. Len(p) /\ p[k + 1] = t
        BY <2>2, <3>2
      <4> QED
        BY <4>1 DEF Contains
    <3>3. 1 \in 1 .. Len(p)
      BY <2>2
    <3> QED
      BY <2>2, <3>1, <3>2, <3>3 DEF Contains
  <2> QED
    BY <2>1, <2>2, <2>3 DEF p
<1> QED
  BY <1>1, <1>2

LEMMA TailQueue ==
  ASSUME NEW q \in Seq(Streams), q # <<>>
  PROVE  /\ Head(q) \in Streams /\ Contains(q, Head(q))
         /\ Tail(q) \in Seq(Streams) /\ Len(Tail(q)) = Len(q) - 1
         /\ \A t \in Streams : Contains(Tail(q), t) => Contains(q, t)
         /\ \A t \in Streams : Contains(q, t) => t = Head(q) \/ Contains(Tail(q), t)
         /\ Distinct(q) => Distinct(Tail(q)) /\ ~Contains(Tail(q), Head(q))
<1> DEFINE p == Tail(q)
<1>1. /\ p \in Seq(Streams) /\ Len(p) = Len(q) - 1 /\ Len(q) \in Nat \ {0}
      /\ \A k \in 1 .. Len(p) : p[k] = q[k + 1]
      /\ Head(q) = q[1]
  OBVIOUS
<1> HIDE DEF p
<1>2. Head(q) \in Streams /\ Contains(q, Head(q))
  <2>1. 1 \in 1 .. Len(q)
    BY <1>1
  <2> QED
    BY <1>1, <2>1 DEF Contains
<1>3. \A t \in Streams : Contains(p, t) => Contains(q, t)
  <2> SUFFICES ASSUME NEW t \in Streams, NEW k \in 1 .. Len(p), p[k] = t PROVE Contains(q, t)
    BY DEF Contains
  <2>1. k + 1 \in 1 .. Len(q) /\ q[k + 1] = t
    BY <1>1
  <2> QED
    BY <2>1 DEF Contains
<1>4. \A t \in Streams : Contains(q, t) => t = Head(q) \/ Contains(p, t)
  <2> SUFFICES ASSUME NEW t \in Streams, NEW k \in 1 .. Len(q), q[k] = t, t # Head(q)
               PROVE  Contains(p, t)
    BY DEF Contains
  <2>1. k # 1
    BY <1>1
  <2>2. k - 1 \in 1 .. Len(p) /\ (k - 1) + 1 = k
    BY <1>1, <2>1
  <2>3. p[k - 1] = t
    BY <1>1, <2>2
  <2> QED
    BY <2>2, <2>3 DEF Contains
<1>5. ASSUME Distinct(q) PROVE Distinct(p) /\ ~Contains(p, Head(q))
  <2>1. ASSUME NEW k \in 1 .. Len(p), NEW l \in 1 .. Len(p), k # l
        PROVE  p[k] # p[l]
    <3>1. k + 1 \in 1 .. Len(q) /\ l + 1 \in 1 .. Len(q) /\ k + 1 # l + 1
      BY <1>1, <2>1
    <3> QED
      BY <1>1, <1>5, <3>1 DEF Distinct
  <2>2. ASSUME NEW k \in 1 .. Len(p) PROVE p[k] # Head(q)
    <3>1. k + 1 \in 1 .. Len(q) /\ 1 \in 1 .. Len(q) /\ k + 1 # 1
      BY <1>1
    <3> QED
      BY <1>1, <1>5, <3>1 DEF Distinct
  <2> QED
    BY <2>1, <2>2 DEF Distinct, Contains
<1> QED
  BY <1>1, <1>2, <1>3, <1>4, <1>5 DEF p

LEMMA EmptyQueue ==
  /\ <<>> \in Seq(Streams) /\ Len(<<>>) = 0
  /\ \A t : ~Contains(<<>>, t)
  BY DEF Contains

LEMMA OctetsType ==
  ASSUME NEW q \in Seq(Frames)
  PROVE  /\ Octets(q) \in Nat
         /\ q # <<>> => Head(q) \in Frames /\ Head(q).sz <= Octets(q)
         /\ Octets(<<>>) = 0
<1> DEFINE f == [k \in 1 .. Len(q) |-> q[k].sz]
<1>1. Len(q) \in Nat /\ \A k \in 1 .. Len(q) : q[k] \in Frames
  OBVIOUS
<1>2. \A k \in 1 .. Len(q) : f[k] \in Nat
  BY <1>1, MaxWindowAssumption DEF Frames
<1>3. Octets(q) = Total(f, Len(q))
  BY DEF Octets
<1>4. Octets(q) \in Nat /\ \A k \in 1 .. Len(q) : f[k] <= Octets(q)
  <2> HIDE DEF f
  <2> QED
    BY <1>1, <1>2, <1>3, TotalOfNaturals
<1>5. ASSUME q # <<>> PROVE Head(q) \in Frames /\ Head(q).sz <= Octets(q)
  <2>1. 1 \in 1 .. Len(q) /\ Head(q) = q[1]
    BY <1>5
  <2>2. f[1] = Head(q).sz
    BY <2>1
  <2> QED
    BY <1>1, <1>4, <2>1, <2>2
<1>6. Octets(<<>>) = 0
  <2>1. Len(<<>>) = 0
    OBVIOUS
  <2> QED
    BY <2>1, TotalOfNone DEF Octets
<1> QED
  BY <1>4, <1>5, <1>6

LEMMA OctetsOfAppend ==
  ASSUME NEW q \in Seq(Frames), NEW frame \in Frames
  PROVE  /\ Append(q, frame) \in Seq(Frames) /\ Append(q, frame) # <<>>
         /\ Octets(Append(q, frame)) = Octets(q) + frame.sz
<1> DEFINE p == Append(q, frame)
           f == [k \in 1 .. Len(q) |-> q[k].sz]
           g == [k \in 1 .. Len(p) |-> p[k].sz]
           n == Len(q)
<1>1. /\ p \in Seq(Frames) /\ Len(p) = n + 1 /\ n \in Nat /\ p # <<>>
      /\ \A k \in 1 .. n : p[k] = q[k] /\ q[k] \in Frames
      /\ p[n + 1] = frame
  OBVIOUS
<1>2. frame.sz \in Nat /\ \A k \in 1 .. n : f[k] \in Int
  BY <1>1, MaxWindowAssumption DEF Frames
<1>3. Octets(q) = Total(f, n) /\ Octets(p) = Total(g, n + 1)
  BY <1>1 DEF Octets
<1>4. Agree(f, g, n) /\ g[n + 1] = frame.sz
  <2>1. ASSUME NEW k \in 1 .. n PROVE f[k] = g[k]
    <3>1. k \in 1 .. Len(p) /\ k \in 1 .. Len(q)
      BY <1>1
    <3>2. g[k] = p[k].sz /\ f[k] = q[k].sz
      BY <3>1
    <3> HIDE DEF f, g, p, n
    <3> QED
      BY <1>1, <3>2
  <2>2. n + 1 \in 1 .. Len(p)
    BY <1>1
  <2>3. g[n + 1] = frame.sz
    BY <1>1, <2>2
  <2> QED
    BY <2>1, <2>3 DEF Agree
<1>5. Summable(f, n)
  BY <1>2 DEF Summable
<1>6. Total(g, n + 1) = Total(f, n) + frame.sz
  <2> HIDE DEF f, g, n
  <2> QED
    BY <1>1, <1>2, <1>4, <1>5, TotalOfLonger
<1> QED
  BY <1>1, <1>3, <1>6

LEMMA OctetsOfTail ==
  ASSUME NEW q \in Seq(Frames), q # <<>>
  PROVE  /\ Tail(q) \in Seq(Frames)
         /\ Octets(q) = Head(q).sz + Octets(Tail(q))
<1> DEFINE p == Tail(q)
           n == Len(p)
           f == [k \in 1 .. Len(q) |-> q[k].sz]
           g == [k \in 1 .. n |-> p[k].sz]
<1>1. /\ p \in Seq(Frames) /\ Len(q) = n + 1 /\ n \in Nat
      /\ \A k \in 1 .. n : p[k] = q[k + 1]
      /\ \A k \in 1 .. n + 1 : q[k] \in Frames
      /\ Head(q) = q[1]
  OBVIOUS
<1>2. Octets(q) = Total(f, n + 1) /\ Octets(p) = Total(g, n)
  BY <1>1 DEF Octets
<1>3. Summable(f, n + 1) /\ (\A k \in 1 .. n : g[k] = f[k + 1]) /\ f[1] = Head(q).sz
  <2> HIDE DEF p, n
  <2> QED
    BY <1>1, MaxWindowAssumption DEF Summable, Frames
<1>4. Total(f, n + 1) = f[1] + Total(g, n)
  <2> HIDE DEF f, g, n
  <2> QED
    BY <1>1, <1>3, TotalOfRest
<1> QED
  BY <1>1, <1>2, <1>3, <1>4

LEMMA OctetsOfFront ==
  ASSUME NEW q \in Seq(Frames), NEW frame \in Frames
  PROVE  /\ <<frame>> \o q \in Seq(Frames) /\ <<frame>> \o q # <<>>
         /\ Octets(<<frame>> \o q) = frame.sz + Octets(q)
<1> DEFINE p == <<frame>> \o q
<1>1. p \in Seq(Frames) /\ p # <<>> /\ Head(p) = frame
  OBVIOUS
<1>2. Tail(p) = q
  OBVIOUS
<1> HIDE DEF p
<1>3. Octets(p) = Head(p).sz + Octets(Tail(p))
  BY <1>1, OctetsOfTail
<1> QED
  BY <1>1, <1>2, <1>3 DEF p

----------------------------------------------------------------------------
(* The inductive invariant.  Inside a critical section it holds of          *)
(* intermediate values too, so it is an operator of the value of "inner"    *)
(* and of three things that vary on the way: extra[s] octets of stream s    *)
(* are buffered and not in its queue, low[s] bounds its window from below,  *)
(* and "due" octets of the connection's capacity belong to nobody yet.      *)

IsStored(r) == r.place \in {"linked", "unlinked"}

InBounds(r) ==
  /\ r.flow.window \in -MaxWindow .. MaxWindow
  /\ r.flow.available \in 0 .. MaxWindow
  /\ r.requested \in 0 .. MaxWindow + MaxBuffered
  /\ r.buffered \in 0 .. MaxBuffered

Fits(r) ==
  /\ r.flow.available <= r.requested
  /\ r.flow.available <= WindowSize(r.flow)

\* A sending half that is closed asks for what is still buffered and no more,
\* unless what is buffered will be discarded.
Settled(r) ==
  IsSendClosed(r.state) =>
    /\ r.buffered = 0 => r.flow.available = 0
    /\ r.buffered > 0 /\ ~Discards(r.state) => r.requested <= r.buffered

\* Nothing can be asked for before HEADERS are queued.
Unasked(r) == CanSendOpen(r.state) => r.requested = 0

\* A stream that has been unlinked is over and has nothing left to write.
Linking(r, low) ==
  /\ r.place = "unlinked" => IsClosed(r.state) /\ r.buffered = 0
  /\ r.place = "linked" /\ ~CannotSend(r) => r.flow.window >= low

StoredSound(r, extra, low, server) ==
  /\ r \in StreamRecord
  /\ IsStored(r)
  /\ InBounds(r)
  /\ Fits(r)
  /\ Unasked(r)
  /\ server => Settled(r)
  /\ r.buffered = Octets(r.queue) + extra
  /\ Linking(r, low)

AbsentSound(r, extra, server) ==
  /\ r \in StreamRecord
  /\ InBounds(r)
  /\ extra = 0
  /\ \/ r = NewStream("new", "waiting", 0)
     \/ r.place = "removed" /\ (server => r.flow.available = 0)

StreamSound(r, extra, low, server) ==
  AbsentSound(r, extra, server) \/ StoredSound(r, extra, low, server)

Shares(streams) == Total([s \in Streams |-> streams[s].flow.available], NStreams)

Account(i, due) ==
  /\ i.flow.window = i.flow.available + Shares(i.streams) + due
  /\ i.flow.available >= 0
  /\ due \in Nat
  /\ i.flow.window <= MaxWindow

InQueue(i, s) ==
  \/ Contains(i.sendQ, s) \/ Contains(i.capacityQ, s)
  \/ Contains(i.openQ, s) \/ Contains(i.resetQ, s)

Keys(i) == \A s \in Streams : InQueue(i, s) => IsStored(i.streams[s])

Takes(r) == IF r.counted THEN 1 ELSE 0
Taken(streams) == Total([s \in Streams |-> Takes(streams[s])], NStreams)

\* A stream takes a slot once: when it is created, or leaves pending_open.
Untaken(streams, openQ) ==
  Total([s \in Streams |-> IF streams[s].place = "new" \/ Contains(openQ, s) THEN 1 ELSE 0],
        NStreams)

Slots(i) ==
  /\ Distinct(i.openQ)
  /\ Taken(i.streams) <= i.numStreams
  /\ i.numStreams + Untaken(i.streams, i.openQ) <= NStreams

Resets(i) == Len(i.resetQ) <= i.numResets /\ i.numResets <= MaxResets

Scope(extra, low) == extra \in [Streams -> Nat] /\ low \in [Streams -> -MaxWindow .. 0]

IsServer(i) == i.peer = "server"

\* Everything but the record of stream "but".
SoundBut(i, but, extra, low, due) ==
  /\ i \in InnerRecord
  /\ Scope(extra, low)
  /\ \A s \in Streams : s # but => StreamSound(i.streams[s], extra[s], low[s], IsServer(i))
  /\ Account(i, due)
  /\ Keys(i)
  /\ Slots(i)
  /\ Resets(i)
  /\ IsServer(i) => i.openQ = <<>>

Nobody == 0

Sound(i, extra, low, due) == SoundBut(i, Nobody, extra, low, due)

----------------------------------------------------------------------------
(* Sums over the streams.                                                  *)

LEMMA StreamsType == NStreams \in Nat /\ Streams = 1 .. NStreams /\ Nobody \notin Streams
  BY SendAssumption DEF Streams, Nobody

LEMMA SumChange ==
  ASSUME NEW f, NEW g, NEW s \in Streams, \A t \in Streams : f[t] \in Int, g[s] \in Int,
         \A t \in Streams : t # s => g[t] = f[t]
  PROVE  Total(g, NStreams) = Total(f, NStreams) + g[s] - f[s]
<1>1. Summable(f, NStreams) /\ s \in 1 .. NStreams
      /\ \A k \in 1 .. NStreams : k # s => g[k] = f[k]
  BY StreamsType DEF Summable
<1> QED
  BY <1>1, StreamsType, TotalOfChanged

LEMMA SharesType ==
  ASSUME NEW strs \in [Streams -> StreamRecord]
  PROVE  /\ Shares(strs) \in Int
         /\ (\A t \in Streams : strs[t].flow.available >= 0) =>
              \A t \in Streams : 0 <= strs[t].flow.available /\ strs[t].flow.available <= Shares(strs)
<1> DEFINE f == [t \in Streams |-> strs[t].flow.available]
<1>1. \A t \in Streams : f[t] = strs[t].flow.available /\ f[t] \in Int
  BY DEF StreamRecord, Flow
<1>2. Shares(strs) = Total(f, NStreams)
  BY DEF Shares
<1> HIDE DEF f
<1>3. Summable(f, NStreams)
  BY <1>1, StreamsType DEF Summable
<1>4. Total(f, NStreams) \in Int
  <2>1. PICK sum \in [0 .. NStreams -> Int] : Total(f, NStreams) = sum[NStreams]
    BY <1>3, StreamsType, TotalIsPartialSum
  <2> QED
    BY <2>1, StreamsType
<1>5. ASSUME \A t \in Streams : strs[t].flow.available >= 0
      PROVE  \A t \in Streams : 0 <= strs[t].flow.available /\ strs[t].flow.available <= Shares(strs)
  <2>1. \A t \in 1 .. NStreams : f[t] \in Nat
    BY <1>1, <1>5, StreamsType
  <2>2. \A t \in 1 .. NStreams : f[t] <= Total(f, NStreams)
    BY <2>1, StreamsType, TotalOfNaturals
  <2> QED
    BY <1>1, <1>2, <1>5, <2>2, StreamsType
<1> QED
  BY <1>2, <1>4, <1>5

\* What one stream gives or takes, the sum gives or takes.
LEMMA SharesChange ==
  ASSUME NEW strs \in [Streams -> StreamRecord], NEW strs2 \in [Streams -> StreamRecord],
         NEW s \in Streams,
         \A t \in Streams : t # s => strs2[t].flow.available = strs[t].flow.available
  PROVE  Shares(strs2) = Shares(strs) + strs2[s].flow.available - strs[s].flow.available
<1> DEFINE f == [t \in Streams |-> strs[t].flow.available]
           g == [t \in Streams |-> strs2[t].flow.available]
<1>1. /\ \A t \in Streams : f[t] = strs[t].flow.available /\ f[t] \in Int
      /\ \A t \in Streams : g[t] = strs2[t].flow.available /\ g[t] \in Int
  BY DEF StreamRecord, Flow
<1>2. Shares(strs) = Total(f, NStreams) /\ Shares(strs2) = Total(g, NStreams)
  BY DEF Shares
<1> HIDE DEF f, g
<1>3. \A t \in Streams : t # s => g[t] = f[t]
  BY <1>1
<1>4. Total(g, NStreams) = Total(f, NStreams) + g[s] - f[s]
  BY <1>1, <1>3, SumChange
<1> QED
  BY <1>1, <1>2, <1>4

LEMMA SharesEqual ==
  ASSUME NEW strs \in [Streams -> StreamRecord], NEW strs2 \in [Streams -> StreamRecord],
         \A t \in Streams : strs2[t].flow.available = strs[t].flow.available
  PROVE  Shares(strs2) = Shares(strs)
<1>1. [t \in Streams |-> strs[t].flow.available] = [t \in Streams |-> strs2[t].flow.available]
  OBVIOUS
<1> QED
  BY <1>1 DEF Shares

LEMMA TakenChange ==
  ASSUME NEW strs, NEW strs2, NEW s \in Streams,
         \A t \in Streams : t # s => Takes(strs2[t]) = Takes(strs[t])
  PROVE  /\ Taken(strs) \in Nat
         /\ Taken(strs2) = Taken(strs) + Takes(strs2[s]) - Takes(strs[s])
<1> DEFINE f == [t \in Streams |-> Takes(strs[t])]
           g == [t \in Streams |-> Takes(strs2[t])]
<1>1. /\ \A t \in Streams : f[t] = Takes(strs[t]) /\ f[t] \in Nat
      /\ \A t \in Streams : g[t] = Takes(strs2[t]) /\ g[t] \in Nat
  BY DEF Takes
<1>2. Taken(strs) = Total(f, NStreams) /\ Taken(strs2) = Total(g, NStreams)
  BY DEF Taken
<1> HIDE DEF f, g
<1>3. \A t \in Streams : t # s => g[t] = f[t]
  BY <1>1
<1>4. Total(g, NStreams) = Total(f, NStreams) + g[s] - f[s]
  BY <1>1, <1>3, SumChange
<1>5. \A k \in 1 .. NStreams : f[k] \in Nat
  BY <1>1, StreamsType
<1>6. Total(f, NStreams) \in Nat
  BY <1>5, StreamsType, TotalOfNaturals
<1> QED
  BY <1>1, <1>2, <1>4, <1>6

Waits(r, openQ, s) == IF r.place = "new" \/ Contains(openQ, s) THEN 1 ELSE 0

LEMMA UntakenChange ==
  ASSUME NEW strs, NEW strs2, NEW q, NEW q2, NEW s \in Streams,
         \A t \in Streams : t # s => Waits(strs2[t], q2, t) = Waits(strs[t], q, t)
  PROVE  /\ Untaken(strs, q) \in Nat
         /\ Untaken(strs2, q2) = Untaken(strs, q) + Waits(strs2[s], q2, s) - Waits(strs[s], q, s)
<1> DEFINE f == [t \in Streams |-> Waits(strs[t], q, t)]
           g == [t \in Streams |-> Waits(strs2[t], q2, t)]
<1>1. /\ \A t \in Streams : f[t] = Waits(strs[t], q, t) /\ f[t] \in Nat
      /\ \A t \in Streams : g[t] = Waits(strs2[t], q2, t) /\ g[t] \in Nat
  BY DEF Waits
<1>2. Untaken(strs, q) = Total(f, NStreams) /\ Untaken(strs2, q2) = Total(g, NStreams)
  BY DEF Untaken, Waits
<1> HIDE DEF f, g
<1>3. \A t \in Streams : t # s => g[t] = f[t]
  BY <1>1
<1>4. Total(g, NStreams) = Total(f, NStreams) + g[s] - f[s]
  BY <1>1, <1>3, SumChange
<1>5. \A k \in 1 .. NStreams : f[k] \in Nat
  BY <1>1, StreamsType
<1>6. Total(f, NStreams) \in Nat
  BY <1>5, StreamsType, TotalOfNaturals
<1> QED
  BY <1>1, <1>2, <1>4, <1>6

----------------------------------------------------------------------------
(* How a step keeps the invariant.                                         *)

Elsewhere(i, j, s) == \A t \in Streams : t # s => j.streams[t] = i.streams[t]

\* A step on a stream puts keys of that stream into queues and no other.
KeysOf(i, j, s) == \A t \in Streams : t # s /\ InQueue(j, t) => InQueue(i, t)

LEMMA SoundAt ==
  ASSUME NEW i, NEW s \in Streams, NEW extra, NEW low, NEW due
  PROVE  Sound(i, extra, low, due) <=>
           /\ SoundBut(i, s, extra, low, due)
           /\ StreamSound(i.streams[s], extra[s], low[s], IsServer(i))
<1>1. Nobody # s /\ \A t \in Streams : t # Nobody
  BY StreamsType
<1> QED
  BY <1>1 DEF Sound, SoundBut

LEMMA StoredAt ==
  ASSUME NEW i, NEW s \in Streams, NEW extra, NEW low, NEW due,
         Sound(i, extra, low, due), IsStored(i.streams[s])
  PROVE  /\ SoundBut(i, s, extra, low, due)
         /\ StoredSound(i.streams[s], extra[s], low[s], IsServer(i))
<1>1. i.streams[s].place # "new" /\ i.streams[s].place # "removed"
  BY DEF IsStored
<1>2. NewStream("new", "waiting", 0).place = "new"
  BY DEF NewStream
<1>3. ~AbsentSound(i.streams[s], extra[s], IsServer(i))
  BY <1>1, <1>2 DEF AbsentSound
<1> QED
  BY <1>3, SoundAt DEF StreamSound

LEMMA AccountMoves ==
  ASSUME NEW i \in InnerRecord, NEW j \in InnerRecord, NEW s \in Streams,
         NEW due \in Int, NEW due2 \in Nat,
         Account(i, due), Elsewhere(i, j, s),
         j.flow.window - j.flow.available - j.streams[s].flow.available - due2
           = i.flow.window - i.flow.available - i.streams[s].flow.available - due,
         j.flow.available >= 0, j.flow.window <= MaxWindow
  PROVE  Account(j, due2)
<1>1. i.streams \in [Streams -> StreamRecord] /\ j.streams \in [Streams -> StreamRecord]
  BY DEF InnerRecord
<1>2. \A t \in Streams : t # s => j.streams[t].flow.available = i.streams[t].flow.available
  BY DEF Elsewhere
<1>3. Shares(j.streams) = Shares(i.streams) + j.streams[s].flow.available - i.streams[s].flow.available
  BY <1>1, <1>2, SharesChange
<1>4. Shares(i.streams) \in Int /\ Shares(j.streams) \in Int
  BY <1>1, SharesType
<1>5. /\ i.flow.window \in Int /\ i.flow.available \in Int
      /\ j.flow.window \in Int /\ j.flow.available \in Int
  BY DEF InnerRecord, Flow
<1>6. j.streams[s].flow.available \in Int /\ i.streams[s].flow.available \in Int
  BY <1>1 DEF StreamRecord, Flow
<1> QED
  BY <1>3, <1>4, <1>5, <1>6 DEF Account

\* The connection can be given back what is due to it.
LEMMA AccountBounds ==
  ASSUME NEW i, NEW s \in Streams, NEW extra, NEW low, NEW due, Sound(i, extra, low, due)
  PROVE  /\ i.flow.window \in 0 .. MaxWindow
         /\ i.flow.available \in 0 .. MaxWindow
         /\ i.flow.available + due <= MaxWindow
         /\ i.streams[s].flow.available \in 0 .. MaxWindow
<1>1. i \in InnerRecord /\ Account(i, due)
  BY DEF Sound, SoundBut
<1>2. i.streams \in [Streams -> StreamRecord] /\ i.flow.window \in Int /\ i.flow.available \in Int
  BY <1>1 DEF InnerRecord, Flow
<1>3. \A t \in Streams : i.streams[t].flow.available \in 0 .. MaxWindow
  <2> SUFFICES ASSUME NEW t \in Streams PROVE i.streams[t].flow.available \in 0 .. MaxWindow
    OBVIOUS
  <2>1. StreamSound(i.streams[t], extra[t], low[t], IsServer(i))
    BY SoundAt
  <2> QED
    BY <2>1 DEF StreamSound, AbsentSound, StoredSound, InBounds
<1>4. \A t \in Streams : i.streams[t].flow.available >= 0
  BY <1>3, MaxWindowAssumption
<1>5. Shares(i.streams) \in Int /\ 0 <= Shares(i.streams)
  BY <1>2, <1>3, <1>4, SharesType, MaxWindowAssumption
<1> QED
  BY <1>1, <1>2, <1>3, <1>5, MaxWindowAssumption DEF Account

LEMMA SlotsKept ==
  ASSUME NEW i, NEW j, NEW s \in Streams, Slots(i), Elsewhere(i, j, s),
         j.openQ = i.openQ, j.numStreams = i.numStreams,
         j.streams[s].counted = i.streams[s].counted,
         j.streams[s].place = "new" <=> i.streams[s].place = "new"
  PROVE  Slots(j)
<1>1. \A t \in Streams : Takes(j.streams[t]) = Takes(i.streams[t])
  BY DEF Elsewhere, Takes
<1>2. \A t \in Streams : (IF j.streams[t].place = "new" \/ Contains(j.openQ, t) THEN 1 ELSE 0)
                           = (IF i.streams[t].place = "new" \/ Contains(i.openQ, t) THEN 1 ELSE 0)
  BY DEF Elsewhere
<1>3. Taken(j.streams) = Taken(i.streams)
  BY <1>1 DEF Taken
<1>4. Untaken(j.streams, j.openQ) = Untaken(i.streams, i.openQ)
  BY <1>2 DEF Untaken
<1> QED
  BY <1>3, <1>4 DEF Slots

\* A step on one stream, which is in the store after it.
LEMMA StreamStepIn ==
  ASSUME NEW i, NEW j \in InnerRecord, NEW s \in Streams, NEW extra, NEW extra2,
         NEW low, NEW low2, NEW due \in Int, NEW due2 \in Nat,
         SoundBut(i, s, extra, low, due), Scope(extra2, low2),
         \A t \in Streams : t # s => extra2[t] = extra[t] /\ low2[t] = low[t],
         j.peer = i.peer, Elsewhere(i, j, s), KeysOf(i, j, s),
         StoredSound(j.streams[s], extra2[s], low2[s], IsServer(j)),
         j.flow.window - j.flow.available - j.streams[s].flow.available - due2
           = i.flow.window - i.flow.available - i.streams[s].flow.available - due,
         j.flow.available >= 0, j.flow.window <= MaxWindow,
         Slots(j), Resets(j), IsServer(j) => j.openQ = <<>>
  PROVE  Sound(j, extra2, low2, due2)
<1>1. i \in InnerRecord /\ Account(i, due) /\ Keys(i)
  BY DEF SoundBut
<1>2. Account(j, due2)
  BY <1>1, AccountMoves
<1>3. Keys(j)
  <2> SUFFICES ASSUME NEW t \in Streams, InQueue(j, t) PROVE IsStored(j.streams[t])
    BY DEF Keys
  <2>1. CASE t = s
    BY <2>1 DEF StoredSound
  <2>2. CASE t # s
    BY <1>1, <2>2 DEF Keys, KeysOf, Elsewhere
  <2> QED
    BY <2>1, <2>2
<1>4. \A t \in Streams : StreamSound(j.streams[t], extra2[t], low2[t], IsServer(j))
  <2> SUFFICES ASSUME NEW t \in Streams
               PROVE  StreamSound(j.streams[t], extra2[t], low2[t], IsServer(j))
    OBVIOUS
  <2>1. CASE t = s
    BY <2>1 DEF StreamSound
  <2>2. CASE t # s
    <3>1. j.streams[t] = i.streams[t] /\ extra2[t] = extra[t] /\ low2[t] = low[t]
      BY <2>2 DEF Elsewhere
    <3>2. StreamSound(i.streams[t], extra[t], low[t], IsServer(i))
      BY <2>2 DEF SoundBut
    <3>3. IsServer(j) = IsServer(i)
      BY DEF IsServer
    <3> QED
      BY <3>1, <3>2, <3>3
  <2> QED
    BY <2>1, <2>2
<1> QED
  BY <1>2, <1>3, <1>4 DEF Sound, SoundBut

\* The same, when the slots and the resets are left alone.
LEMMA StreamStep ==
  ASSUME NEW i, NEW j \in InnerRecord, NEW s \in Streams, NEW extra, NEW extra2,
         NEW low, NEW due \in Int, NEW due2 \in Nat,
         SoundBut(i, s, extra, low, due), Scope(extra2, low),
         \A t \in Streams : t # s => extra2[t] = extra[t],
         j.peer = i.peer, Elsewhere(i, j, s), KeysOf(i, j, s),
         StoredSound(j.streams[s], extra2[s], low[s], IsServer(j)),
         IsStored(i.streams[s]),
         j.flow.window - j.flow.available - j.streams[s].flow.available - due2
           = i.flow.window - i.flow.available - i.streams[s].flow.available - due,
         j.flow.available >= 0, j.flow.window <= MaxWindow,
         j.openQ = i.openQ, j.resetQ = i.resetQ,
         j.numStreams = i.numStreams, j.numResets = i.numResets,
         j.streams[s].counted = i.streams[s].counted
  PROVE  Sound(j, extra2, low, due2)
<1>1. j.streams[s].place = "new" <=> i.streams[s].place = "new"
  BY DEF StoredSound, IsStored
<1>2. Slots(i) /\ Resets(i) /\ (IsServer(i) => i.openQ = <<>>)
  BY DEF SoundBut
<1>3. Slots(j)
  BY <1>1, <1>2, SlotsKept
<1>4. Resets(j) /\ (IsServer(j) => j.openQ = <<>>)
  BY <1>2 DEF Resets, IsServer
<1>5. \A t \in Streams : t # s => extra2[t] = extra[t] /\ low[t] = low[t]
  OBVIOUS
<1> HIDE <1>5
<1> QED
  BY <1>3, <1>4, <1>5, StreamStepIn

----------------------------------------------------------------------------
(* Capacity.                                                               *)

\* All of a stream but its share of the connection's capacity.
Alike(r, r2) ==
  /\ r2.place = r.place /\ r2.state = r.state /\ r2.handle = r.handle
  /\ r2.flow.window = r.flow.window
  /\ r2.requested = r.requested /\ r2.buffered = r.buffered
  /\ r2.queue = r.queue /\ r2.counted = r.counted

\* All but pending_send and pending_capacity and what the streams hold.
SameBooks(i, j) ==
  /\ j.peer = i.peer /\ j.initWindow = i.initWindow
  /\ j.maxStreams = i.maxStreams /\ j.maxStreamId = i.maxStreamId
  /\ j.numStreams = i.numStreams /\ j.numResets = i.numResets
  /\ j.openQ = i.openQ /\ j.resetQ = i.resetQ /\ j.inFlight = i.inFlight

\* Capacity moves, and nothing else happens to any stream.
Steady(i, j) ==
  /\ SameBooks(i, j)
  /\ \A t \in Streams : Alike(i.streams[t], j.streams[t])

LEMMA SteadyTrans ==
  ASSUME NEW i, NEW j, NEW k, Steady(i, j), Steady(j, k)
  PROVE  Steady(i, k)
  BY DEF Steady, SameBooks, Alike

LEMMA SteadyRefl ==
  ASSUME NEW i
  PROVE  Steady(i, i)
  BY DEF Steady, SameBooks, Alike

\* try_assign_capacity gives s what it asks for, the window allows and the
\* connection has.
LEMMA TryAssignFields ==
  ASSUME NEW i \in InnerRecord, NEW s \in Streams, NEW r, NEW j,
         r = i.streams[s], j = TryAssign(i, s),
         InBounds(r), Fits(r), i.flow.available \in 0 .. MaxWindow, j # i
  PROVE  \E assign \in 0 .. MaxWindow :
           /\ assign <= i.flow.available
           /\ assign + r.flow.available <= r.requested
           /\ assign + r.flow.available <= WindowSize(r.flow)
           /\ CanSendData(r)
           /\ j.streams = [i.streams EXCEPT ![s] =
                [r EXCEPT !.flow = [r.flow EXCEPT !.available = r.flow.available + assign]]]
           /\ j.flow = [i.flow EXCEPT !.available = i.flow.available - assign]
           /\ j.sendQ \in {i.sendQ, Push(i.sendQ, s)}
           /\ j.capacityQ \in {i.capacityQ, Push(i.capacityQ, s)}
           /\ SameBooks(i, j)
           /\ j \in InnerRecord
<1> DEFINE additional == Lesser(r.requested, WindowSize(r.flow)) - r.flow.available
           assign == Lesser(AsSize(i.flow.available), additional)
           flow == AssignCapacity(r.flow, assign)
<1>1. ~(IsPendingOpen(i, s) \/ additional <= 0 \/ ~CanSendData(r))
  BY DEF TryAssign
<1>2. /\ i.flow \in Flow /\ r \in StreamRecord /\ r.flow \in Flow
      /\ r.flow.available \in Int /\ r.flow.window \in Int /\ i.streams \in [Streams -> StreamRecord]
      /\ i.sendQ \in Seq(Streams) /\ i.capacityQ \in Seq(Streams)
  BY DEF InnerRecord, StreamRecord, Flow
<1>3. WindowSize(r.flow) \in 0 .. MaxWindow /\ r.requested \in Nat /\ r.flow.available \in 0 .. MaxWindow
  BY <1>2, MaxWindowAssumption, SendAssumption DEF InBounds, WindowSize, AsSize
<1>4. /\ assign \in 0 .. MaxWindow /\ assign <= i.flow.available
      /\ assign + r.flow.available <= r.requested
      /\ assign + r.flow.available <= WindowSize(r.flow)
  BY <1>1, <1>2, <1>3, MaxWindowAssumption, SMTT(30) DEF Lesser, AsSize
<1> HIDE DEF assign
<1>5. flow = [r.flow EXCEPT !.available = r.flow.available + assign]
  BY <1>2, <1>3, <1>4, MaxWindowAssumption DEF AssignCapacity, CanAssign
<1>6. ClaimCapacity(i.flow, assign) = [i.flow EXCEPT !.available = i.flow.available - assign]
  BY <1>2, <1>4, MaxWindowAssumption DEF ClaimCapacity, CanClaim, MinWindow
<1>7. j = [i EXCEPT
              !.streams[s].flow = flow,
              !.flow = ClaimCapacity(@, assign),
              !.capacityQ = IF flow.available < r.requested /\ HasUnavailable(flow)
                              THEN Push(@, s) ELSE @,
              !.sendQ = IF r.buffered > 0 THEN Push(@, s) ELSE @]
  BY <1>1 DEF TryAssign, assign
<1> HIDE DEF additional, flow
<1>8. /\ j.streams = [i.streams EXCEPT ![s] = [r EXCEPT !.flow = flow]]
      /\ j.flow = ClaimCapacity(i.flow, assign)
      /\ j.sendQ \in {i.sendQ, Push(i.sendQ, s)}
      /\ j.capacityQ \in {i.capacityQ, Push(i.capacityQ, s)}
      /\ SameBooks(i, j)
  BY <1>7 DEF InnerRecord, SameBooks
<1>9. flow \in Flow /\ ClaimCapacity(i.flow, assign) \in Flow
      /\ Push(i.sendQ, s) \in Seq(Streams) /\ Push(i.capacityQ, s) \in Seq(Streams)
  <2>1. r.flow.available + assign \in Int /\ i.flow.available - assign \in Int
    BY <1>2, <1>4
  <2>2. flow \in Flow /\ ClaimCapacity(i.flow, assign) \in Flow
    BY <1>2, <1>5, <1>6, <2>1 DEF Flow
  <2> QED
    BY <1>2, <2>2, PushQueue
<1>10. j.streams \in [Streams -> StreamRecord]
  BY <1>2, <1>8, <1>9, ZenonT(60) DEF StreamRecord
<1>11. j \in InnerRecord
  BY <1>7, <1>8, <1>9, <1>10, ZenonT(60) DEF InnerRecord
<1> QED
  BY <1>1, <1>4, <1>5, <1>6, <1>8, <1>11

LEMMA ShareChanges ==
  ASSUME NEW r, NEW r2 \in StreamRecord, NEW extra, NEW low, NEW server,
         StoredSound(r, extra, low, server), Alike(r, r2),
         r2.flow.available \in 0 .. MaxWindow,
         r2.flow.available <= r.requested, r2.flow.available <= WindowSize(r.flow),
         server /\ CannotSend(r) => r2.flow.available = 0
  PROVE  StoredSound(r2, extra, low, server)
<1>1. /\ IsStored(r) /\ InBounds(r) /\ Unasked(r) /\ Linking(r, low)
      /\ r.buffered = Octets(r.queue) + extra /\ (server => Settled(r))
  BY DEF StoredSound
<1>2. IsStored(r2) /\ InBounds(r2) /\ Unasked(r2) /\ Fits(r2)
      /\ r2.buffered = Octets(r2.queue) + extra
  BY <1>1 DEF IsStored, Alike, InBounds, Unasked, Fits, WindowSize
<1>3. Linking(r2, low)
  BY <1>1 DEF Linking, Alike, CannotSend
<1>4. server => Settled(r2)
  BY <1>1 DEF Settled, Alike, CannotSend
<1> QED
  BY <1>2, <1>3, <1>4 DEF StoredSound

LEMMA QueuesKeep ==
  ASSUME NEW i \in InnerRecord, NEW j, NEW s \in Streams,
         j.sendQ \in {i.sendQ, Push(i.sendQ, s)},
         j.capacityQ \in {i.capacityQ, Push(i.capacityQ, s)},
         j.openQ = i.openQ, j.resetQ = i.resetQ
  PROVE  KeysOf(i, j, s)
<1>1. i.sendQ \in Seq(Streams) /\ i.capacityQ \in Seq(Streams)
  BY DEF InnerRecord
<1>2. ASSUME NEW t \in Streams, t # s
      PROVE  /\ Contains(j.sendQ, t) => Contains(i.sendQ, t)
             /\ Contains(j.capacityQ, t) => Contains(i.capacityQ, t)
  <2>1. Contains(Push(i.sendQ, s), t) => Contains(i.sendQ, t)
    BY <1>1, <1>2, PushQueue
  <2>2. Contains(Push(i.capacityQ, s), t) => Contains(i.capacityQ, t)
    BY <1>1, <1>2, PushQueue
  <2> QED
    BY <2>1, <2>2
<1> QED
  BY <1>2 DEF KeysOf, InQueue

LEMMA TryAssignSound ==
  ASSUME NEW i, NEW s \in Streams, NEW extra, NEW low, NEW due,
         Sound(i, extra, low, due), IsStored(i.streams[s])
  PROVE  /\ Sound(TryAssign(i, s), extra, low, due)
         /\ Steady(i, TryAssign(i, s))
         /\ CanSendData(i.streams[s]) \/ TryAssign(i, s) = i
<1> DEFINE j == TryAssign(i, s)
           r == i.streams[s]
<1>1. CASE j = i
  BY <1>1, SteadyRefl
<1>2. CASE j # i
  <2>1. /\ SoundBut(i, s, extra, low, due) /\ StoredSound(r, extra[s], low[s], IsServer(i))
    BY StoredAt
  <2>2. /\ i \in InnerRecord /\ Account(i, due) /\ Scope(extra, low) /\ InBounds(r) /\ Fits(r)
    BY <2>1 DEF SoundBut, StoredSound
  <2>3. i.flow.available \in 0 .. MaxWindow /\ i.flow.window \in 0 .. MaxWindow
    BY AccountBounds
  <2>4. PICK assign \in 0 .. MaxWindow :
           /\ assign <= i.flow.available
           /\ assign + r.flow.available <= r.requested
           /\ assign + r.flow.available <= WindowSize(r.flow)
           /\ CanSendData(r)
           /\ j.streams = [i.streams EXCEPT ![s] =
                [r EXCEPT !.flow = [r.flow EXCEPT !.available = r.flow.available + assign]]]
           /\ j.flow = [i.flow EXCEPT !.available = i.flow.available - assign]
           /\ j.sendQ \in {i.sendQ, Push(i.sendQ, s)}
           /\ j.capacityQ \in {i.capacityQ, Push(i.capacityQ, s)}
           /\ SameBooks(i, j)
           /\ j \in InnerRecord
    BY <1>2, <2>2, <2>3, TryAssignFields
  <2> HIDE DEF j
  <2> DEFINE r2 == j.streams[s]
  <2>5. i.flow \in Flow /\ r \in StreamRecord /\ r.flow \in Flow /\ i.streams \in [Streams -> StreamRecord]
        /\ j.streams \in [Streams -> StreamRecord]
    BY <2>2, <2>4 DEF InnerRecord, StreamRecord
  <2>6. Elsewhere(i, j, s) /\ r2 \in StreamRecord
        /\ r2 = [r EXCEPT !.flow = [r.flow EXCEPT !.available = r.flow.available + assign]]
    BY <2>4, <2>5 DEF Elsewhere
  <2>7. Alike(r, r2) /\ r2.flow.available = r.flow.available + assign
    BY <2>5, <2>6 DEF StreamRecord, Flow, Alike
  <2>8. j.flow.window = i.flow.window /\ j.flow.available = i.flow.available - assign
    BY <2>4, <2>5 DEF Flow
  <2> HIDE DEF r2, r
  <2>9. ~CannotSend(r)
    <3>1. IsStored(r) /\ r.state \in States
      BY <2>1 DEF StoredSound, StreamRecord
    <3> QED
      BY <2>4, <3>1, StateKinds DEF CanSendData, CannotSend
  <2>10. r.flow.available \in 0 .. MaxWindow /\ WindowSize(r.flow) <= MaxWindow
    BY <2>2, MaxWindowAssumption DEF InBounds, WindowSize, AsSize
  <2>11. StoredSound(r2, extra[s], low[s], IsServer(i))
    <3>1. r2.flow.available \in 0 .. MaxWindow /\ r2.flow.available <= r.requested
          /\ r2.flow.available <= WindowSize(r.flow)
      BY <2>4, <2>7, <2>10, <2>5, MaxWindowAssumption DEF WindowSize, AsSize, Flow
    <3> QED
      BY <2>1, <2>6, <2>7, <2>9, <3>1, ShareChanges
  <2>12. KeysOf(i, j, s)
    BY <2>2, <2>4, QueuesKeep DEF SameBooks
  <2>13. /\ j.peer = i.peer /\ j.openQ = i.openQ /\ j.resetQ = i.resetQ
         /\ j.numStreams = i.numStreams /\ j.numResets = i.numResets
         /\ IsServer(j) = IsServer(i)
    BY <2>4 DEF SameBooks, IsServer
  <2>14. due \in Nat
    BY <2>2 DEF Account
  <2>15. Sound(j, extra, low, due)
    <3>1. j.flow.window - j.flow.available - j.streams[s].flow.available - due
            = i.flow.window - i.flow.available - i.streams[s].flow.available - due
      BY <2>3, <2>7, <2>8, <2>10, <2>14 DEF r, r2
    <3>2. j.flow.available >= 0 /\ j.flow.window <= MaxWindow
      BY <2>3, <2>4, <2>8
    <3>3. j.streams[s].counted = i.streams[s].counted /\ IsStored(i.streams[s])
      BY <2>7, <2>1 DEF Alike, StoredSound, r, r2
    <3>4. StoredSound(j.streams[s], extra[s], low[s], IsServer(j))
      BY <2>11, <2>13 DEF r2
    <3>5. due \in Int /\ j \in InnerRecord
      BY <2>4, <2>14
    <3> QED
      BY <2>1, <2>2, <2>6, <2>12, <2>13, <2>14, <3>1, <3>2, <3>3, <3>4, <3>5, StreamStep
  <2>16. Steady(i, j)
    <3>1. \A t \in Streams : Alike(i.streams[t], j.streams[t])
      BY <2>6, <2>7 DEF Elsewhere, Alike, r, r2
    <3> QED
      BY <2>4, <3>1 DEF Steady
  <2> QED
    BY <2>4, <2>15, <2>16 DEF j, r
<1> QED
  BY <1>1, <1>2

\* A step that only moves keys in pending_send and pending_capacity.
LEMMA QueueStep ==
  ASSUME NEW i, NEW j \in InnerRecord, NEW extra, NEW low, NEW due,
         Sound(i, extra, low, due), j.streams = i.streams, j.flow = i.flow,
         j.peer = i.peer, j.openQ = i.openQ, j.resetQ = i.resetQ,
         j.numStreams = i.numStreams, j.numResets = i.numResets,
         \A t \in Streams : InQueue(j, t) => InQueue(i, t) \/ IsStored(i.streams[t])
  PROVE  Sound(j, extra, low, due)
<1>1. /\ Scope(extra, low) /\ Account(i, due) /\ Keys(i) /\ Slots(i) /\ Resets(i)
      /\ (IsServer(i) => i.openQ = <<>>)
      /\ \A t \in Streams : t # Nobody => StreamSound(i.streams[t], extra[t], low[t], IsServer(i))
  BY DEF Sound, SoundBut
<1>2. IsServer(j) = IsServer(i)
  BY DEF IsServer
<1>3. Account(j, due) /\ Keys(j) /\ Slots(j) /\ Resets(j)
  BY <1>1 DEF Account, Keys, Slots, Resets
<1> QED
  BY <1>1, <1>2, <1>3 DEF Sound, SoundBut

LEMMA StoredInQueue ==
  ASSUME NEW i, NEW extra, NEW low, NEW due, Sound(i, extra, low, due),
         NEW s \in Streams, InQueue(i, s)
  PROVE  IsStored(i.streams[s])
  BY DEF Sound, SoundBut, Keys

LEMMA SoundType ==
  ASSUME NEW i, NEW extra, NEW low, NEW due, Sound(i, extra, low, due)
  PROVE  /\ i \in InnerRecord /\ due \in Nat
         /\ i.sendQ \in Seq(Streams) /\ i.capacityQ \in Seq(Streams)
         /\ i.openQ \in Seq(Streams) /\ i.resetQ \in Seq(Streams)
         /\ i.streams \in [Streams -> StreamRecord] /\ i.flow \in Flow
         /\ extra \in [Streams -> Nat] /\ low \in [Streams -> -MaxWindow .. 0]
         /\ i.numStreams \in Int /\ i.numResets \in Int
  BY DEF Sound, SoundBut, InnerRecord, Account, Scope

\* A stream that has something left to do is not touched by a transition.
LEMMA TransitionIdle ==
  ASSUME NEW i \in InnerRecord, NEW s \in Streams, NEW wasReset \in BOOLEAN,
         ~IsFlushed(i.streams[s])
  PROVE  TransitionAfter(i, s, wasReset) = i
<1> DEFINE r == i.streams[s]
           j == [i EXCEPT
              !.streams[s].place = IF FALSE THEN "unlinked" ELSE @,
              !.streams[s].counted = @ /\ ~FALSE,
              !.numStreams = IF FALSE THEN @ - 1 ELSE @,
              !.numResets = IF FALSE /\ wasReset THEN @ - 1 ELSE @]
<1>1. r \in StreamRecord /\ i.streams \in [Streams -> StreamRecord]
  BY DEF InnerRecord
<1>2. r.counted \in BOOLEAN
  BY <1>1 DEF StreamRecord
<1>3. j.streams = i.streams
  BY <1>1, <1>2 DEF InnerRecord, StreamRecord
<1>4. j = i
  BY <1>1, <1>2, <1>3 DEF InnerRecord, StreamRecord
<1>5. ~IsReleased(i, s)
  BY DEF IsReleased
<1>6. ~GivesSlotBack(r)
  BY DEF GivesSlotBack
<1>7. TransitionAfter(i, s, wasReset) = IF IsReleased(j, s) THEN [j EXCEPT !.streams[s] = Removed(@)] ELSE j
  BY <1>6, ZenonT(60) DEF TransitionAfter
<1> HIDE DEF j
<1> QED
  BY <1>4, <1>5, <1>7

LEMMA PopCapacitySound ==
  ASSUME NEW i, NEW extra, NEW low, NEW due, Sound(i, extra, low, due), i.capacityQ # <<>>
  PROVE  LET j == [i EXCEPT !.capacityQ = Tail(@)]
         IN  /\ Sound(j, extra, low, due) /\ Steady(i, j) /\ j.streams = i.streams
             /\ j.flow = i.flow
             /\ Head(i.capacityQ) \in Streams /\ IsStored(i.streams[Head(i.capacityQ)])
<1> DEFINE j == [i EXCEPT !.capacityQ = Tail(@)]
           s == Head(i.capacityQ)
<1>1. i \in InnerRecord /\ i.capacityQ \in Seq(Streams)
  BY SoundType
<1>2. /\ s \in Streams /\ Contains(i.capacityQ, s)
      /\ Tail(i.capacityQ) \in Seq(Streams)
      /\ \A t \in Streams : Contains(Tail(i.capacityQ), t) => Contains(i.capacityQ, t)
  BY <1>1, TailQueue
<1>3. /\ j.streams = i.streams /\ j.flow = i.flow /\ j.sendQ = i.sendQ
      /\ j.capacityQ = Tail(i.capacityQ) /\ SameBooks(i, j)
  BY <1>1 DEF InnerRecord, SameBooks
<1>4. j \in InnerRecord
  BY <1>1, <1>2 DEF InnerRecord
<1> HIDE DEF j
<1>5. IsStored(i.streams[s])
  BY <1>2, StoredInQueue DEF InQueue
<1>6. \A t \in Streams : InQueue(j, t) => InQueue(i, t)
  BY <1>2, <1>3 DEF InQueue, SameBooks
<1>7. Sound(j, extra, low, due)
  BY <1>3, <1>4, <1>6, QueueStep DEF SameBooks
<1>8. Steady(i, j)
  BY <1>3 DEF Steady, Alike
<1> QED
  BY <1>2, <1>3, <1>5, <1>7, <1>8 DEF j

LEMMA AssignNextSound ==
  ASSUME NEW i, NEW extra, NEW low, NEW due, Sound(i, extra, low, due)
  PROVE  Sound(AssignNext(i), extra, low, due) /\ Steady(i, AssignNext(i))
<1> DEFINE s == Head(i.capacityQ)
           j == [i EXCEPT !.capacityQ = Tail(@)]
<1>1. CASE i.flow.available <= 0 \/ i.capacityQ = <<>>
  BY <1>1, SteadyRefl DEF AssignNext
<1>2. CASE ~(i.flow.available <= 0 \/ i.capacityQ = <<>>)
  <2>1. /\ Sound(j, extra, low, due) /\ Steady(i, j) /\ j.streams = i.streams
        /\ s \in Streams /\ IsStored(i.streams[s])
    BY <1>2, PopCapacitySound
  <2>2. AssignNext(i) = IF CanSendData(i.streams[s])
                          THEN Transition(j, TryAssign(j, s), s) ELSE j
    BY <1>2 DEF AssignNext
  <2> HIDE DEF j, s
  <2>3. CASE ~CanSendData(i.streams[s])
    BY <2>1, <2>2, <2>3
  <2>4. CASE CanSendData(i.streams[s])
    <3> DEFINE k == TryAssign(j, s)
    <3>1. Sound(k, extra, low, due) /\ Steady(j, k)
      BY <2>1, TryAssignSound
    <3>2. k \in InnerRecord /\ k.streams \in [Streams -> StreamRecord]
      BY <3>1, SoundType
    <3>3. ~IsFlushed(k.streams[s])
      <4>1. Alike(i.streams[s], k.streams[s])
        BY <2>1, <3>1 DEF Steady
      <4>2. i.streams[s].state \in States
        BY <2>1, SoundType DEF StreamRecord
      <4>3. IsSendStreaming(i.streams[s].state) => ~IsClosed(i.streams[s].state)
        BY <4>2, StateKinds
      <4>4. i.streams[s].buffered > 0 => i.streams[s].buffered # 0
        OBVIOUS
      <4> QED
        BY <2>4, <4>1, <4>3, <4>4 DEF CanSendData, IsFlushed, Alike
    <3>4. IsPendingReset(j, s) \in BOOLEAN
      BY DEF IsPendingReset, Contains
    <3>5. Transition(j, k, s) = k
      BY <2>1, <3>2, <3>3, <3>4, TransitionIdle DEF Transition
    <3> QED
      BY <2>1, <2>2, <2>4, <3>1, <3>5, SteadyTrans
  <2> QED
    BY <2>3, <2>4
<1> QED
  BY <1>1, <1>2

LEMMA AssignPendingSound ==
  ASSUME NEW i, NEW extra, NEW low, NEW due, Sound(i, extra, low, due)
  PROVE  Sound(AssignPending(i), extra, low, due) /\ Steady(i, AssignPending(i))
<1> DEFINE S == {j \in InnerRecord : Sound(j, extra, low, due) /\ Steady(i, j)}
           step == [k \in Nat |-> [j \in InnerRecord |-> AssignNext(j)]]
<1>1. i \in S /\ Len(i.capacityQ) \in Nat
  BY SoundType, SteadyRefl
<1>2. ASSUME NEW k \in 1 .. Len(i.capacityQ), NEW j \in S
      PROVE  step[k][j] \in S
  <2>1. k \in Nat /\ step[k][j] = AssignNext(j)
    BY <1>1
  <2>2. Sound(AssignNext(j), extra, low, due) /\ Steady(i, AssignNext(j))
    BY AssignNextSound, SteadyTrans
  <2>3. AssignNext(j) \in InnerRecord
    BY <2>2, SoundType
  <2> QED
    BY <2>1, <2>2, <2>3
<1>3. AssignPending(i) = Loop(step, i, Len(i.capacityQ))
  BY DEF AssignPending
<1>4. Loop(step, i, Len(i.capacityQ)) \in S
  <2> HIDE DEF S, step
  <2> QED
    BY <1>1, <1>2, LoopStays
<1> QED
  BY <1>3, <1>4

\* assign_connection_capacity gives back what was due.
LEMMA AssignConnectionSound ==
  ASSUME NEW i, NEW extra, NEW low, NEW inc, Sound(i, extra, low, inc)
  PROVE  /\ Sound(AssignConnection(i, inc), extra, low, 0)
         /\ Steady(i, AssignConnection(i, inc))
<1> DEFINE j == [i EXCEPT !.flow = AssignCapacity(@, inc)]
<1>1. i \in InnerRecord /\ inc \in Nat /\ i.flow \in Flow /\ NStreams \in Nat
  BY SoundType, StreamsType
<1>2. /\ i.flow.available \in 0 .. MaxWindow /\ i.flow.available + inc <= MaxWindow
  <2>1. 1 \in Streams
    BY SendAssumption, StreamsType
  <2> QED
    BY <2>1, AccountBounds
<1>3. AssignCapacity(i.flow, inc) = [i.flow EXCEPT !.available = i.flow.available + inc]
  BY <1>2 DEF AssignCapacity, CanAssign
<1>4. AssignCapacity(i.flow, inc) \in Flow
      /\ AssignCapacity(i.flow, inc).available = i.flow.available + inc
      /\ AssignCapacity(i.flow, inc).window = i.flow.window
  BY <1>1, <1>2, <1>3 DEF Flow
<1>5. /\ j.streams = i.streams /\ j.sendQ = i.sendQ /\ j.capacityQ = i.capacityQ
      /\ j.flow = AssignCapacity(i.flow, inc) /\ SameBooks(i, j)
  BY <1>1 DEF InnerRecord, SameBooks
<1>6. j \in InnerRecord
  BY <1>1, <1>4 DEF InnerRecord
<1> HIDE DEF j
<1>7. Sound(j, extra, low, 0)
  <2>1. /\ Scope(extra, low) /\ Account(i, inc) /\ Keys(i) /\ Slots(i) /\ Resets(i)
        /\ (IsServer(i) => i.openQ = <<>>)
        /\ \A t \in Streams : t # Nobody => StreamSound(i.streams[t], extra[t], low[t], IsServer(i))
    BY DEF Sound, SoundBut
  <2>2. IsServer(j) = IsServer(i)
    BY <1>5 DEF IsServer, SameBooks
  <2>3. Account(j, 0)
    <3>1. Shares(i.streams) \in Int /\ i.flow.window \in Int
      BY <1>1, SoundType, SharesType DEF Flow
    <3>2. i.flow.window = i.flow.available + Shares(i.streams) + inc /\ i.flow.window <= MaxWindow
      BY <2>1 DEF Account
    <3>3. j.flow.window = j.flow.available + Shares(i.streams) + 0
      BY <1>1, <1>2, <1>4, <1>5, <3>1, <3>2
    <3> QED
      BY <1>1, <1>2, <1>4, <1>5, <3>2, <3>3 DEF Account
  <2>4. Keys(j) /\ Slots(j) /\ Resets(j)
    BY <1>5, <2>1 DEF Keys, InQueue, Slots, Resets, SameBooks
  <2> QED
    BY <1>5, <1>6, <2>1, <2>2, <2>3, <2>4 DEF Sound, SoundBut, SameBooks
<1>8. Steady(i, j)
  BY <1>5 DEF Steady, Alike
<1>9. AssignConnection(i, inc) = AssignPending(j)
  BY DEF AssignConnection, j
<1> QED
  BY <1>7, <1>8, <1>9, AssignPendingSound, SteadyTrans

\* A change to the record of s, on which nothing else depends.
LEMMA RecordStep ==
  ASSUME NEW i, NEW j \in InnerRecord, NEW s \in Streams, NEW extra, NEW extra2,
         NEW low, NEW low2, NEW due,
         SoundBut(i, s, extra, low, due), Scope(extra2, low2),
         \A t \in Streams : t # s => extra2[t] = extra[t] /\ low2[t] = low[t],
         Elsewhere(i, j, s), j.flow = i.flow, j.peer = i.peer,
         j.sendQ = i.sendQ, j.capacityQ = i.capacityQ,
         j.openQ = i.openQ, j.resetQ = i.resetQ,
         j.numStreams = i.numStreams, j.numResets = i.numResets,
         j.streams[s].place = i.streams[s].place,
         j.streams[s].counted = i.streams[s].counted,
         j.streams[s].flow.available = i.streams[s].flow.available
  PROVE  SoundBut(j, s, extra2, low2, due)
<1>1. i \in InnerRecord /\ Account(i, due) /\ Keys(i) /\ Slots(i) /\ Resets(i)
      /\ (IsServer(i) => i.openQ = <<>>)
  BY DEF SoundBut
<1>2. i.streams \in [Streams -> StreamRecord] /\ j.streams \in [Streams -> StreamRecord]
  BY <1>1 DEF InnerRecord
<1>3. \A t \in Streams : j.streams[t].flow.available = i.streams[t].flow.available
  BY DEF Elsewhere
<1>4. Account(j, due)
  BY <1>1, <1>2, <1>3, SharesEqual DEF Account
<1>5. Keys(j)
  BY <1>1 DEF Keys, InQueue, Elsewhere, IsStored
<1>6. Slots(j)
  BY <1>1, SlotsKept
<1>7. Resets(j) /\ (IsServer(j) => j.openQ = <<>>) /\ IsServer(j) = IsServer(i)
  BY <1>1 DEF Resets, IsServer
<1>8. \A t \in Streams : t # s => StreamSound(j.streams[t], extra2[t], low2[t], IsServer(j))
  BY <1>7 DEF SoundBut, Elsewhere
<1> QED
  BY <1>4, <1>5, <1>6, <1>7, <1>8 DEF SoundBut

\* The record of a stream that has given up sz octets of its share.
Less(r, sz) == [r EXCEPT !.flow = [r.flow EXCEPT !.available = r.flow.available - sz]]

LEMMA LessType ==
  ASSUME NEW r \in StreamRecord, NEW sz \in Int
  PROVE  /\ Less(r, sz) \in StreamRecord /\ Alike(r, Less(r, sz))
         /\ Less(r, sz).flow.available = r.flow.available - sz
         /\ Less(r, 0) = r
  BY DEF Less, StreamRecord, Flow, Alike

\* What s gives up goes to the others.
LEMMA ReclaimSound ==
  ASSUME NEW i, NEW s \in Streams, NEW extra, NEW low, NEW sz \in Int,
         SoundBut(i, s, extra, low, 0), IsStored(i.streams[s]),
         StoredSound(Less(i.streams[s], IF sz <= 0 THEN 0 ELSE sz), extra[s], low[s], IsServer(i))
  PROVE  Sound(Reclaim(i, s, sz), extra, low, 0) /\ Steady(i, Reclaim(i, s, sz))
<1> DEFINE r == i.streams[s]
           j == [i EXCEPT !.streams[s].flow = ClaimCapacity(@, sz)]
<1>1. i \in InnerRecord /\ r \in StreamRecord /\ i.streams \in [Streams -> StreamRecord]
      /\ Scope(extra, low) /\ Account(i, 0) /\ r.flow \in Flow
  BY DEF SoundBut, InnerRecord, StreamRecord
<1>2. CASE sz <= 0
  <2>1. Less(r, 0) = r
    BY <1>1, LessType
  <2>2. StreamSound(r, extra[s], low[s], IsServer(i))
    BY <1>2, <2>1 DEF StreamSound
  <2>3. Sound(i, extra, low, 0)
    BY <2>2, SoundAt
  <2> QED
    BY <1>2, <2>3, SteadyRefl DEF Reclaim
<1>3. CASE ~(sz <= 0)
  <2>1. StoredSound(Less(r, sz), extra[s], low[s], IsServer(i)) /\ sz \in Nat
    BY <1>3
  <2>2. Less(r, sz).flow.available \in 0 .. MaxWindow
    BY <2>1 DEF StoredSound, InBounds
  <2>3. r.flow.available - sz \in 0 .. MaxWindow /\ r.flow.available \in Int
    BY <1>1, <2>2, LessType DEF Flow
  <2>4. ClaimCapacity(r.flow, sz) = [r.flow EXCEPT !.available = r.flow.available - sz]
    BY <1>1, <2>3, MaxWindowAssumption DEF ClaimCapacity, CanClaim, MinWindow
  <2>5. [r EXCEPT !.flow = ClaimCapacity(r.flow, sz)] = Less(r, sz)
    BY <2>4 DEF Less
  <2>6. /\ j.streams = [i.streams EXCEPT ![s] = Less(r, sz)]
        /\ j.flow = i.flow /\ j.sendQ = i.sendQ /\ j.capacityQ = i.capacityQ /\ SameBooks(i, j)
    BY <1>1, <2>5 DEF InnerRecord, SameBooks
  <2>7. Less(r, sz) \in StreamRecord
    BY <1>1, LessType
  <2>8. j \in InnerRecord
    BY <1>1, <2>6, <2>7 DEF InnerRecord
  <2>9. Elsewhere(i, j, s) /\ j.streams[s] = Less(r, sz)
    BY <1>1, <2>6 DEF Elsewhere
  <2> HIDE DEF j
  <2>10. Alike(r, j.streams[s]) /\ j.streams[s].flow.available = r.flow.available - sz
    BY <1>1, <2>9, LessType
  <2>11. Sound(j, extra, low, sz)
    <3>1. StoredSound(j.streams[s], extra[s], low[s], IsServer(j))
      BY <2>1, <2>6, <2>9 DEF SameBooks, IsServer
    <3>2. KeysOf(i, j, s)
      BY <2>6 DEF KeysOf, InQueue, SameBooks
    <3>3. /\ i.flow.window \in Int /\ i.flow.available \in Int
          /\ i.flow.available >= 0 /\ i.flow.window <= MaxWindow
      BY <1>1 DEF InnerRecord, Flow, Account
    <3>4. j.flow.window - j.flow.available - j.streams[s].flow.available - sz
            = i.flow.window - i.flow.available - i.streams[s].flow.available - 0
      BY <2>3, <2>6, <2>10, <3>3
    <3>5. /\ j.peer = i.peer /\ j.openQ = i.openQ /\ j.resetQ = i.resetQ
          /\ j.numStreams = i.numStreams /\ j.numResets = i.numResets
          /\ j.streams[s].counted = i.streams[s].counted
          /\ j.flow.available >= 0 /\ j.flow.window <= MaxWindow
      BY <2>6, <2>10, <3>3 DEF SameBooks, Alike
    <3> QED
      BY <1>1, <2>1, <2>8, <2>9, <3>1, <3>2, <3>4, <3>5, StreamStep
  <2>12. Steady(i, j)
    BY <2>6, <2>9, <2>10 DEF Steady, Elsewhere, Alike
  <2>13. Reclaim(i, s, sz) = AssignConnection(j, sz)
    BY <1>3 DEF Reclaim, j
  <2> QED
    BY <2>11, <2>12, <2>13, AssignConnectionSound, SteadyTrans
<1> QED
  BY <1>2, <1>3

\* The same for all a stream has.
LEMMA ReclaimAllSound ==
  ASSUME NEW i, NEW s \in Streams, NEW extra, NEW low,
         SoundBut(i, s, extra, low, 0), IsStored(i.streams[s]),
         i.streams[s].flow.available >= 0,
         StoredSound(Less(i.streams[s], i.streams[s].flow.available), extra[s], low[s], IsServer(i))
  PROVE  Sound(ReclaimAll(i, s), extra, low, 0) /\ Steady(i, ReclaimAll(i, s))
<1> DEFINE sz == i.streams[s].flow.available
<1>1. sz \in Int
  BY DEF SoundBut, InnerRecord, StreamRecord, Flow
<1>2. (IF sz <= 0 THEN 0 ELSE sz) = sz
  BY <1>1
<1>3. ReclaimAll(i, s) = Reclaim(i, s, sz)
  BY DEF ReclaimAll
<1> HIDE DEF sz
<1>4. StoredSound(Less(i.streams[s], IF sz <= 0 THEN 0 ELSE sz), extra[s], low[s], IsServer(i))
  BY <1>2 DEF sz
<1> QED
  BY <1>1, <1>3, <1>4, ReclaimSound

----------------------------------------------------------------------------
(* What a handler does to its stream.                                      *)

\* "inner" with another record for s.
With(i, s, r) == [i EXCEPT !.streams[s] = r]

\* The codec goes on with its frame, or will drop the rest of it.
FlightKept(i, j) ==
  j.inFlight = i.inFlight \/ (i.inFlight \in Streams /\ j.inFlight = Drop)

\* A handler of stream s moves capacity of others and does nothing else to
\* them.
Kept(i, j, s) ==
  /\ j.peer = i.peer /\ j.initWindow = i.initWindow
  /\ j.maxStreams = i.maxStreams /\ j.maxStreamId = i.maxStreamId
  /\ FlightKept(i, j)
  /\ \A t \in Streams : t # s => Alike(i.streams[t], j.streams[t])

\* Before the transition at its end, it leaves its own stream in the store
\* and in pending_reset_expired.
Handled(i, j, s) ==
  /\ Kept(i, j, s)
  /\ IsStored(j.streams[s])
  /\ Contains(i.resetQ, s) => Contains(j.resetQ, s)

LEMMA HandledTrans ==
  ASSUME NEW i, NEW j, NEW k, NEW s, Handled(i, j, s), Handled(j, k, s)
  PROVE  Handled(i, k, s)
<1>1. FlightKept(i, k)
  <2>1. Drop \notin Streams
    BY StreamsType DEF Drop
  <2> QED
    BY <2>1 DEF Handled, Kept, FlightKept
<1> QED
  BY <1>1 DEF Handled, Kept, Alike

LEMMA KeptTrans ==
  ASSUME NEW i, NEW j, NEW k, NEW s, Kept(i, j, s), Kept(j, k, s)
  PROVE  Kept(i, k, s)
<1>1. FlightKept(i, k)
  <2>1. Drop \notin Streams
    BY StreamsType DEF Drop
  <2> QED
    BY <2>1 DEF Kept, FlightKept
<1> QED
  BY <1>1 DEF Kept, Alike

LEMMA SteadyHandled ==
  ASSUME NEW i, NEW j, NEW s \in Streams, Steady(i, j), IsStored(i.streams[s])
  PROVE  Handled(i, j, s)
  BY DEF Steady, SameBooks, Alike, Handled, Kept, FlightKept, IsStored

LEMMA WithFields ==
  ASSUME NEW i \in InnerRecord, NEW s \in Streams, NEW r \in StreamRecord
  PROVE  LET j == With(i, s, r)
         IN  /\ j \in InnerRecord
             /\ j.streams[s] = r /\ Elsewhere(i, j, s) /\ SameBooks(i, j)
             /\ j.flow = i.flow /\ j.sendQ = i.sendQ /\ j.capacityQ = i.capacityQ
  BY DEF With, InnerRecord, Elsewhere, SameBooks

\* The record of s may change while its place, its slot and its share stay.
LEMMA WithBut ==
  ASSUME NEW i, NEW s \in Streams, NEW extra, NEW extra2, NEW low, NEW due,
         SoundBut(i, s, extra, low, due), Scope(extra2, low),
         \A t \in Streams : t # s => extra2[t] = extra[t],
         NEW r \in StreamRecord,
         r.place = i.streams[s].place, r.counted = i.streams[s].counted,
         r.flow.available = i.streams[s].flow.available
  PROVE  SoundBut(With(i, s, r), s, extra2, low, due)
<1> DEFINE j == With(i, s, r)
<1>1. i \in InnerRecord
  BY DEF SoundBut
<1>2. /\ j \in InnerRecord
      /\ j.streams[s] = r /\ Elsewhere(i, j, s) /\ SameBooks(i, j)
      /\ j.flow = i.flow /\ j.sendQ = i.sendQ /\ j.capacityQ = i.capacityQ
  BY <1>1, WithFields
<1> HIDE DEF j
<1>3. \A t \in Streams : t # s => extra2[t] = extra[t] /\ low[t] = low[t]
  OBVIOUS
<1>4. /\ j.peer = i.peer /\ j.openQ = i.openQ /\ j.resetQ = i.resetQ
      /\ j.numStreams = i.numStreams /\ j.numResets = i.numResets
  BY <1>2 DEF SameBooks
<1>5. /\ j.streams[s].place = i.streams[s].place
      /\ j.streams[s].counted = i.streams[s].counted
      /\ j.streams[s].flow.available = i.streams[s].flow.available
  BY <1>2
<1> HIDE <1>3
<1>6. SoundBut(j, s, extra2, low, due)
  BY <1>2, <1>3, <1>4, <1>5, RecordStep
<1> QED
  BY <1>6 DEF j

LEMMA WithHandled ==
  ASSUME NEW i \in InnerRecord, NEW s \in Streams, NEW r \in StreamRecord, IsStored(r)
  PROVE  Handled(i, With(i, s, r), s)
  BY WithFields DEF Handled, Kept, FlightKept, SameBooks, Elsewhere, Alike

LEMMA SoundFrom ==
  ASSUME NEW i, NEW s \in Streams, NEW extra, NEW low, NEW due,
         SoundBut(i, s, extra, low, due),
         StoredSound(i.streams[s], extra[s], low[s], IsServer(i))
  PROVE  Sound(i, extra, low, due)
  BY SoundAt DEF StreamSound

\* schedule_send
LEMMA ScheduleSendBut ==
  ASSUME NEW i, NEW s \in Streams, NEW extra, NEW low, NEW due,
         SoundBut(i, s, extra, low, due), IsStored(i.streams[s])
  PROVE  LET j == ScheduleSend(i, s)
         IN  /\ SoundBut(j, s, extra, low, due)
             /\ j.streams = i.streams /\ j.flow = i.flow /\ SameBooks(i, j)
             /\ Steady(i, j)
<1> DEFINE j == ScheduleSend(i, s)
<1>1. CASE IsPendingOpen(i, s)
  BY <1>1, SteadyRefl DEF ScheduleSend, SameBooks
<1>2. CASE ~IsPendingOpen(i, s)
  <2>1. j = [i EXCEPT !.sendQ = Push(@, s)]
    BY <1>2 DEF ScheduleSend
  <2>2. i \in InnerRecord /\ i.sendQ \in Seq(Streams)
    BY DEF SoundBut, InnerRecord
  <2>3. /\ Push(i.sendQ, s) \in Seq(Streams)
        /\ \A t \in Streams : Contains(Push(i.sendQ, s), t) <=> Contains(i.sendQ, t) \/ t = s
    BY <2>2, PushQueue
  <2>4. /\ j.streams = i.streams /\ j.flow = i.flow /\ SameBooks(i, j)
        /\ j.sendQ = Push(i.sendQ, s) /\ j.capacityQ = i.capacityQ
    BY <2>1, <2>2 DEF InnerRecord, SameBooks
  <2>5. j \in InnerRecord
    BY <2>1, <2>2, <2>3 DEF InnerRecord
  <2> HIDE DEF j
  <2>6. Keys(j)
    BY <2>3, <2>4 DEF Keys, InQueue, SameBooks, SoundBut
  <2>7. Account(j, due) /\ Slots(j) /\ Resets(j) /\ Scope(extra, low)
        /\ IsServer(j) = IsServer(i) /\ (IsServer(j) => j.openQ = <<>>)
    BY <2>4 DEF SameBooks, SoundBut, Account, Slots, Resets, IsServer
  <2>8. SoundBut(j, s, extra, low, due)
    BY <2>4, <2>5, <2>6, <2>7 DEF SoundBut
  <2>9. Steady(i, j)
    BY <2>4 DEF Steady, Alike
  <2> QED
    BY <2>4, <2>8, <2>9 DEF j
<1> QED
  BY <1>1, <1>2

LEMMA ScheduleSendSound ==
  ASSUME NEW i, NEW s \in Streams, NEW extra, NEW low, NEW due,
         Sound(i, extra, low, due), IsStored(i.streams[s])
  PROVE  Sound(ScheduleSend(i, s), extra, low, due) /\ Steady(i, ScheduleSend(i, s))
<1> DEFINE j == ScheduleSend(i, s)
<1>1. SoundBut(i, s, extra, low, due) /\ StoredSound(i.streams[s], extra[s], low[s], IsServer(i))
  BY StoredAt
<1>2. /\ SoundBut(j, s, extra, low, due)
      /\ j.streams = i.streams /\ SameBooks(i, j) /\ Steady(i, j)
  BY <1>1, ScheduleSendBut
<1> HIDE DEF j
<1>3. StoredSound(j.streams[s], extra[s], low[s], IsServer(j))
  BY <1>1, <1>2 DEF SameBooks, IsServer
<1>4. Sound(j, extra, low, due)
  BY <1>2, <1>3, SoundFrom
<1> QED
  BY <1>2, <1>4 DEF j

WithState(r, st) == [r EXCEPT !.state = st]
Queued(r, frame) == [r EXCEPT !.queue = Append(@, frame)]
Cleared(r) == [r EXCEPT !.queue = <<>>, !.buffered = 0, !.requested = 0]

LEMMA RecordTypes ==
  ASSUME NEW r \in StreamRecord, NEW st \in States, NEW frame \in Frames
  PROVE  /\ WithState(r, st) \in StreamRecord
         /\ Queued(r, frame) \in StreamRecord
         /\ Cleared(r) \in StreamRecord
<1>1. r.queue \in Seq(Frames) /\ <<>> \in Seq(Frames)
  BY DEF StreamRecord
<1>2. Append(r.queue, frame) \in Seq(Frames)
  BY <1>1, OctetsOfAppend
<1>3. WithState(r, st) \in StreamRecord
  BY DEF WithState, StreamRecord
<1>4. Queued(r, frame) \in StreamRecord
  BY <1>2 DEF Queued, StreamRecord
<1>5. Cleared(r) \in StreamRecord
  <2>1. 0 \in Int
    OBVIOUS
  <2> DEFINE q == [r EXCEPT !.queue = <<>>]
  <2>2. q \in StreamRecord
    BY <1>1 DEF StreamRecord
  <2>3. Cleared(r) = [q EXCEPT !.buffered = 0, !.requested = 0]
    BY DEF Cleared, StreamRecord
  <2> HIDE DEF q
  <2> QED
    BY <2>1, <2>2, <2>3 DEF StreamRecord
<1> QED
  BY <1>3, <1>4, <1>5

LEMMA WithStateFields ==
  ASSUME NEW r \in StreamRecord, NEW st
  PROVE  /\ WithState(r, st).state = st
         /\ WithState(r, st).place = r.place /\ WithState(r, st).flow = r.flow
         /\ WithState(r, st).requested = r.requested /\ WithState(r, st).buffered = r.buffered
         /\ WithState(r, st).queue = r.queue /\ WithState(r, st).counted = r.counted
         /\ WithState(r, st).handle = r.handle
  BY DEF WithState, StreamRecord

LEMMA QueuedFields ==
  ASSUME NEW r \in StreamRecord, NEW frame
  PROVE  /\ Queued(r, frame).queue = Append(r.queue, frame)
         /\ Queued(r, frame).place = r.place /\ Queued(r, frame).flow = r.flow
         /\ Queued(r, frame).requested = r.requested /\ Queued(r, frame).buffered = r.buffered
         /\ Queued(r, frame).state = r.state /\ Queued(r, frame).counted = r.counted
         /\ Queued(r, frame).handle = r.handle
  BY DEF Queued, StreamRecord

LEMMA ClearedFields ==
  ASSUME NEW r \in StreamRecord
  PROVE  /\ Cleared(r).queue = <<>> /\ Cleared(r).requested = 0 /\ Cleared(r).buffered = 0
         /\ Cleared(r).place = r.place /\ Cleared(r).flow = r.flow
         /\ Cleared(r).state = r.state /\ Cleared(r).counted = r.counted
         /\ Cleared(r).handle = r.handle
  BY DEF Cleared, StreamRecord

LEMMA LessFields ==
  ASSUME NEW r \in StreamRecord, NEW sz \in Int
  PROVE  /\ Less(r, sz) \in StreamRecord
         /\ Less(r, sz).flow.window = r.flow.window
         /\ Less(r, sz).flow.available = r.flow.available - sz
         /\ Less(r, sz).place = r.place /\ Less(r, sz).state = r.state
         /\ Less(r, sz).requested = r.requested /\ Less(r, sz).buffered = r.buffered
         /\ Less(r, sz).queue = r.queue /\ Less(r, sz).counted = r.counted
         /\ Less(r, sz).handle = r.handle
  BY LessType DEF Alike

\* What is left of StoredSound while a stream is taken apart.
Sortable(r, low) ==
  r \in StreamRecord /\ IsStored(r) /\ InBounds(r) /\ Linking(r, low)

LEMMA StoredSortable ==
  ASSUME NEW r, NEW extra, NEW low, NEW server, StoredSound(r, extra, low, server)
  PROVE  Sortable(r, low)
  BY DEF StoredSound, Sortable

LEMMA StateSortable ==
  ASSUME NEW r, NEW low, Sortable(r, low), NEW st, Ensues(r.state, st)
  PROVE  Sortable(WithState(r, st), low)
<1>1. r \in StreamRecord /\ IsStored(r) /\ InBounds(r) /\ Linking(r, low) /\ st \in States
  BY DEF Sortable, Ensues
<1>2. WithState(r, st) \in StreamRecord
  BY <1>1 DEF WithState, StreamRecord
<1>3. IsStored(WithState(r, st)) /\ InBounds(WithState(r, st))
  BY <1>1, WithStateFields DEF IsStored, InBounds
<1>4. Linking(WithState(r, st), low)
  BY <1>1, WithStateFields DEF Linking, CannotSend, Ensues
<1> QED
  BY <1>2, <1>3, <1>4 DEF Sortable

LEMMA StateSound ==
  ASSUME NEW r, NEW extra, NEW low, NEW server, StoredSound(r, extra, low, server),
         NEW st, Ensues(r.state, st), server => Settled(WithState(r, st))
  PROVE  StoredSound(WithState(r, st), extra, low, server)
<1>1. /\ r \in StreamRecord /\ Fits(r) /\ Unasked(r) /\ r.buffered = Octets(r.queue) + extra
      /\ Sortable(WithState(r, st), low)
  BY StoredSortable, StateSortable DEF StoredSound
<1>2. Fits(WithState(r, st)) /\ Unasked(WithState(r, st))
      /\ WithState(r, st).buffered = Octets(WithState(r, st).queue) + extra
  BY <1>1, WithStateFields DEF Fits, Unasked, Ensues
<1> QED
  BY <1>1, <1>2 DEF StoredSound, Sortable

LEMMA ReceivingSound ==
  ASSUME NEW r, NEW extra, NEW low, NEW server, StoredSound(r, extra, low, server),
         NEW st, Receiving(r.state, st)
  PROVE  StoredSound(WithState(r, st), extra, low, server)
<1>1. r \in StreamRecord /\ (server => Settled(r))
  BY DEF StoredSound
<1>2. server => Settled(WithState(r, st))
  BY <1>1, WithStateFields DEF Settled, Receiving
<1> QED
  BY <1>2, StateSound DEF Receiving

\* A frame joins the queue, and with it the octets that were counted apart.
LEMMA QueuedSound ==
  ASSUME NEW r, NEW extra \in Nat, NEW low, NEW server, StoredSound(r, extra, low, server),
         NEW frame \in Frames, frame.sz <= extra
  PROVE  StoredSound(Queued(r, frame), extra - frame.sz, low, server)
<1> DEFINE r2 == Queued(r, frame)
<1>1. /\ r \in StreamRecord /\ IsStored(r) /\ InBounds(r) /\ Fits(r) /\ Unasked(r)
      /\ (server => Settled(r)) /\ r.buffered = Octets(r.queue) + extra /\ Linking(r, low)
  BY DEF StoredSound
<1>2. r.queue \in Seq(Frames) /\ frame.sz \in Int
  BY <1>1 DEF StreamRecord, Frames
<1>3. r2 \in StreamRecord
  <2>1. Append(r.queue, frame) \in Seq(Frames)
    BY <1>2, OctetsOfAppend
  <2> QED
    BY <1>1, <2>1 DEF Queued, StreamRecord
<1>4. /\ r2.queue = Append(r.queue, frame)
      /\ r2.place = r.place /\ r2.flow = r.flow
      /\ r2.requested = r.requested /\ r2.buffered = r.buffered
      /\ r2.state = r.state /\ r2.counted = r.counted
  BY <1>1, QueuedFields
<1> HIDE DEF r2
<1>5. IsStored(r2) /\ InBounds(r2) /\ Fits(r2) /\ Unasked(r2) /\ (server => Settled(r2))
      /\ Linking(r2, low)
  BY <1>1, <1>4 DEF IsStored, InBounds, Fits, Unasked, Settled, Linking, CannotSend
<1>6. r2.buffered = Octets(r2.queue) + (extra - frame.sz)
  <2>1. Octets(r2.queue) = Octets(r.queue) + frame.sz /\ Octets(r.queue) \in Nat
    BY <1>2, <1>4, OctetsOfAppend, OctetsType
  <2> QED
    BY <1>1, <1>2, <1>4, <2>1
<1>7. StoredSound(r2, extra - frame.sz, low, server)
  BY <1>3, <1>5, <1>6 DEF StoredSound
<1> QED
  BY <1>7 DEF r2

\* A stream whose queue and whose share are gone.
LEMMA DrainedSound ==
  ASSUME NEW r, NEW r2 \in StreamRecord, NEW low, NEW server, Sortable(r, low),
         r2.place = r.place, r2.state = r.state, r2.flow.window = r.flow.window,
         r2.flow.available = 0, r2.requested = 0, r2.buffered = 0, Octets(r2.queue) = 0
  PROVE  StoredSound(r2, 0, low, server)
<1>1. r \in StreamRecord /\ IsStored(r) /\ InBounds(r) /\ Linking(r, low)
  BY DEF Sortable
<1>2. r2.flow.window \in Int
  BY DEF StreamRecord, Flow
<1>3. Fits(r2)
  BY <1>2 DEF Fits, WindowSize, AsSize
<1>4. IsStored(r2) /\ InBounds(r2) /\ Unasked(r2) /\ Settled(r2)
  BY <1>1, MaxWindowAssumption, SendAssumption DEF IsStored, InBounds, Unasked, Settled
<1>5. Linking(r2, low)
  BY <1>1 DEF Linking, CannotSend
<1> QED
  BY <1>3, <1>4, <1>5 DEF StoredSound

----------------------------------------------------------------------------
(* The end of a stream.                                                    *)

\* What clearing a queue and giving up the share does to a stream.
Failed(i, j, s) ==
  /\ j.peer = i.peer /\ j.initWindow = i.initWindow
  /\ j.maxStreams = i.maxStreams /\ j.maxStreamId = i.maxStreamId
  /\ j.numStreams = i.numStreams /\ j.numResets = i.numResets
  /\ j.openQ = i.openQ /\ j.resetQ = i.resetQ
  /\ j.inFlight = IF i.inFlight = s THEN Drop ELSE i.inFlight
  /\ \A t \in Streams : t # s => Alike(i.streams[t], j.streams[t])
  /\ Alike(Cleared(i.streams[s]), j.streams[s])

LEMMA ClearQueueBut ==
  ASSUME NEW i, NEW s \in Streams, NEW extra, NEW low,
         SoundBut(i, s, extra, low, 0)
  PROVE  LET j == ClearQueue(i, s)
         IN  /\ SoundBut(j, s, [extra EXCEPT ![s] = 0], low, 0)
             /\ j.streams[s] = Cleared(i.streams[s])
             /\ Failed(i, j, s)
<1> DEFINE j == ClearQueue(i, s)
           r == i.streams[s]
           extra2 == [extra EXCEPT ![s] = 0]
<1>1. i \in InnerRecord /\ Scope(extra, low) /\ i.streams \in [Streams -> StreamRecord]
      /\ r \in StreamRecord
  BY DEF SoundBut, InnerRecord
<1>2. Cleared(r) \in StreamRecord /\ Cleared(r).place = r.place
      /\ Cleared(r).counted = r.counted /\ Cleared(r).flow = r.flow
  <2>1. PICK frame : frame \in Frames
    <3>1. Frame("data", 0, TRUE) \in Frames
      BY MaxWindowAssumption DEF Frames, Frame, Kinds
    <3> QED
      BY <3>1
  <2>2. Idle \in States
    BY DEF States
  <2> QED
    BY <1>1, <2>1, <2>2, RecordTypes, ClearedFields
<1>3. /\ j.streams = [i.streams EXCEPT ![s] = Cleared(r)]
      /\ j.flow = i.flow /\ j.peer = i.peer /\ j.initWindow = i.initWindow
      /\ j.maxStreams = i.maxStreams /\ j.maxStreamId = i.maxStreamId
      /\ j.sendQ = i.sendQ /\ j.capacityQ = i.capacityQ
      /\ j.openQ = i.openQ /\ j.resetQ = i.resetQ
      /\ j.numStreams = i.numStreams /\ j.numResets = i.numResets
      /\ j.inFlight = IF i.inFlight = s THEN Drop ELSE i.inFlight
  BY <1>1 DEF ClearQueue, Cleared, InnerRecord
<1>4. j \in InnerRecord
  <2> DEFINE w == With(i, s, Cleared(r))
             flight == IF i.inFlight = s THEN Drop ELSE i.inFlight
  <2>1. w \in InnerRecord
    BY <1>1, <1>2, WithFields
  <2>2. flight \in Streams \cup {Nothing, Drop}
    BY <1>1 DEF InnerRecord
  <2>3. j = [w EXCEPT !.inFlight = flight]
    BY <1>1 DEF ClearQueue, Cleared, With, InnerRecord
  <2> HIDE DEF w, flight, j
  <2> QED
    BY <2>1, <2>2, <2>3 DEF InnerRecord
<1> HIDE DEF j
<1>5. Elsewhere(i, j, s) /\ j.streams[s] = Cleared(r)
  BY <1>1, <1>3 DEF Elsewhere
<1>9. /\ j.streams[s].place = i.streams[s].place
      /\ j.streams[s].counted = i.streams[s].counted
      /\ j.streams[s].flow.available = i.streams[s].flow.available
  BY <1>2, <1>5
<1>6. Scope(extra2, low) /\ \A t \in Streams : t # s => extra2[t] = extra[t] /\ low[t] = low[t]
  BY <1>1 DEF Scope
<1> HIDE DEF extra2
<1>7. SoundBut(j, s, extra2, low, 0)
  BY <1>3, <1>4, <1>5, <1>6, <1>9, RecordStep, ZenonT(60)
<1>8. Failed(i, j, s)
  BY <1>3, <1>5 DEF Failed, Elsewhere, Alike
<1> QED
  BY <1>5, <1>7, <1>8 DEF j, extra2

\* The sending half of a stream is torn down: Send::handle_error.
LEMMA FailSendingSound ==
  ASSUME NEW i, NEW s \in Streams, NEW extra, NEW low,
         SoundBut(i, s, extra, low, 0), Sortable(i.streams[s], low[s])
  PROVE  /\ Sound(FailSending(i, s), [extra EXCEPT ![s] = 0], low, 0)
         /\ Failed(i, FailSending(i, s), s)
<1> DEFINE c == ClearQueue(i, s)
           r == i.streams[s]
           r2 == Cleared(r)
           sz == r2.flow.available
           extra2 == [extra EXCEPT ![s] = 0]
<1>1. SoundBut(c, s, extra2, low, 0) /\ c.streams[s] = r2 /\ Failed(i, c, s)
  BY ClearQueueBut
<1>2. r \in StreamRecord /\ IsStored(r) /\ InBounds(r)
  BY DEF Sortable
<1>3. /\ r2 \in StreamRecord
      /\ r2.place = r.place /\ r2.flow = r.flow /\ r2.state = r.state
      /\ r2.queue = <<>> /\ r2.buffered = 0 /\ r2.requested = 0
  BY <1>1, <1>2, ClearedFields, SMTT(30) DEF SoundBut, InnerRecord
<1>4. extra2[s] = 0
  BY DEF SoundBut, Scope
<1> HIDE DEF c, r2, extra2
<1>5. sz \in Nat
  BY <1>2, <1>3, MaxWindowAssumption DEF InBounds
<1>6. StoredSound(Less(r2, sz), 0, low[s], IsServer(c))
  <2>1. /\ Less(r2, sz) \in StreamRecord /\ Less(r2, sz).flow.window = r2.flow.window
        /\ Less(r2, sz).flow.available = sz - sz
        /\ Less(r2, sz).place = r2.place /\ Less(r2, sz).state = r2.state
        /\ Less(r2, sz).requested = 0 /\ Less(r2, sz).buffered = 0
        /\ Less(r2, sz).queue = <<>>
    <3>1. r2 \in StreamRecord /\ sz \in Int /\ r2.flow.available = sz
      BY <1>3, <1>5
    <3> HIDE DEF sz
    <3> QED
      BY <1>3, <3>1, LessFields
  <2>2. Octets(<<>>) = 0
    <3>1. <<>> \in Seq(Frames)
      OBVIOUS
    <3> QED
      BY <3>1, OctetsType
  <2> QED
    BY <1>2, <1>3, <1>5, <2>1, <2>2, DrainedSound
<1>7. IsStored(c.streams[s]) /\ c.streams[s].flow.available >= 0
  BY <1>1, <1>2, <1>3, <1>5 DEF IsStored
<1>8. StoredSound(Less(c.streams[s], c.streams[s].flow.available), extra2[s], low[s], IsServer(c))
  BY <1>1, <1>4, <1>6
<1>9. Sound(ReclaimAll(c, s), extra2, low, 0) /\ Steady(c, ReclaimAll(c, s))
  BY <1>1, <1>7, <1>8, ReclaimAllSound
<1>10. FailSending(i, s) = ReclaimAll(c, s)
  BY DEF FailSending, c
<1> DEFINE j == ReclaimAll(c, s)
<1> HIDE DEF j
<1>11. Steady(c, j)
  BY <1>9 DEF j
<1>12. Failed(i, j, s)
  BY <1>1, <1>11 DEF Failed, Steady, SameBooks, Alike
<1> QED
  BY <1>9, <1>10, <1>12 DEF j, extra2

LEMMA FailedHandled ==
  ASSUME NEW i \in InnerRecord, NEW j, NEW s \in Streams, Failed(i, j, s), IsStored(i.streams[s])
  PROVE  Handled(i, j, s)
<1>1. i.streams[s] \in StreamRecord
  BY DEF InnerRecord
<1>2. Cleared(i.streams[s]).place = i.streams[s].place
  BY <1>1, ClearedFields
<1> QED
  BY <1>2 DEF Failed, Handled, Kept, FlightKept, IsStored, Alike

----------------------------------------------------------------------------
(* Counts::transition_after.                                               *)

\* What a transition leaves of a flushed stream, before it is released.
Left(i, s) ==
  [i.streams[s] EXCEPT !.place = IF ~IsPendingReset(i, s) THEN "unlinked" ELSE @,
                       !.counted = @ /\ ~GivesSlotBack(i.streams[s])]

LEMMA LeftFields ==
  ASSUME NEW i \in InnerRecord, NEW s \in Streams, IsStored(i.streams[s])
  PROVE  LET r == i.streams[s]
             r2 == Left(i, s)
         IN  /\ r2 \in StreamRecord /\ IsStored(r2)
             /\ r2.place \in {r.place, "unlinked"}
             /\ r2.state = r.state /\ r2.handle = r.handle /\ r2.flow = r.flow
             /\ r2.requested = r.requested /\ r2.buffered = r.buffered /\ r2.queue = r.queue
             /\ Takes(r2) = Takes(r) - IF GivesSlotBack(r) THEN 1 ELSE 0
<1> DEFINE r == i.streams[s]
           r2 == Left(i, s)
<1>1. r \in StreamRecord /\ r.counted \in BOOLEAN
  BY DEF InnerRecord, StreamRecord
<1>2. /\ r2.place = IF ~IsPendingReset(i, s) THEN "unlinked" ELSE r.place
      /\ r2.counted = (r.counted /\ ~GivesSlotBack(r))
      /\ r2.state = r.state /\ r2.handle = r.handle /\ r2.flow = r.flow
      /\ r2.requested = r.requested /\ r2.buffered = r.buffered /\ r2.queue = r.queue
  BY <1>1 DEF Left, StreamRecord
<1>3. r2 \in StreamRecord
  <2>1. "unlinked" \in Place
    BY DEF Place
  <2>2. (r.counted /\ ~GivesSlotBack(r)) \in BOOLEAN
    OBVIOUS
  <2> HIDE DEF r
  <2> QED
    BY <1>1, <2>1, <2>2 DEF Left, StreamRecord, r
<1>4. Takes(r2) = Takes(r) - IF GivesSlotBack(r) THEN 1 ELSE 0
  <2>1. CASE GivesSlotBack(r)
    <3>1. r.counted = TRUE /\ r2.counted = FALSE
      BY <1>1, <1>2, <2>1 DEF GivesSlotBack
    <3>2. Takes(r) = 1 /\ Takes(r2) = 0
      BY <3>1 DEF Takes
    <3> QED
      BY <2>1, <3>2
  <2>2. CASE ~GivesSlotBack(r)
    <3>1. r2.counted = r.counted
      BY <1>1, <1>2, <2>2
    <3>2. Takes(r2) = Takes(r) /\ Takes(r) \in Nat
      BY <3>1 DEF Takes
    <3> HIDE DEF r2, r
    <3> QED
      BY <2>2, <3>2
  <2> QED
    BY <2>1, <2>2
<1> QED
  BY <1>2, <1>3, <1>4 DEF IsStored

LEMMA TransitionFields ==
  ASSUME NEW i \in InnerRecord, NEW s \in Streams, NEW wasReset \in BOOLEAN,
         IsFlushed(i.streams[s]), IsStored(i.streams[s])
  PROVE  LET j == TransitionAfter(i, s, wasReset)
         IN  /\ j \in InnerRecord
             /\ j.flow = i.flow /\ j.sendQ = i.sendQ /\ j.capacityQ = i.capacityQ
             /\ j.openQ = i.openQ /\ j.resetQ = i.resetQ
             /\ j.peer = i.peer /\ j.initWindow = i.initWindow
             /\ j.maxStreams = i.maxStreams /\ j.maxStreamId = i.maxStreamId
             /\ j.inFlight = i.inFlight
             /\ j.numStreams = i.numStreams - IF GivesSlotBack(i.streams[s]) THEN 1 ELSE 0
             /\ j.numResets = i.numResets
                                - IF wasReset /\ ~IsPendingReset(i, s) THEN 1 ELSE 0
             /\ \/ j.streams = [i.streams EXCEPT ![s] = Left(i, s)]
                \/ /\ j.streams = [i.streams EXCEPT ![s] = Removed(Left(i, s))]
                   /\ ~InQueue(i, s)
<1> DEFINE r == i.streams[s]
           uncounts == GivesSlotBack(r)
           unlinks == ~IsPendingReset(i, s)
           j == [i EXCEPT
              !.streams[s].place = IF unlinks THEN "unlinked" ELSE @,
              !.streams[s].counted = @ /\ ~uncounts,
              !.numStreams = IF uncounts THEN @ - 1 ELSE @,
              !.numResets = IF unlinks /\ wasReset THEN @ - 1 ELSE @]
           k == [j EXCEPT !.streams[s] = Removed(@)]
           r2 == Left(i, s)
<1>1. r \in StreamRecord /\ i.streams \in [Streams -> StreamRecord]
      /\ i.numStreams \in Int /\ i.numResets \in Int
  BY DEF InnerRecord
<1>2. r2 \in StreamRecord
  BY LeftFields
<1>3. TransitionAfter(i, s, wasReset) = IF IsReleased(j, s) THEN k ELSE j
  BY DEF TransitionAfter
<1>4. [[r EXCEPT !.place = IF unlinks THEN "unlinked" ELSE @] EXCEPT !.counted = @ /\ ~uncounts] = r2
  BY <1>1 DEF Left, StreamRecord
<1>11. j.streams = [i.streams EXCEPT ![s] = r2]
  <2> DEFINE place == IF unlinks THEN "unlinked" ELSE r.place
             counted == r.counted /\ ~uncounts
  <2>1. j.streams = [i.streams EXCEPT ![s] = [[r EXCEPT !.place = place] EXCEPT !.counted = counted]]
    <3> HIDE DEF uncounts, unlinks
    <3> QED
      BY <1>1 DEF InnerRecord, StreamRecord
  <2>2. r2 = [[r EXCEPT !.place = place] EXCEPT !.counted = counted]
    <3> HIDE DEF uncounts, unlinks
    <3> QED
      BY <1>1, <1>4 DEF StreamRecord
  <2> QED
    BY <2>1, <2>2
<1>5. /\ j.streams = [i.streams EXCEPT ![s] = r2]
      /\ j.flow = i.flow /\ j.sendQ = i.sendQ /\ j.capacityQ = i.capacityQ
      /\ j.openQ = i.openQ /\ j.resetQ = i.resetQ
      /\ j.peer = i.peer /\ j.initWindow = i.initWindow
      /\ j.maxStreams = i.maxStreams /\ j.maxStreamId = i.maxStreamId
      /\ j.inFlight = i.inFlight
      /\ j.numStreams = i.numStreams - IF uncounts THEN 1 ELSE 0
      /\ j.numResets = i.numResets - IF wasReset /\ unlinks THEN 1 ELSE 0
  <2> HIDE DEF uncounts, unlinks
  <2> QED
    BY <1>1, <1>11 DEF InnerRecord
<1>6. j \in InnerRecord
  <2>1. j.numStreams \in Int /\ j.numResets \in Int /\ j.streams \in [Streams -> StreamRecord]
    BY <1>1, <1>2, <1>5
  <2> QED
    BY <1>5, <2>1 DEF InnerRecord
<1> HIDE DEF j
<1>7. Removed(r2) \in StreamRecord
  <2>1. Idle \in States /\ <<>> \in Seq(Frames) /\ "removed" \in Place /\ "dropped" \in Handle
    BY DEF States, Place, Handle
  <2>2. r2.flow.available \in Int
    BY <1>2 DEF StreamRecord, Flow
  <2> HIDE DEF r2
  <2>3. NewStream("removed", "dropped", 0) \in StreamRecord
    BY <2>1 DEF NewStream, StreamRecord, Flow
  <2> DEFINE n == NewStream("removed", "dropped", 0)
  <2>6. n.flow = [window |-> 0, available |-> 0]
    BY DEF NewStream
  <2>7. Removed(r2) = [n EXCEPT !.flow = [n.flow EXCEPT !.available = r2.flow.available]]
    BY DEF Removed
  <2>4. Removed(r2) = [n EXCEPT !.flow = [window |-> 0, available |-> r2.flow.available]]
    <3> HIDE DEF n
    <3>1. [n.flow EXCEPT !.available = r2.flow.available] = [window |-> 0, available |-> r2.flow.available]
      BY <2>6
    <3> QED
      BY <2>7, <3>1
  <2>5. [window |-> 0, available |-> r2.flow.available] \in Flow
    BY <2>2 DEF Flow
  <2> QED
    BY <2>3, <2>4, <2>5 DEF StreamRecord
<1>12. k = With(j, s, Removed(r2))
  BY <1>1, <1>5 DEF With
<1>8. /\ k.streams = [i.streams EXCEPT ![s] = Removed(r2)]
      /\ k.flow = j.flow /\ k.sendQ = j.sendQ /\ k.capacityQ = j.capacityQ
      /\ k.openQ = j.openQ /\ k.resetQ = j.resetQ
      /\ k.peer = j.peer /\ k.initWindow = j.initWindow
      /\ k.maxStreams = j.maxStreams /\ k.maxStreamId = j.maxStreamId
      /\ k.inFlight = j.inFlight
      /\ k.numStreams = j.numStreams /\ k.numResets = j.numResets
  BY <1>1, <1>5, <1>6 DEF InnerRecord
<1>9. k \in InnerRecord
  BY <1>6, <1>7, <1>12, WithFields
<1>10. IsReleased(j, s) => ~InQueue(i, s)
  BY <1>5 DEF IsReleased, InQueue
<1> HIDE DEF k
<1> QED
  BY <1>3, <1>5, <1>6, <1>8, <1>9, <1>10

LEMMA RemovedFields ==
  ASSUME NEW r \in StreamRecord
  PROVE  /\ Removed(r).place = "removed" /\ Removed(r).counted = FALSE
         /\ Removed(r).requested = 0 /\ Removed(r).buffered = 0
         /\ Removed(r).flow.window = 0 /\ Removed(r).flow.available = r.flow.available
  BY DEF Removed, NewStream

\* What a transition leaves is sound: a stream that leaves the store has
\* nothing to write, and on a server no share of the capacity either.
LEMMA LeftSound ==
  ASSUME NEW i, NEW s \in Streams, NEW extra, NEW low, NEW due,
         Sound(i, extra, low, due), IsStored(i.streams[s]), IsFlushed(i.streams[s])
  PROVE  /\ StoredSound(Left(i, s), extra[s], low[s], IsServer(i))
         /\ Removed(Left(i, s)) \in StreamRecord =>
              AbsentSound(Removed(Left(i, s)), extra[s], IsServer(i))
<1> DEFINE r == i.streams[s]
           r2 == Left(i, s)
<1>1. StoredSound(r, extra[s], low[s], IsServer(i)) /\ i \in InnerRecord /\ extra \in [Streams -> Nat]
  BY StoredAt, SoundType
<1>2. /\ r2 \in StreamRecord /\ IsStored(r2)
      /\ r2.place \in {r.place, "unlinked"}
      /\ r2.state = r.state /\ r2.flow = r.flow
      /\ r2.requested = r.requested /\ r2.buffered = r.buffered /\ r2.queue = r.queue
  BY <1>1, LeftFields
<1>3. IsClosed(r.state) /\ r.buffered = 0 /\ r.queue = <<>> /\ r.state \in States
  BY <1>1 DEF IsFlushed, StoredSound, StreamRecord
<1>4. IsSendClosed(r.state)
  BY <1>3, StateKinds
<1> HIDE DEF r2, r
<1>5. /\ InBounds(r) /\ Fits(r) /\ Unasked(r) /\ (IsServer(i) => Settled(r))
      /\ r.buffered = Octets(r.queue) + extra[s] /\ Linking(r, low[s])
  BY <1>1 DEF StoredSound
<1>6. /\ InBounds(r2) /\ Fits(r2) /\ Unasked(r2) /\ (IsServer(i) => Settled(r2))
      /\ r2.buffered = Octets(r2.queue) + extra[s]
  BY <1>2, <1>5 DEF InBounds, Fits, WindowSize, Unasked, Settled
<1>7. Linking(r2, low[s])
  BY <1>2, <1>3, <1>4, <1>5 DEF Linking, CannotSend
<1>8. StoredSound(r2, extra[s], low[s], IsServer(i))
  BY <1>2, <1>6, <1>7 DEF StoredSound
<1>9. extra[s] = 0
  <2>1. Octets(<<>>) = 0 /\ extra[s] \in Nat
    <3>1. <<>> \in Seq(Frames)
      OBVIOUS
    <3> QED
      BY <1>1, <3>1, OctetsType
  <2> QED
    BY <1>3, <1>5, <2>1
<1>10. IsServer(i) => r2.flow.available = 0
  BY <1>2, <1>3, <1>4, <1>5 DEF Settled
<1>11. ASSUME Removed(r2) \in StreamRecord PROVE AbsentSound(Removed(r2), extra[s], IsServer(i))
  <2>1. /\ Removed(r2).place = "removed"
        /\ Removed(r2).requested = 0 /\ Removed(r2).buffered = 0
        /\ Removed(r2).flow.window = 0 /\ Removed(r2).flow.available = r2.flow.available
    BY <1>2, RemovedFields
  <2>2. InBounds(Removed(r2))
    BY <1>6, <2>1, MaxWindowAssumption, SendAssumption DEF InBounds
  <2> QED
    BY <1>9, <1>10, <1>11, <2>1, <2>2 DEF AbsentSound
<1> QED
  BY <1>8, <1>11 DEF r2

\* A stream that was reset is counted until it is no longer in
\* pending_reset_expired, so a transition may give its place back.
WasReset(i, s, wasReset) ==
  wasReset => Contains(i.resetQ, s) \/ Len(i.resetQ) < i.numResets

\* Only the record of s and the two counters change.
Settles(i, j, s) ==
  /\ Elsewhere(i, j, s)
  /\ j.flow = i.flow /\ j.sendQ = i.sendQ /\ j.capacityQ = i.capacityQ
  /\ j.openQ = i.openQ /\ j.resetQ = i.resetQ
  /\ j.peer = i.peer /\ j.initWindow = i.initWindow
  /\ j.maxStreams = i.maxStreams /\ j.maxStreamId = i.maxStreamId
  /\ j.inFlight = i.inFlight
  /\ ~IsFlushed(i.streams[s]) => j = i
  /\ IsFlushed(i.streams[s]) /\ IsStored(j.streams[s]) =>
       IsFlushed(j.streams[s]) /\ j.streams[s].state = i.streams[s].state
  /\ j.streams[s].place # "new"

LEMMA TransitionAfterSound ==
  ASSUME NEW i, NEW s \in Streams, NEW extra, NEW low, NEW due, NEW wasReset \in BOOLEAN,
         Sound(i, extra, low, due), IsStored(i.streams[s]), WasReset(i, s, wasReset)
  PROVE  /\ Sound(TransitionAfter(i, s, wasReset), extra, low, due)
         /\ Settles(i, TransitionAfter(i, s, wasReset), s)
<1> DEFINE j == TransitionAfter(i, s, wasReset)
           r == i.streams[s]
           r2 == j.streams[s]
<1>1. /\ i \in InnerRecord /\ i.streams \in [Streams -> StreamRecord]
      /\ r \in StreamRecord /\ r.place # "new"
  BY SoundType DEF IsStored
<1>2. CASE ~IsFlushed(r)
  <2>1. j = i
    BY <1>1, <1>2, TransitionIdle
  <2> QED
    BY <1>1, <1>2, <2>1 DEF Settles, Elsewhere
<1>3. CASE IsFlushed(r)
  <2>1. /\ j \in InnerRecord
        /\ j.flow = i.flow /\ j.sendQ = i.sendQ /\ j.capacityQ = i.capacityQ
        /\ j.openQ = i.openQ /\ j.resetQ = i.resetQ
        /\ j.peer = i.peer /\ j.initWindow = i.initWindow
        /\ j.maxStreams = i.maxStreams /\ j.maxStreamId = i.maxStreamId
        /\ j.inFlight = i.inFlight
        /\ j.numStreams = i.numStreams - IF GivesSlotBack(r) THEN 1 ELSE 0
        /\ j.numResets = i.numResets
                           - IF wasReset /\ ~IsPendingReset(i, s) THEN 1 ELSE 0
        /\ \/ j.streams = [i.streams EXCEPT ![s] = Left(i, s)]
           \/ /\ j.streams = [i.streams EXCEPT ![s] = Removed(Left(i, s))]
              /\ ~InQueue(i, s)
    BY <1>1, <1>3, TransitionFields
  <2> HIDE DEF j
  <2>2. /\ Left(i, s) \in StreamRecord /\ IsStored(Left(i, s))
        /\ Left(i, s).state = r.state /\ Left(i, s).flow = r.flow
        /\ Left(i, s).buffered = r.buffered /\ Left(i, s).queue = r.queue
        /\ Takes(Left(i, s)) = Takes(r) - IF GivesSlotBack(r) THEN 1 ELSE 0
    BY <1>1, LeftFields
  <2>3. /\ Removed(Left(i, s)).place = "removed" /\ Removed(Left(i, s)).counted = FALSE
        /\ Removed(Left(i, s)).flow.available = r.flow.available
    BY <2>2, RemovedFields
  <2>4. Elsewhere(i, j, s) /\ r2 \in {Left(i, s), Removed(Left(i, s))} /\ r2 \in StreamRecord
        /\ (r2 = Left(i, s) \/ (r2 = Removed(Left(i, s)) /\ ~InQueue(i, s)))
    BY <1>1, <2>1 DEF Elsewhere, InnerRecord
  <2> HIDE DEF r2, r
  <2>5. /\ r2.flow.available = r.flow.available /\ r2.place # "new"
        /\ Takes(r2) <= Takes(r) - IF GivesSlotBack(r) THEN 1 ELSE 0
        /\ Takes(r2) \in Nat
        /\ IsStored(r2) => r2 = Left(i, s)
    <3>1. CASE r2 = Left(i, s)
      <4>1. Takes(r2) \in Nat
        BY DEF Takes
      <4> QED
        BY <2>2, <3>1, <4>1 DEF IsStored
    <3>2. CASE r2 = Removed(Left(i, s))
      <4>1. Takes(r2) = 0
        BY <2>3, <3>2 DEF Takes
      <4>2. Takes(Left(i, s)) \in Nat
        BY DEF Takes
      <4> QED
        BY <2>2, <2>3, <3>2, <4>1, <4>2 DEF IsStored
    <3> QED
      BY <2>4, <3>1, <3>2
  <2>6. \A t \in Streams : t # Nobody => StreamSound(j.streams[t], extra[t], low[t], IsServer(j))
    <3>1. IsServer(j) = IsServer(i)
      BY <2>1 DEF IsServer
    <3>2. StreamSound(r2, extra[s], low[s], IsServer(i))
      <4>1. /\ StoredSound(Left(i, s), extra[s], low[s], IsServer(i))
            /\ Removed(Left(i, s)) \in StreamRecord =>
                 AbsentSound(Removed(Left(i, s)), extra[s], IsServer(i))
        BY <1>3, LeftSound DEF r
      <4> QED
        BY <2>4, <4>1 DEF StreamSound
    <3> SUFFICES ASSUME NEW t \in Streams
                 PROVE  StreamSound(j.streams[t], extra[t], low[t], IsServer(j))
      OBVIOUS
    <3>3. CASE t = s
      BY <3>1, <3>2, <3>3 DEF r2
    <3>4. CASE t # s
      <4>1. StreamSound(i.streams[t], extra[t], low[t], IsServer(i))
        BY SoundAt
      <4> QED
        BY <2>4, <3>1, <3>4, <4>1 DEF Elsewhere
    <3> QED
      BY <3>3, <3>4
  <2>7. /\ Account(i, due) /\ Keys(i) /\ Slots(i) /\ Resets(i) /\ Scope(extra, low)
        /\ (IsServer(i) => i.openQ = <<>>)
    BY DEF Sound, SoundBut
  <2>8. Account(j, due)
    <3>1. \A t \in Streams : j.streams[t].flow.available = i.streams[t].flow.available
      BY <2>4, <2>5 DEF Elsewhere, r, r2
    <3>2. Shares(j.streams) = Shares(i.streams)
      <4>1. j.streams \in [Streams -> StreamRecord]
        BY <2>1 DEF InnerRecord
      <4> QED
        BY <1>1, <3>1, <4>1, SharesEqual
    <3> QED
      BY <2>1, <2>7, <3>2 DEF Account
  <2>9. Keys(j)
    <3> SUFFICES ASSUME NEW t \in Streams, InQueue(j, t) PROVE IsStored(j.streams[t])
      BY DEF Keys
    <3>1. InQueue(i, t) /\ IsStored(i.streams[t])
      BY <2>1, <2>7 DEF InQueue, Keys
    <3>2. CASE t = s
      BY <2>2, <2>4, <3>1, <3>2 DEF r2
    <3>3. CASE t # s
      BY <2>4, <3>1, <3>3 DEF Elsewhere
    <3> QED
      BY <3>2, <3>3
  <2>10. Slots(j)
    <3>1. \A t \in Streams : t # s => Takes(j.streams[t]) = Takes(i.streams[t])
      BY <2>4 DEF Elsewhere
    <3>2. Taken(i.streams) \in Nat /\ Taken(j.streams) = Taken(i.streams) + Takes(r2) - Takes(r)
      BY <3>1, TakenChange DEF r, r2
    <3>3. \A t \in Streams : t # s => Waits(j.streams[t], j.openQ, t) = Waits(i.streams[t], i.openQ, t)
      BY <2>1, <2>4 DEF Elsewhere
    <3>4. /\ Untaken(i.streams, i.openQ) \in Nat
          /\ Untaken(j.streams, j.openQ) = Untaken(i.streams, i.openQ)
                 + Waits(r2, j.openQ, s) - Waits(r, i.openQ, s)
      <4>1. /\ Untaken(i.streams, i.openQ) \in Nat
            /\ Untaken(j.streams, j.openQ) = Untaken(i.streams, i.openQ)
                 + Waits(j.streams[s], j.openQ, s) - Waits(i.streams[s], i.openQ, s)
        <5> DEFINE strs == i.streams
                   strs2 == j.streams
                   q == i.openQ
                   q2 == j.openQ
        <5>1. \A t \in Streams : t # s => Waits(strs2[t], q2, t) = Waits(strs[t], q, t)
          BY <3>3
        <5> HIDE DEF strs, strs2, q, q2
        <5>2. Untaken(strs, q) \in Nat
          BY <5>1, UntakenChange
        <5>3. Untaken(strs2, q2) = Untaken(strs, q) + Waits(strs2[s], q2, s) - Waits(strs[s], q, s)
          BY <5>1, UntakenChange
        <5> QED
          BY <5>2, <5>3 DEF strs, strs2, q, q2
      <4> QED
        BY <4>1 DEF r, r2
    <3>5. Waits(r2, j.openQ, s) = Waits(r, i.openQ, s) /\ Waits(r, i.openQ, s) \in Nat
      BY <1>1, <2>1, <2>5 DEF Waits, r
    <3>6. Takes(r) \in Nat /\ i.numStreams \in Int
      BY <1>1 DEF Takes, InnerRecord
    <3>7. Distinct(j.openQ)
      BY <2>1, <2>7 DEF Slots
    <3>8. Taken(j.streams) <= j.numStreams
      BY <2>1, <2>5, <2>7, <3>2, <3>6 DEF Slots
    <3>9. j.numStreams + Untaken(j.streams, j.openQ) <= NStreams
      BY <2>1, <2>7, <3>4, <3>5, <3>6, StreamsType DEF Slots
    <3> QED
      BY <3>7, <3>8, <3>9 DEF Slots
  <2>11. Resets(j)
    <3>1. Len(i.resetQ) \in Nat /\ i.numResets \in Int /\ MaxResets \in Int
      BY <1>1, SendAssumption DEF InnerRecord
    <3> QED
      BY <2>1, <2>7, <3>1 DEF Resets, WasReset, IsPendingReset
  <2>12. Sound(j, extra, low, due)
    <3>1. IsServer(j) => j.openQ = <<>>
      BY <2>1, <2>7 DEF IsServer
    <3> QED
      BY <2>1, <2>6, <2>7, <2>8, <2>9, <2>10, <2>11, <3>1 DEF Sound, SoundBut
  <2>13. Settles(i, j, s)
    <3>1. ASSUME IsStored(r2) PROVE IsFlushed(r2) /\ r2.state = r.state
      BY <1>3, <2>2, <2>5, <3>1 DEF IsFlushed
    <3> QED
      BY <1>3, <2>1, <2>4, <2>5, <3>1 DEF Settles, r, r2
  <2> QED
    BY <2>12, <2>13 DEF j
<1> QED
  BY <1>2, <1>3 DEF r

\* Counts::transition around a handler.
LEMMA TransitionSound ==
  ASSUME NEW i, NEW j, NEW s \in Streams, NEW extra, NEW low, NEW due,
         Sound(j, extra, low, due), Handled(i, j, s)
  PROVE  /\ Sound(Transition(i, j, s), extra, low, due)
         /\ Kept(i, Transition(i, j, s), s)
         /\ Settles(j, Transition(i, j, s), s)
<1> DEFINE k == Transition(i, j, s)
<1>1. IsPendingReset(i, s) \in BOOLEAN /\ WasReset(j, s, IsPendingReset(i, s))
  BY DEF IsPendingReset, Contains, WasReset, Handled
<1>2. Sound(k, extra, low, due) /\ Settles(j, k, s)
  BY <1>1, TransitionAfterSound DEF Transition, Handled
<1> HIDE DEF k
<1>3. Kept(i, k, s)
  BY <1>2 DEF Settles, Handled, Kept, FlightKept, Elsewhere, Alike
<1> QED
  BY <1>2, <1>3 DEF k

----------------------------------------------------------------------------
(* Capacity on demand, and frames that are queued.                         *)

\* The record of a stream that asks for another amount.
Asking(r, wanted) == [r EXCEPT !.requested = wanted]

LEMMA AskingFields ==
  ASSUME NEW r \in StreamRecord, NEW wanted \in Int
  PROVE  /\ Asking(r, wanted) \in StreamRecord
         /\ Asking(r, wanted).requested = wanted
         /\ Asking(r, wanted).place = r.place /\ Asking(r, wanted).flow = r.flow
         /\ Asking(r, wanted).state = r.state /\ Asking(r, wanted).buffered = r.buffered
         /\ Asking(r, wanted).queue = r.queue /\ Asking(r, wanted).counted = r.counted
         /\ Asking(r, wanted).handle = r.handle
  BY DEF Asking, StreamRecord

\* All of a stream but what it asks for and what it was given.
AlikeButAsking(r, r2) ==
  /\ r2.place = r.place /\ r2.state = r.state /\ r2.handle = r.handle
  /\ r2.flow.window = r.flow.window /\ r2.buffered = r.buffered
  /\ r2.queue = r.queue /\ r2.counted = r.counted

\* s asks for another amount, and capacity moves.
Asked(i, j, s) ==
  /\ SameBooks(i, j)
  /\ \A t \in Streams : t # s => Alike(i.streams[t], j.streams[t])
  /\ AlikeButAsking(i.streams[s], j.streams[s])

LEMMA AskedHandled ==
  ASSUME NEW i, NEW j, NEW s \in Streams, Asked(i, j, s), IsStored(i.streams[s])
  PROVE  Handled(i, j, s)
  BY DEF Asked, AlikeButAsking, SameBooks, Handled, Kept, FlightKept, IsStored

\* s asks for less: what it has beyond that goes to others.
LEMMA AskingLessSound ==
  ASSUME NEW r, NEW extra, NEW low, NEW server, NEW wanted \in Int,
         StoredSound(r, extra, low, FALSE), r.buffered <= wanted, wanted < r.requested,
         ~CanSendOpen(r.state),
         server => wanted = r.buffered \/ Settled(r)
  PROVE  LET r2 == Asking(r, wanted)
             sz == IF r.flow.available - wanted <= 0 THEN 0 ELSE r.flow.available - wanted
         IN  StoredSound(Less(r2, sz), extra, low, server)
<1> DEFINE r2 == Asking(r, wanted)
           sz == IF r.flow.available - wanted <= 0 THEN 0 ELSE r.flow.available - wanted
           r3 == Less(r2, sz)
<1>1. /\ r \in StreamRecord /\ IsStored(r) /\ InBounds(r) /\ Fits(r)
      /\ r.buffered = Octets(r.queue) + extra /\ Linking(r, low)
  BY DEF StoredSound
<1>2. r2 \in StreamRecord /\ r2.requested = wanted /\ r2.place = r.place /\ r2.flow = r.flow
      /\ r2.state = r.state /\ r2.buffered = r.buffered /\ r2.queue = r.queue
  BY <1>1, AskingFields
<1>3. r.flow.available \in 0 .. MaxWindow /\ r.flow.available \in Int /\ sz \in Nat
      /\ r.buffered \in Nat /\ r.requested \in 0 .. MaxWindow + MaxBuffered
  BY <1>1, MaxWindowAssumption, SendAssumption DEF InBounds
<1>4. r.flow.available - sz <= wanted /\ 0 <= r.flow.available - sz
      /\ r.flow.available - sz <= r.flow.available /\ 0 <= wanted
  BY <1>3
<1> HIDE DEF r2, sz
<1>5. /\ r3 \in StreamRecord /\ r3.flow.window = r.flow.window
      /\ r3.flow.available = r.flow.available - sz
      /\ r3.place = r.place /\ r3.state = r.state
      /\ r3.requested = wanted /\ r3.buffered = r.buffered /\ r3.queue = r.queue
  <2>1. sz \in Int
    BY <1>3
  <2> QED
    BY <1>2, <2>1, LessFields
<1> HIDE DEF r3
<1>6. IsStored(r3) /\ r3.buffered = Octets(r3.queue) + extra /\ Unasked(r3)
  BY <1>1, <1>5 DEF IsStored, Unasked
<1>7. InBounds(r3)
  BY <1>1, <1>3, <1>4, <1>5, MaxWindowAssumption, SendAssumption DEF InBounds
<1>8. Fits(r3)
  <2>1. WindowSize(r3.flow) = WindowSize(r.flow) /\ r.flow.available <= WindowSize(r.flow)
        /\ WindowSize(r.flow) \in Int
    BY <1>1, <1>5, MaxWindowAssumption DEF Fits, WindowSize, AsSize, InBounds
  <2> QED
    BY <1>3, <1>4, <1>5, <2>1 DEF Fits
<1>9. Linking(r3, low)
  BY <1>1, <1>5 DEF Linking, CannotSend
<1>10. server => Settled(r3)
  BY <1>3, <1>4, <1>5 DEF Settled
<1> QED
  BY <1>5, <1>6, <1>7, <1>8, <1>9, <1>10 DEF StoredSound, r3, r2, sz

\* s asks for more.
LEMMA AskingMoreSound ==
  ASSUME NEW r, NEW extra, NEW low, NEW server, NEW wanted \in Int,
         StoredSound(r, extra, low, FALSE), r.requested < wanted,
         wanted <= MaxWindow + MaxBuffered, ~CanSendOpen(r.state), ~IsSendClosed(r.state)
  PROVE  StoredSound(Asking(r, wanted), extra, low, server)
<1> DEFINE r2 == Asking(r, wanted)
<1>1. /\ r \in StreamRecord /\ IsStored(r) /\ InBounds(r) /\ Fits(r)
      /\ r.buffered = Octets(r.queue) + extra /\ Linking(r, low)
  BY DEF StoredSound
<1>2. r2 \in StreamRecord /\ r2.requested = wanted /\ r2.place = r.place /\ r2.flow = r.flow
      /\ r2.state = r.state /\ r2.buffered = r.buffered /\ r2.queue = r.queue
  BY <1>1, AskingFields
<1> HIDE DEF r2
<1>3. IsStored(r2) /\ InBounds(r2) /\ Fits(r2) /\ Unasked(r2)
      /\ r2.buffered = Octets(r2.queue) + extra /\ Linking(r2, low) /\ Settled(r2)
  BY <1>1, <1>2, MaxWindowAssumption, SendAssumption
     DEF IsStored, InBounds, Fits, Unasked, Linking, CannotSend, Settled
<1> QED
  BY <1>2, <1>3 DEF StoredSound, r2

\* reserve_capacity.  Reserving nothing settles a sending half that was just
\* closed.
LEMMA ReserveSound ==
  ASSUME NEW i, NEW s \in Streams, NEW extra, NEW low, NEW capacity \in 0 .. MaxWindow,
         SoundBut(i, s, extra, low, 0),
         StoredSound(i.streams[s], extra[s], low[s], FALSE),
         ~CanSendOpen(i.streams[s].state),
         IsServer(i) => capacity = 0 \/ Settled(i.streams[s])
  PROVE  /\ Sound(ReserveCapacity(i, s, capacity), extra, low, 0)
         /\ Asked(i, ReserveCapacity(i, s, capacity), s)
<1> DEFINE r == i.streams[s]
           wanted == capacity + r.buffered
           j == [i EXCEPT !.streams[s].requested = wanted]
           result == ReserveCapacity(i, s, capacity)
<1>1. /\ i \in InnerRecord /\ i.streams \in [Streams -> StreamRecord] /\ r \in StreamRecord
      /\ Scope(extra, low)
  BY DEF SoundBut, InnerRecord
<1>2. /\ IsStored(r) /\ InBounds(r) /\ Fits(r) /\ r.buffered \in 0 .. MaxBuffered
      /\ r.requested \in 0 .. MaxWindow + MaxBuffered
  BY DEF StoredSound, InBounds
<1>3. wanted \in Int /\ r.buffered <= wanted /\ wanted <= MaxWindow + MaxBuffered
      /\ (capacity = 0 => wanted = r.buffered) /\ r.requested \in Int
  BY <1>2, MaxWindowAssumption, SendAssumption
<1>4. j = With(i, s, Asking(r, wanted))
  BY <1>1 DEF With, Asking, InnerRecord
<1>5. result = CASE wanted = r.requested -> i
                 [] wanted < r.requested -> Reclaim(j, s, r.flow.available - wanted)
                 [] OTHER -> IF IsSendClosed(r.state) THEN i ELSE TryAssign(j, s)
  BY DEF ReserveCapacity
<1>6. /\ Asking(r, wanted) \in StreamRecord /\ Asking(r, wanted).place = r.place
      /\ Asking(r, wanted).counted = r.counted /\ Asking(r, wanted).flow = r.flow
      /\ AlikeButAsking(r, Asking(r, wanted))
  <2> HIDE DEF r, wanted
  <2> QED
    BY <1>1, <1>3, AskingFields DEF AlikeButAsking
<1>7. SoundBut(j, s, extra, low, 0)
  <2>1. \A t \in Streams : t # s => extra[t] = extra[t]
    OBVIOUS
  <2> HIDE <2>1
  <2> HIDE DEF wanted
  <2>2. SoundBut(With(i, s, Asking(r, wanted)), s, extra, low, 0)
    BY <1>1, <1>6, <2>1, WithBut
  <2> QED
    BY <1>4, <2>2
<1>8. j.streams[s] = Asking(r, wanted) /\ Elsewhere(i, j, s) /\ SameBooks(i, j)
      /\ IsServer(j) = IsServer(i)
  <2> HIDE DEF wanted
  <2> QED
    <3> DEFINE q == Asking(r, wanted)
    <3>1. i \in InnerRecord /\ q \in StreamRecord /\ j = With(i, s, q)
      BY <1>1, <1>4, <1>6
    <3> HIDE DEF q, r, j
    <3>2. j.streams[s] = q /\ Elsewhere(i, j, s) /\ SameBooks(i, j)
      BY <3>1, WithFields
    <3> QED
      BY <3>2 DEF SameBooks, IsServer, q
<1> HIDE DEF j, wanted, result
<1>9. Asked(i, j, s)
  BY <1>6, <1>8 DEF Asked, Elsewhere, Alike
<1>10. Asked(i, i, s)
  BY DEF Asked, SameBooks, Alike, AlikeButAsking
<1>11. ASSUME NEW k, Steady(j, k) PROVE Asked(i, k, s)
  BY <1>9, <1>11 DEF Asked, Steady, SameBooks, Alike, AlikeButAsking
<1>12. ASSUME IsServer(i) => Settled(r) PROVE Sound(i, extra, low, 0)
  <2>1. StoredSound(i.streams[s], extra[s], low[s], IsServer(i))
    BY <1>12 DEF StoredSound
  <2> QED
    BY <2>1, SoundFrom
<1>13. CASE wanted = r.requested
  <2>1. IsServer(i) => Settled(r)
    BY <1>2, <1>3, <1>13 DEF Settled, Fits, InBounds
  <2> QED
    BY <1>3, <1>5, <1>10, <1>12, <1>13, <2>1 DEF result
<1>14. CASE wanted < r.requested
  <2> DEFINE sz == r.flow.available - wanted
  <2>1. sz \in Int
    BY <1>2, <1>3 DEF InBounds
  <2>2. StoredSound(Less(Asking(r, wanted), IF sz <= 0 THEN 0 ELSE sz), extra[s], low[s], IsServer(i))
    BY <1>3, <1>14, AskingLessSound
  <2>3. IsStored(j.streams[s])
    BY <1>2, <1>6, <1>8 DEF IsStored
  <2>4. StoredSound(Less(j.streams[s], IF sz <= 0 THEN 0 ELSE sz), extra[s], low[s], IsServer(j))
    BY <1>8, <2>2
  <2> HIDE DEF sz
  <2>5. Sound(Reclaim(j, s, sz), extra, low, 0) /\ Steady(j, Reclaim(j, s, sz))
    BY <1>7, <2>1, <2>3, <2>4, ReclaimSound
  <2>6. ~(wanted = r.requested)
    BY <1>3, <1>14
  <2>7. result = Reclaim(j, s, sz)
    BY <1>5, <1>14, <2>6 DEF sz
  <2> QED
    BY <1>11, <2>5, <2>7 DEF result
<1>15. CASE ~(wanted = r.requested) /\ ~(wanted < r.requested)
  <2>1. CASE IsSendClosed(r.state)
    <3>1. IsServer(i) => Settled(r)
      BY <1>2, <1>3, <1>15, <2>1 DEF Settled, Fits, InBounds
    <3> QED
      BY <1>5, <1>10, <1>12, <1>15, <2>1, <3>1 DEF result
  <2>2. CASE ~IsSendClosed(r.state)
    <3>1. r.requested < wanted
      BY <1>3, <1>15
    <3>2. StoredSound(Asking(r, wanted), extra[s], low[s], IsServer(i))
      BY <1>3, <2>2, <3>1, AskingMoreSound
    <3>3. Sound(j, extra, low, 0) /\ IsStored(j.streams[s])
      BY <1>7, <1>8, <3>2, SoundFrom DEF StoredSound
    <3>4. Sound(TryAssign(j, s), extra, low, 0) /\ Steady(j, TryAssign(j, s))
      BY <3>3, TryAssignSound
    <3> QED
      BY <1>5, <1>11, <1>15, <2>2, <3>4 DEF result
  <2> QED
    BY <2>1, <2>2
<1> QED
  BY <1>13, <1>14, <1>15

\* A frame is queued; its octets, if it has any, were counted before.
LEMMA BufferBut ==
  ASSUME NEW i, NEW s \in Streams, NEW extra, NEW low, NEW frame \in Frames,
         SoundBut(i, s, extra, low, 0), IsStored(i.streams[s])
  PROVE  LET j == Buffer(i, s, frame)
         IN  /\ SoundBut(j, s, extra, low, 0)
             /\ j.streams[s] = Queued(i.streams[s], frame) /\ Elsewhere(i, j, s)
             /\ SameBooks(i, j) /\ j.flow = i.flow
<1> DEFINE r == i.streams[s]
           j == Buffer(i, s, frame)
<1>1. i \in InnerRecord /\ i.streams \in [Streams -> StreamRecord] /\ r \in StreamRecord
      /\ Scope(extra, low) /\ Idle \in States
  BY DEF SoundBut, InnerRecord, States
<1>2. j = With(i, s, Queued(r, frame))
  BY <1>1 DEF Buffer, With, Queued, InnerRecord
<1>3. /\ Queued(r, frame) \in StreamRecord /\ Queued(r, frame).place = r.place
      /\ Queued(r, frame).counted = r.counted /\ Queued(r, frame).flow = r.flow
  <2> HIDE DEF r
  <2> QED
    BY <1>1, RecordTypes, QueuedFields
<1>4. \A t \in Streams : t # s => extra[t] = extra[t]
  OBVIOUS
<1> HIDE <1>4
<1> HIDE DEF j
<1>5. SoundBut(With(i, s, Queued(r, frame)), s, extra, low, 0)
  BY <1>1, <1>3, <1>4, WithBut
<1>6. /\ j.streams[s] = Queued(r, frame) /\ Elsewhere(i, j, s)
      /\ SameBooks(i, j) /\ j.flow = i.flow
  BY <1>1, <1>2, <1>3, WithFields
<1> QED
  BY <1>2, <1>5, <1>6 DEF j

\* queue_frame
LEMMA QueueFrameBut ==
  ASSUME NEW i, NEW s \in Streams, NEW extra, NEW low, NEW frame \in Frames,
         SoundBut(i, s, extra, low, 0), IsStored(i.streams[s])
  PROVE  LET j == QueueFrame(i, s, frame)
         IN  /\ SoundBut(j, s, extra, low, 0)
             /\ j.streams[s] = Queued(i.streams[s], frame) /\ Elsewhere(i, j, s)
             /\ SameBooks(i, j) /\ j.flow = i.flow
<1> DEFINE b == Buffer(i, s, frame)
           j == ScheduleSend(b, s)
<1>1. /\ SoundBut(b, s, extra, low, 0)
      /\ b.streams[s] = Queued(i.streams[s], frame) /\ Elsewhere(i, b, s)
      /\ SameBooks(i, b) /\ b.flow = i.flow
  BY BufferBut
<1>2. IsStored(b.streams[s])
  <2>1. i.streams[s] \in StreamRecord
    BY DEF SoundBut, InnerRecord
  <2> QED
    BY <1>1, <2>1, QueuedFields DEF IsStored
<1> HIDE DEF b
<1>3. /\ SoundBut(j, s, extra, low, 0)
      /\ j.streams = b.streams /\ j.flow = b.flow /\ SameBooks(b, j)
  BY <1>1, <1>2, ScheduleSendBut
<1>4. QueueFrame(i, s, frame) = j
  BY DEF QueueFrame, b
<1> HIDE DEF j
<1>5. Elsewhere(i, j, s) /\ SameBooks(i, j)
  BY <1>1, <1>3 DEF Elsewhere, SameBooks
<1> QED
  BY <1>1, <1>3, <1>4, <1>5

----------------------------------------------------------------------------
(* What a handler keeps when the codec may hold a DATA frame.              *)

\* The octets that return to the queue of the stream they came from.
Flying(i, rest) == [s \in Streams |-> IF i.inFlight = s THEN rest ELSE 0]

Whole(i, rest, low) == Sound(i, Flying(i, rest), low, 0)

LEMMA FlyingKept ==
  ASSUME NEW i, NEW j, NEW rest, j.inFlight = i.inFlight
  PROVE  Flying(j, rest) = Flying(i, rest)
  BY DEF Flying

LEMMA FlyingFailed ==
  ASSUME NEW i, NEW j, NEW s \in Streams, NEW rest,
         j.inFlight = IF i.inFlight = s THEN Drop ELSE i.inFlight
  PROVE  Flying(j, rest) = [Flying(i, rest) EXCEPT ![s] = 0]
<1>1. Drop \notin Streams
  BY StreamsType DEF Drop
<1> QED
  BY <1>1 DEF Flying

LEMMA FlyingType ==
  ASSUME NEW i, NEW rest \in Nat
  PROVE  Flying(i, rest) \in [Streams -> Nat]
  BY DEF Flying

\* A frame without octets joins the queue.
LEMMA QueueFrameSound ==
  ASSUME NEW i, NEW s \in Streams, NEW extra, NEW low, NEW frame \in Frames,
         Sound(i, extra, low, 0), IsStored(i.streams[s]), frame.sz = 0
  PROVE  /\ Sound(QueueFrame(i, s, frame), extra, low, 0)
         /\ SameBooks(i, QueueFrame(i, s, frame))
         /\ Handled(i, QueueFrame(i, s, frame), s)
<1> DEFINE r == i.streams[s]
           j == QueueFrame(i, s, frame)
<1>1. SoundBut(i, s, extra, low, 0) /\ StoredSound(r, extra[s], low[s], IsServer(i))
      /\ extra[s] \in Nat /\ r \in StreamRecord
  BY StoredAt, SoundType DEF StoredSound
<1>2. /\ SoundBut(j, s, extra, low, 0)
      /\ j.streams[s] = Queued(r, frame) /\ Elsewhere(i, j, s) /\ SameBooks(i, j)
  BY <1>1, QueueFrameBut
<1> HIDE DEF j, r
<1>3. StoredSound(Queued(r, frame), extra[s] - frame.sz, low[s], IsServer(i))
  BY <1>1, QueuedSound
<1>4. IsServer(j) = IsServer(i) /\ extra[s] - frame.sz = extra[s]
  BY <1>1, <1>2 DEF IsServer, SameBooks
<1>5. Sound(j, extra, low, 0)
  BY <1>2, <1>3, <1>4, SoundFrom
<1>6. Handled(i, j, s)
  <2>1. IsStored(Queued(r, frame))
    BY <1>3 DEF StoredSound
  <2> QED
    BY <1>2, <2>1 DEF Handled, Kept, FlightKept, SameBooks, Elsewhere, Alike
<1> QED
  BY <1>2, <1>5, <1>6 DEF j

\* The state of s changes, and the invariant is lost for s at most.
LEMMA StateBut ==
  ASSUME NEW i, NEW s \in Streams, NEW extra, NEW low, NEW st \in States,
         SoundBut(i, s, extra, low, 0), IsStored(i.streams[s])
  PROVE  LET j == [i EXCEPT !.streams[s].state = st]
         IN  /\ SoundBut(j, s, extra, low, 0)
             /\ j.streams[s] = WithState(i.streams[s], st)
             /\ SameBooks(i, j) /\ Elsewhere(i, j, s) /\ Handled(i, j, s)
             /\ IsServer(j) = IsServer(i)
<1> DEFINE r == i.streams[s]
           q == WithState(r, st)
           j == [i EXCEPT !.streams[s].state = st]
<1>1. i \in InnerRecord /\ i.streams \in [Streams -> StreamRecord] /\ r \in StreamRecord
      /\ Scope(extra, low)
  BY DEF SoundBut, InnerRecord
<1>2. j = With(i, s, q)
  BY <1>1 DEF With, WithState, InnerRecord
<1>3. q \in StreamRecord /\ q.place = r.place /\ q.counted = r.counted /\ q.flow = r.flow
  <2>1. Frame("data", 0, TRUE) \in Frames
    BY MaxWindowAssumption DEF Frames, Frame, Kinds
  <2> HIDE DEF r
  <2> QED
    BY <1>1, <2>1, RecordTypes, WithStateFields
<1>4. \A t \in Streams : t # s => extra[t] = extra[t]
  OBVIOUS
<1> HIDE <1>4
<1> HIDE DEF j, q
<1>5. SoundBut(With(i, s, q), s, extra, low, 0)
  BY <1>1, <1>3, <1>4, WithBut
<1>6. j.streams[s] = q /\ Elsewhere(i, j, s) /\ SameBooks(i, j)
  BY <1>1, <1>2, <1>3, WithFields
<1>7. IsStored(q)
  BY <1>3 DEF IsStored
<1>8. Handled(i, j, s) /\ IsServer(j) = IsServer(i)
  BY <1>6, <1>7 DEF Handled, Kept, FlightKept, SameBooks, Elsewhere, Alike, IsServer
<1> QED
  BY <1>2, <1>5, <1>6, <1>8 DEF j, q

\* HEADERS of a response.
LEMMA SendHeadersSound ==
  ASSUME NEW i, NEW s \in Streams, NEW rest \in Nat, NEW low, NEW eos \in BOOLEAN,
         Whole(i, rest, low), IsStored(i.streams[s]), IsServer(i),
         CanSendOpen(i.streams[s].state)
  PROVE  /\ Whole(SendHeaders(i, s, eos), rest, low)
         /\ Handled(i, SendHeaders(i, s, eos), s)
<1> DEFINE r == i.streams[s]
           st == SendOpen(r.state, eos)
           opened == [i EXCEPT !.streams[s].state = st]
           extra == Flying(i, rest)
           frame == Frame("headers", 0, eos)
           j == QueueFrame(opened, s, frame)
<1>1. SoundBut(i, s, extra, low, 0) /\ StoredSound(r, extra[s], low[s], IsServer(i))
      /\ r \in StreamRecord /\ r.state \in States /\ i \in InnerRecord
  BY StoredAt, SoundType DEF StoredSound, StreamRecord, Whole
<1>2. Ensues(r.state, st) /\ ~CanSendOpen(st) /\ ~Discards(st) /\ st \in States
  BY <1>1, SendOpenState DEF Ensues
<1>3. SendHeaders(i, s, eos) = j
  <2>1. i.peer # "client"
    BY DEF IsServer
  <2> QED
    BY <1>1, <2>1 DEF SendHeaders, InnerRecord
<1> HIDE DEF st
<1>4. /\ SoundBut(opened, s, extra, low, 0)
      /\ opened.streams[s] = WithState(r, st)
      /\ SameBooks(i, opened) /\ Handled(i, opened, s)
      /\ IsServer(opened) = IsServer(i)
  BY <1>1, <1>2, StateBut
<1> HIDE DEF opened
<1>5. Settled(WithState(r, st))
  <2>1. r.requested = 0 /\ r.flow.available \in Int /\ r.flow.available >= 0
        /\ r.flow.available <= r.requested /\ r.buffered \in Nat
    BY <1>1, MaxWindowAssumption, SendAssumption DEF StoredSound, Unasked, InBounds, Fits
  <2> QED
    BY <1>1, <2>1, WithStateFields DEF Settled
<1>6. StoredSound(WithState(r, st), extra[s], low[s], IsServer(i))
  BY <1>1, <1>2, <1>5, StateSound
<1>7. Sound(opened, extra, low, 0)
  BY <1>4, <1>6, SoundFrom
<1>8. frame \in Frames /\ frame.sz = 0
  BY MaxWindowAssumption DEF Frames, Frame, Kinds
<1> HIDE DEF extra, frame
<1>9. Sound(j, extra, low, 0) /\ SameBooks(opened, j) /\ Handled(opened, j, s)
  BY <1>4, <1>7, <1>8, QueueFrameSound DEF Handled
<1>10. Flying(j, rest) = extra
  BY <1>4, <1>9, FlyingKept DEF SameBooks, extra
<1> QED
  BY <1>3, <1>4, <1>9, <1>10, HandledTrans DEF Whole

\* More octets are buffered for s than its queue holds.
LEMMA ChargedSound ==
  ASSUME NEW r, NEW extra \in Nat, NEW low, NEW server, NEW sz \in Nat,
         StoredSound(r, extra, low, server), IsSendStreaming(r.state),
         r.buffered + sz <= MaxBuffered
  PROVE  StoredSound([r EXCEPT !.buffered = r.buffered + sz], extra + sz, low, server)
<1> DEFINE r2 == [r EXCEPT !.buffered = r.buffered + sz]
<1>1. /\ r \in StreamRecord /\ IsStored(r) /\ InBounds(r) /\ Fits(r) /\ Unasked(r)
      /\ r.buffered = Octets(r.queue) + extra /\ Linking(r, low)
      /\ r.queue \in Seq(Frames) /\ r.buffered \in 0 .. MaxBuffered /\ r.state \in States
  BY DEF StoredSound, StreamRecord, InBounds
<1>2. r.buffered + sz \in 0 .. MaxBuffered /\ r.buffered + sz \in Int /\ Octets(r.queue) \in Nat
  BY <1>1, SendAssumption, OctetsType, SMTT(30)
<1>3. r2 \in StreamRecord
  BY <1>1, <1>2 DEF StreamRecord
<1>4. /\ r2.place = r.place /\ r2.flow = r.flow /\ r2.state = r.state
      /\ r2.requested = r.requested /\ r2.buffered = r.buffered + sz /\ r2.queue = r.queue
  BY <1>1 DEF StreamRecord
<1> HIDE DEF r2
<1>5. ~IsSendClosed(r.state) /\ ~IsClosed(r.state)
  BY <1>1, StateKinds
<1>6. /\ IsStored(r2) /\ InBounds(r2) /\ Fits(r2) /\ Unasked(r2) /\ Settled(r2)
      /\ Linking(r2, low)
  BY <1>1, <1>2, <1>4, <1>5
     DEF IsStored, InBounds, Fits, Unasked, Settled, Linking, CannotSend
<1>7. r2.buffered = Octets(r2.queue) + (extra + sz)
  BY <1>1, <1>2, <1>4
<1> QED
  BY <1>3, <1>6, <1>7 DEF StoredSound, r2

LEMMA ButExtra ==
  ASSUME NEW i, NEW s \in Streams, NEW extra, NEW extra2, NEW low, NEW due,
         SoundBut(i, s, extra, low, due), Scope(extra2, low),
         \A t \in Streams : t # s => extra2[t] = extra[t]
  PROVE  SoundBut(i, s, extra2, low, due)
  BY DEF SoundBut

LEMMA Unserved ==
  ASSUME NEW r, NEW extra, NEW low, NEW server, StoredSound(r, extra, low, server)
  PROVE  StoredSound(r, extra, low, FALSE)
  BY DEF StoredSound

\* A frame whose octets were counted before joins the queue.
LEMMA PlaceFrame ==
  ASSUME NEW i, NEW j, NEW s \in Streams, NEW extra, NEW low, NEW frame \in Frames,
         Sound(i, extra, low, 0), IsStored(i.streams[s]), frame.sz <= extra[s],
         j \in {QueueFrame(i, s, frame), Buffer(i, s, frame)}
  PROVE  /\ Sound(j, [extra EXCEPT ![s] = extra[s] - frame.sz], low, 0)
         /\ SameBooks(i, j) /\ Handled(i, j, s)
<1> DEFINE r == i.streams[s]
           extra2 == [extra EXCEPT ![s] = extra[s] - frame.sz]
<1>1. SoundBut(i, s, extra, low, 0) /\ StoredSound(r, extra[s], low[s], IsServer(i))
      /\ extra \in [Streams -> Nat] /\ r \in StreamRecord /\ frame.sz \in Nat
      /\ low \in [Streams -> -MaxWindow .. 0]
  BY StoredAt, SoundType, MaxWindowAssumption DEF StoredSound, Frames
<1>2. /\ SoundBut(j, s, extra, low, 0)
      /\ j.streams[s] = Queued(r, frame) /\ Elsewhere(i, j, s) /\ SameBooks(i, j)
  BY <1>1, QueueFrameBut, BufferBut
<1> HIDE DEF r
<1>3. StoredSound(Queued(r, frame), extra[s] - frame.sz, low[s], IsServer(i))
  BY <1>1, QueuedSound
<1>4. IsServer(j) = IsServer(i) /\ extra2[s] = extra[s] - frame.sz
      /\ Scope(extra2, low) /\ \A t \in Streams : t # s => extra2[t] = extra[t]
  BY <1>1, <1>2 DEF IsServer, SameBooks, Scope
<1> HIDE DEF extra2
<1>5. SoundBut(j, s, extra2, low, 0)
  BY <1>2, <1>4, ButExtra
<1>6. StoredSound(j.streams[s], extra2[s], low[s], IsServer(j))
  BY <1>2, <1>3, <1>4
<1>7. Sound(j, extra2, low, 0)
  BY <1>5, <1>6, SoundFrom
<1>8. Handled(i, j, s)
  <2>1. IsStored(Queued(r, frame))
    BY <1>3 DEF StoredSound
  <2> QED
    BY <1>2, <2>1 DEF Handled, Kept, FlightKept, SameBooks, Elsewhere, Alike
<1> QED
  BY <1>2, <1>7, <1>8 DEF extra2

\* The sending half is closed, and what it asks for settled.
LEMMA CloseSound ==
  ASSUME NEW i, NEW s \in Streams, NEW extra, NEW low,
         Sound(i, extra, low, 0), IsStored(i.streams[s]),
         IsSendStreaming(i.streams[s].state)
  PROVE  LET j == ReserveCapacity([i EXCEPT !.streams[s].state = SendClose(@)], s, 0)
         IN  /\ Sound(j, extra, low, 0) /\ SameBooks(i, j) /\ Handled(i, j, s)
<1> DEFINE r == i.streams[s]
           st == SendClose(r.state)
           c == [i EXCEPT !.streams[s].state = st]
           j == ReserveCapacity(c, s, 0)
<1>1. SoundBut(i, s, extra, low, 0) /\ StoredSound(r, extra[s], low[s], IsServer(i))
      /\ r \in StreamRecord /\ r.state \in States /\ i \in InnerRecord
  BY StoredAt, SoundType DEF StoredSound, StreamRecord
<1>2. Ensues(r.state, st) /\ st \in States /\ ~CanSendOpen(st)
  BY <1>1, SendCloseState, StateKinds DEF Ensues
<1>3. [i EXCEPT !.streams[s].state = SendClose(@)] = c
  BY <1>1 DEF InnerRecord
<1> HIDE DEF st
<1>4. /\ SoundBut(c, s, extra, low, 0)
      /\ c.streams[s] = WithState(r, st)
      /\ SameBooks(i, c) /\ Handled(i, c, s)
  BY <1>1, <1>2, StateBut
<1> HIDE DEF c
<1>5. StoredSound(WithState(r, st), extra[s], low[s], FALSE)
  BY <1>1, <1>2, Unserved, StateSound
<1>6. ~CanSendOpen(c.streams[s].state)
  BY <1>1, <1>2, <1>4, WithStateFields
<1>7. 0 \in 0 .. MaxWindow
  BY MaxWindowAssumption
<1>8. Sound(j, extra, low, 0) /\ Asked(c, j, s)
  BY <1>4, <1>5, <1>6, <1>7, ReserveSound
<1>9. Handled(c, j, s) /\ SameBooks(c, j)
  BY <1>4, <1>8, AskedHandled DEF Handled, Asked
<1>10. SameBooks(i, j)
  BY <1>4, <1>9 DEF SameBooks
<1> HIDE DEF j
<1>11. Handled(i, j, s)
  BY <1>4, <1>9, HandledTrans
<1> QED
  BY <1>3, <1>8, <1>10, <1>11 DEF j

\* Prioritize::send_data
LEMMA SendChunkSound ==
  ASSUME NEW i, NEW s \in Streams, NEW rest \in Nat, NEW low,
         NEW sz \in 0 .. MaxWindow, NEW eos \in BOOLEAN,
         Whole(i, rest, low), IsStored(i.streams[s]),
         IsSendStreaming(i.streams[s].state), i.streams[s].buffered + sz <= MaxBuffered
  PROVE  /\ Whole(SendChunk(i, s, sz, eos), rest, low)
         /\ Handled(i, SendChunk(i, s, sz, eos), s)
<1> DEFINE r == i.streams[s]
           buffered == r.buffered + sz
           q == [r EXCEPT !.buffered = buffered]
           charged == [i EXCEPT !.streams[s].buffered = buffered]
           asked == IF r.requested < buffered
                      THEN TryAssign([charged EXCEPT !.streams[s].requested = buffered], s)
                      ELSE charged
           ended == IF eos
                      THEN ReserveCapacity([asked EXCEPT !.streams[s].state = SendClose(@)], s, 0)
                      ELSE asked
           frame == Frame("data", sz, eos)
           j == IF ended.streams[s].flow.available > 0 \/ ended.streams[s].buffered = 0
                  THEN QueueFrame(ended, s, frame) ELSE Buffer(ended, s, frame)
           extra == Flying(i, rest)
           extra2 == [extra EXCEPT ![s] = extra[s] + sz]
<1>1. SoundBut(i, s, extra, low, 0) /\ StoredSound(r, extra[s], low[s], IsServer(i))
      /\ r \in StreamRecord /\ r.state \in States /\ i \in InnerRecord
      /\ extra \in [Streams -> Nat] /\ low \in [Streams -> -MaxWindow .. 0]
      /\ i.streams \in [Streams -> StreamRecord]
  BY StoredAt, SoundType DEF StoredSound, StreamRecord, Whole
<1>2. sz \in Nat /\ r.buffered \in Nat /\ buffered \in Int /\ buffered <= MaxBuffered
      /\ r.requested \in Int
  BY <1>1, MaxWindowAssumption, SendAssumption DEF StoredSound, InBounds, StreamRecord
<1>3. ~IsSendClosed(r.state) /\ ~CanSendOpen(r.state)
  BY <1>1, StateKinds
<1>4. SendChunk(i, s, sz, eos) = j
  BY DEF SendChunk
<1>5. Scope(extra2, low) /\ extra2[s] = extra[s] + sz /\ extra[s] \in Nat
      /\ extra2 \in [Streams -> Nat]
      /\ \A t \in Streams : t # s => extra2[t] = extra[t]
  BY <1>1, <1>2 DEF Scope
<1>6. /\ q.state = r.state /\ q.requested = r.requested /\ q.buffered = buffered
      /\ q.place = r.place /\ q.counted = r.counted /\ q.flow = r.flow
  BY <1>1 DEF StreamRecord
<1>7. charged = With(i, s, q)
  BY <1>1 DEF With, InnerRecord
<1> HIDE DEF extra, extra2
<1>8. StoredSound(q, extra2[s], low[s], IsServer(i))
  <2>1. StoredSound(q, extra[s] + sz, low[s], IsServer(i))
    BY <1>1, <1>2, <1>5, ChargedSound
  <2> QED
    BY <1>5, <2>1
<1> HIDE DEF q, charged
<1>9. q \in StreamRecord /\ IsStored(q)
  BY <1>8 DEF StoredSound
<1>10. SoundBut(charged, s, extra2, low, 0)
  BY <1>1, <1>5, <1>6, <1>7, <1>9, WithBut
<1>11. charged.streams[s] = q /\ SameBooks(i, charged) /\ Handled(i, charged, s)
       /\ charged \in InnerRecord
  BY <1>1, <1>7, <1>9, WithFields, WithHandled
<1>12. Sound(charged, extra2, low, 0)
  <2>1. IsServer(charged) = IsServer(i)
    BY <1>11 DEF IsServer, SameBooks
  <2> QED
    BY <1>8, <1>10, <1>11, <2>1, SoundFrom
<1>13. Sound(asked, extra2, low, 0) /\ Asked(charged, asked, s)
  <2>1. CASE r.requested < buffered
    <3>1. asked = ReserveCapacity(charged, s, 0)
      <4> DEFINE wanted == 0 + charged.streams[s].buffered
      <4>1. wanted = buffered /\ ~(wanted = q.requested) /\ ~(wanted < q.requested)
        BY <1>2, <1>6, <1>11, <2>1
      <4>2. ReserveCapacity(charged, s, 0) =
              TryAssign([charged EXCEPT !.streams[s].requested = wanted], s)
        BY <1>3, <1>6, <1>11, <4>1 DEF ReserveCapacity
      <4> QED
        BY <2>1, <4>1, <4>2
    <3>2. StoredSound(charged.streams[s], extra2[s], low[s], FALSE)
      BY <1>8, <1>11, Unserved
    <3>3. ~CanSendOpen(charged.streams[s].state) /\ 0 \in 0 .. MaxWindow
      BY <1>3, <1>6, <1>11, MaxWindowAssumption
    <3> QED
      BY <1>10, <3>1, <3>2, <3>3, ReserveSound
  <2>2. CASE ~(r.requested < buffered)
    BY <1>12, <2>2 DEF Asked, SameBooks, Alike, AlikeButAsking
  <2> QED
    BY <2>1, <2>2
<1> HIDE DEF asked
<1>14. Handled(i, asked, s) /\ SameBooks(i, asked) /\ IsStored(asked.streams[s])
       /\ asked.streams[s].state = r.state
  <2>1. Handled(charged, asked, s)
    BY <1>9, <1>11, <1>13, AskedHandled
  <2> QED
    BY <1>6, <1>11, <1>13, <2>1, HandledTrans DEF Handled, Asked, AlikeButAsking, SameBooks
<1>15. Sound(ended, extra2, low, 0) /\ SameBooks(asked, ended) /\ Handled(asked, ended, s)
  <2>1. CASE eos
    BY <1>13, <1>14, <2>1, CloseSound
  <2>2. CASE ~eos
    <3>1. Steady(asked, asked)
      BY SteadyRefl
    <3> QED
      BY <1>13, <1>14, <2>2, <3>1, SteadyHandled DEF Steady
  <2> QED
    BY <2>1, <2>2
<1> HIDE DEF ended
<1>16. Handled(i, ended, s) /\ SameBooks(i, ended) /\ IsStored(ended.streams[s])
  BY <1>14, <1>15, HandledTrans DEF SameBooks, Handled
<1>17. frame \in Frames /\ frame.sz = sz /\ sz <= extra2[s]
  BY <1>2, <1>5 DEF Frames, Frame, Kinds
<1> HIDE DEF frame
<1>18. j \in {QueueFrame(ended, s, frame), Buffer(ended, s, frame)}
  OBVIOUS
<1> HIDE DEF j
<1>19. Sound(j, [extra2 EXCEPT ![s] = extra2[s] - frame.sz], low, 0)
       /\ SameBooks(ended, j) /\ Handled(ended, j, s)
  BY <1>15, <1>16, <1>17, <1>18, PlaceFrame
<1>20. [extra2 EXCEPT ![s] = extra2[s] - frame.sz] = extra
  BY <1>1, <1>2, <1>5, <1>17
<1>21. Flying(j, rest) = extra
  <2>1. j.inFlight = i.inFlight
    BY <1>16, <1>19 DEF SameBooks
  <2> QED
    BY <2>1, FlyingKept DEF extra
<1> QED
  BY <1>4, <1>16, <1>19, <1>20, <1>21, HandledTrans DEF Whole

\* Send::send_trailers
LEMMA SendTrailersSound ==
  ASSUME NEW i, NEW s \in Streams, NEW rest \in Nat, NEW low,
         Whole(i, rest, low), IsStored(i.streams[s]),
         IsSendStreaming(i.streams[s].state)
  PROVE  /\ Whole(SendTrailers(i, s), rest, low)
         /\ Handled(i, SendTrailers(i, s), s)
<1> DEFINE r == i.streams[s]
           st == SendClose(r.state)
           c == [i EXCEPT !.streams[s].state = st]
           frame == Frame("trailers", 0, TRUE)
           k == QueueFrame(c, s, frame)
           j == ReserveCapacity(k, s, 0)
           extra == Flying(i, rest)
<1>1. SoundBut(i, s, extra, low, 0) /\ StoredSound(r, extra[s], low[s], IsServer(i))
      /\ r \in StreamRecord /\ r.state \in States /\ i \in InnerRecord /\ extra[s] \in Nat
  BY StoredAt, SoundType DEF StoredSound, StreamRecord, Whole
<1>2. Ensues(r.state, st) /\ st \in States /\ ~CanSendOpen(st)
  BY <1>1, SendCloseState, StateKinds DEF Ensues
<1>3. SendTrailers(i, s) = j
  BY <1>1 DEF SendTrailers, InnerRecord
<1> HIDE DEF st, extra
<1>4. /\ SoundBut(c, s, extra, low, 0)
      /\ c.streams[s] = WithState(r, st)
      /\ SameBooks(i, c) /\ Handled(i, c, s)
  BY <1>1, <1>2, StateBut
<1> HIDE DEF c
<1>5. StoredSound(WithState(r, st), extra[s], low[s], FALSE)
  BY <1>1, <1>2, Unserved, StateSound
<1>6. frame \in Frames /\ frame.sz = 0
  BY MaxWindowAssumption DEF Frames, Frame, Kinds
<1> HIDE DEF frame
<1> DEFINE q == Queued(WithState(r, st), frame)
<1>7. StoredSound(q, extra[s], low[s], FALSE)
  <2>1. frame.sz <= extra[s] /\ extra[s] - frame.sz = extra[s] /\ extra[s] \in Nat
    BY <1>1, <1>6
  <2>2. StoredSound(q, extra[s] - frame.sz, low[s], FALSE)
    BY <1>5, <1>6, <2>1, QueuedSound, Zenon
  <2> QED
    BY <2>1, <2>2, Zenon
<1>8. ~CanSendOpen(q.state)
  <2>1. WithState(r, st) \in StreamRecord
    BY <1>5 DEF StoredSound
  <2> QED
    BY <1>1, <1>2, <2>1, WithStateFields, QueuedFields
<1> HIDE DEF q
<1>9. /\ SoundBut(k, s, extra, low, 0) /\ k.streams[s] = q
      /\ SameBooks(c, k) /\ Elsewhere(c, k, s)
  BY <1>4, <1>6, QueueFrameBut DEF Handled, q
<1>10. Handled(c, k, s)
  BY <1>7, <1>9 DEF Handled, Kept, FlightKept, SameBooks, Elsewhere, Alike, StoredSound
<1> HIDE DEF k
<1>11. 0 \in 0 .. MaxWindow
  BY MaxWindowAssumption
<1>12. Sound(j, extra, low, 0) /\ Asked(k, j, s)
  BY <1>7, <1>8, <1>9, <1>11, ReserveSound
<1>13. Handled(k, j, s) /\ SameBooks(k, j)
  BY <1>10, <1>12, AskedHandled DEF Handled, Asked
<1> HIDE DEF j
<1>14. Flying(j, rest) = extra
  <2>1. j.inFlight = i.inFlight
    BY <1>4, <1>9, <1>13 DEF SameBooks
  <2> QED
    BY <2>1, FlyingKept DEF extra
<1>15. Handled(i, j, s)
  BY <1>4, <1>10, <1>13, HandledTrans
<1> QED
  BY <1>3, <1>12, <1>14, <1>15 DEF Whole

----------------------------------------------------------------------------
(* Resets.                                                                 *)

\* j is i with another state for s.
Turned(i, j, s, st, extra, low) ==
  /\ SoundBut(j, s, extra, low, 0)
  /\ j.streams[s] = WithState(i.streams[s], st)
  /\ SameBooks(i, j) /\ Handled(i, j, s)
  /\ IsServer(j) = IsServer(i)

\* Send::send_reset on a stream that has something to tell the peer.
LEMMA SendResetLate ==
  ASSUME NEW i, NEW s \in Streams, NEW rest \in Nat, NEW low,
         Whole(i, rest, low), IsStored(i.streams[s]),
         NEW reset, Turned(i, reset, s, SetReset("LocalReset"), Flying(i, rest), low),
         ~IsPendingOpen(i, s)
  PROVE  LET j == ReclaimAll(QueueFrame(ClearQueue(reset, s), s, ResetFrame), s)
         IN  Whole(j, rest, low) /\ Handled(i, j, s)
<1> DEFINE r == i.streams[s]
           st == SetReset("LocalReset")
           c == ClearQueue(reset, s)
           k == QueueFrame(c, s, ResetFrame)
           j == ReclaimAll(k, s)
           extra == Flying(i, rest)
           extra2 == [extra EXCEPT ![s] = 0]
<1>1. SoundBut(i, s, extra, low, 0) /\ StoredSound(r, extra[s], low[s], IsServer(i))
      /\ r \in StreamRecord /\ i \in InnerRecord /\ extra \in [Streams -> Nat]
      /\ low \in [Streams -> -MaxWindow .. 0]
  BY StoredAt, SoundType DEF StoredSound, Whole
<1>2. st \in States /\ Ensues(r.state, st)
  BY <1>1, ResetStates DEF Ensues, Errors, LocalErrors, StoredSound, Reasons
<1> HIDE DEF st
<1>3. /\ SoundBut(reset, s, extra, low, 0)
      /\ reset.streams[s] = WithState(r, st)
      /\ SameBooks(i, reset) /\ Handled(i, reset, s)
  BY DEF Turned, st
<1>4. Sortable(WithState(r, st), low[s])
  BY <1>1, <1>2, StoredSortable, StateSortable
<1> HIDE DEF extra
<1>5. /\ SoundBut(c, s, extra2, low, 0)
      /\ c.streams[s] = Cleared(WithState(r, st)) /\ Failed(reset, c, s)
  BY <1>3, ClearQueueBut
<1> HIDE DEF extra2
<1>6. Handled(reset, c, s) /\ IsStored(c.streams[s]) /\ WithState(r, st) \in StreamRecord
  BY <1>3, <1>4, <1>5, FailedHandled DEF SoundBut, Sortable, Handled
<1>7. ResetFrame \in Frames /\ ResetFrame.sz = 0
  BY MaxWindowAssumption DEF ResetFrame, Frames, Frame, Kinds
<1> DEFINE q == Queued(Cleared(WithState(r, st)), ResetFrame)
<1> HIDE DEF c
<1>8. /\ SoundBut(k, s, extra2, low, 0) /\ k.streams[s] = q
      /\ SameBooks(c, k) /\ Elsewhere(c, k, s)
  BY <1>5, <1>6, <1>7, QueueFrameBut
<1>9. /\ q \in StreamRecord /\ q.queue = Append(<<>>, ResetFrame)
      /\ q.place = WithState(r, st).place /\ q.flow = WithState(r, st).flow
      /\ q.state = WithState(r, st).state /\ q.requested = 0 /\ q.buffered = 0
  <2> DEFINE w == WithState(r, st)
  <2>1. w \in StreamRecord /\ Cleared(w) \in StreamRecord
    BY <1>2, <1>6, <1>7, RecordTypes
  <2>2. Queued(Cleared(w), ResetFrame) \in StreamRecord
    BY <1>2, <1>7, <2>1, RecordTypes
  <2> HIDE DEF w
  <2> QED
    BY <2>1, <2>2, ClearedFields, QueuedFields DEF w
<1>10. Octets(q.queue) = 0
  <2>1. <<>> \in Seq(Frames)
    OBVIOUS
  <2>2. Octets(<<>>) = 0
    BY <2>1, OctetsType
  <2>3. Octets(Append(<<>>, ResetFrame)) = Octets(<<>>) + ResetFrame.sz
    BY <1>7, <2>1, OctetsOfAppend
  <2> QED
    BY <1>7, <1>9, <2>2, <2>3
<1> HIDE DEF q, k
<1> DEFINE sz == q.flow.available
<1>11. sz \in Nat
  BY <1>4, <1>9, MaxWindowAssumption DEF Sortable, InBounds
<1>12. StoredSound(Less(q, sz), 0, low[s], IsServer(k))
  <2>1. /\ Less(q, sz) \in StreamRecord /\ Less(q, sz).flow.window = q.flow.window
        /\ Less(q, sz).flow.available = 0
        /\ Less(q, sz).place = q.place /\ Less(q, sz).state = q.state
        /\ Less(q, sz).requested = 0 /\ Less(q, sz).buffered = 0
        /\ Less(q, sz).queue = q.queue
    <3>1. sz \in Int /\ q.flow.available = sz /\ sz - sz = 0
      BY <1>11
    <3> HIDE DEF sz
    <3> QED
      BY <1>9, <3>1, LessFields
  <2>2. Octets(Less(q, sz).queue) = 0 /\ Less(q, sz).flow.window = WithState(r, st).flow.window
    BY <1>9, <1>10, <2>1
  <2> HIDE DEF sz
  <2> QED
    BY <1>4, <1>9, <2>1, <2>2, DrainedSound
<1>13. extra2[s] = 0
  BY <1>1 DEF extra2
<1>14. IsStored(k.streams[s]) /\ k.streams[s].flow.available >= 0
  BY <1>4, <1>8, <1>9, <1>11 DEF Sortable, IsStored
<1>15. Sound(j, extra2, low, 0) /\ Steady(k, j)
  BY <1>8, <1>12, <1>13, <1>14, ReclaimAllSound
<1> HIDE DEF j
<1>16. Handled(k, j, s)
  BY <1>14, <1>15, SteadyHandled
<1>17. Handled(c, k, s)
  BY <1>8, <1>14 DEF Handled, Kept, FlightKept, SameBooks, Elsewhere, Alike
<1>18. Handled(i, j, s)
  BY <1>3, <1>6, <1>16, <1>17, HandledTrans
<1>19. Flying(j, rest) = extra2
  <2>1. j.inFlight = IF i.inFlight = s THEN Drop ELSE i.inFlight
    BY <1>3, <1>5, <1>8, <1>15 DEF SameBooks, Steady, Failed
  <2> QED
    BY <2>1, FlyingFailed DEF extra, extra2
<1> QED
  BY <1>15, <1>18, <1>19 DEF Whole, j, k, c

\* The same on a stream whose HEADERS wait in pending_open.
LEMMA SendResetEarly ==
  ASSUME NEW i, NEW s \in Streams, NEW rest \in Nat, NEW low,
         Whole(i, rest, low), IsStored(i.streams[s]),
         NEW reset, Turned(i, reset, s, SetReset("LocalReset"), Flying(i, rest), low),
         IsPendingOpen(i, s)
  PROVE  LET j == ReclaimAll(QueueFrame(reset, s, ResetFrame), s)
         IN  Whole(j, rest, low) /\ Handled(i, j, s)
<1> DEFINE r == i.streams[s]
           st == SetReset("LocalReset")
           k == QueueFrame(reset, s, ResetFrame)
           j == ReclaimAll(k, s)
           extra == Flying(i, rest)
<1>1. SoundBut(i, s, extra, low, 0) /\ StoredSound(r, extra[s], low[s], IsServer(i))
      /\ r \in StreamRecord /\ i \in InnerRecord /\ extra \in [Streams -> Nat]
      /\ low \in [Streams -> -MaxWindow .. 0]
  BY StoredAt, SoundType DEF StoredSound, Whole
<1>2. st \in States /\ Ensues(r.state, st)
  BY <1>1, ResetStates DEF Ensues, Errors, LocalErrors, StoredSound, Reasons
<1>3. ~IsServer(i)
  <2>1. IsServer(i) => i.openQ = <<>>
    BY <1>1 DEF SoundBut
  <2> QED
    BY <2>1, EmptyQueue DEF IsPendingOpen
<1> HIDE DEF st
<1>4. /\ SoundBut(reset, s, extra, low, 0)
      /\ reset.streams[s] = WithState(r, st)
      /\ SameBooks(i, reset) /\ Handled(i, reset, s)
      /\ IsServer(reset) = IsServer(i)
  BY DEF Turned, st
<1>5. StoredSound(WithState(r, st), extra[s], low[s], IsServer(i))
  BY <1>1, <1>2, <1>3, StateSound
<1> HIDE DEF extra
<1>6. Sound(reset, extra, low, 0) /\ IsStored(reset.streams[s])
  BY <1>4, <1>5, SoundFrom DEF StoredSound
<1>7. ResetFrame \in Frames /\ ResetFrame.sz = 0
  BY MaxWindowAssumption DEF ResetFrame, Frames, Frame, Kinds
<1>8. Sound(k, extra, low, 0) /\ SameBooks(reset, k) /\ Handled(reset, k, s)
  BY <1>6, <1>7, QueueFrameSound
<1> HIDE DEF k
<1> DEFINE q == k.streams[s]
           sz == q.flow.available
<1>9. SoundBut(k, s, extra, low, 0) /\ StoredSound(q, extra[s], low[s], IsServer(k))
      /\ ~IsServer(k)
  BY <1>3, <1>4, <1>8, StoredAt DEF Handled, IsServer, SameBooks
<1>10. sz \in Nat /\ sz \in Int /\ q \in StreamRecord /\ q.flow.available = sz
  BY <1>9, MaxWindowAssumption DEF StoredSound, InBounds
<1> HIDE DEF q
<1>11. StoredSound(Less(q, sz), extra[s], low[s], IsServer(k))
  <2>1. /\ Less(q, sz) \in StreamRecord /\ Alike(q, Less(q, sz))
        /\ Less(q, sz).flow.available = 0
    <3>1. sz - sz = 0
      BY <1>10
    <3> HIDE DEF sz
    <3> QED
      BY <1>10, <3>1, LessType
  <2>2. /\ q.requested \in Nat /\ WindowSize(q.flow) \in Nat /\ 0 \in 0 .. MaxWindow
    BY <1>9, MaxWindowAssumption, SendAssumption DEF StoredSound, InBounds, WindowSize, AsSize
  <2> HIDE DEF sz
  <2> QED
    BY <1>9, <2>1, <2>2, ShareChanges
<1>12. IsStored(k.streams[s]) /\ k.streams[s].flow.available >= 0
  BY <1>9, <1>10 DEF q, StoredSound
<1>13. Sound(j, extra, low, 0) /\ Steady(k, j)
  BY <1>9, <1>11, <1>12, ReclaimAllSound DEF q
<1> HIDE DEF j
<1>14. Handled(k, j, s)
  BY <1>12, <1>13, SteadyHandled
<1>15. Handled(i, j, s)
  BY <1>4, <1>8, <1>14, HandledTrans
<1>16. Flying(j, rest) = extra
  <2>1. j.inFlight = i.inFlight
    BY <1>4, <1>8, <1>13 DEF SameBooks, Steady
  <2> QED
    BY <2>1, FlyingKept DEF extra
<1> QED
  BY <1>13, <1>15, <1>16 DEF Whole, j, k

LEMMA SendResetSound ==
  ASSUME NEW i, NEW s \in Streams, NEW rest \in Nat, NEW low,
         Whole(i, rest, low), IsStored(i.streams[s])
  PROVE  Whole(SendReset(i, s), rest, low) /\ Handled(i, SendReset(i, s), s)
<1> DEFINE r == i.streams[s]
           reset == [i EXCEPT !.streams[s].state = SetReset("LocalReset")]
           extra == Flying(i, rest)
<1>1. SoundBut(i, s, extra, low, 0) /\ StoredSound(r, extra[s], low[s], IsServer(i))
      /\ r \in StreamRecord /\ r.state \in States /\ i \in InnerRecord
  BY StoredAt, SoundType DEF StoredSound, StreamRecord, Whole
<1>5. Turned(i, reset, s, SetReset("LocalReset"), extra, low)
  <2> DEFINE st == SetReset("LocalReset")
  <2>1. st \in States
    BY ResetStates DEF Errors, LocalErrors, Reasons
  <2> HIDE DEF st
  <2>2. Turned(i, [i EXCEPT !.streams[s].state = st], s, st, extra, low)
    BY <1>1, <2>1, StateBut DEF Turned
  <2> QED
    BY <2>2 DEF st
<1>2. CASE IsReset(r.state)
  <2>1. Steady(i, i)
    BY SteadyRefl
  <2> QED
    BY <1>2, <2>1, SteadyHandled DEF SendReset
<1>3. CASE ~IsReset(r.state) /\ IsClosed(r.state) /\ r.queue = <<>>
  <2> DEFINE st == SetReset("LocalReset")
  <2>1. st \in States /\ Ensues(r.state, st) /\ IsSendClosed(r.state) /\ ~Discards(r.state)
    <3>1. ~Discards(r.state)
      BY <1>3 DEF IsReset, Discards, IsScheduledReset, ClosedBy, EndStream
    <3> QED
      BY <1>1, <1>3, <3>1, ResetStates, StateKinds DEF Ensues, Errors, LocalErrors, Reasons
  <2> HIDE DEF st
  <2>2. /\ SoundBut(reset, s, extra, low, 0)
        /\ reset.streams[s] = WithState(r, st)
        /\ SameBooks(i, reset) /\ Handled(i, reset, s)
        /\ IsServer(reset) = IsServer(i)
    BY <1>5 DEF Turned, st
  <2>3. SendReset(i, s) = reset
    BY <1>3 DEF SendReset
  <2> HIDE DEF reset
  <2>4. IsServer(i) => Settled(WithState(r, st))
    BY <1>1, <2>1, WithStateFields DEF Settled, StoredSound
  <2>5. StoredSound(WithState(r, st), extra[s], low[s], IsServer(i))
    BY <1>1, <2>1, <2>4, StateSound
  <2>6. Sound(reset, extra, low, 0)
    BY <2>2, <2>5, SoundFrom
  <2>7. Flying(reset, rest) = extra
    BY <2>2, FlyingKept DEF SameBooks
  <2> QED
    BY <2>2, <2>3, <2>6, <2>7 DEF Whole
<1>4. CASE ~IsReset(r.state) /\ ~(IsClosed(r.state) /\ r.queue = <<>>)
  <2>1. SendReset(i, s) = ReclaimAll(QueueFrame(
             IF IsPendingOpen(i, s) THEN reset ELSE ClearQueue(reset, s), s, ResetFrame), s)
    BY <1>4 DEF SendReset
  <2> HIDE DEF reset
  <2> DEFINE early == ReclaimAll(QueueFrame(reset, s, ResetFrame), s)
             late == ReclaimAll(QueueFrame(ClearQueue(reset, s), s, ResetFrame), s)
  <2>2. CASE IsPendingOpen(i, s)
    <3>1. SendReset(i, s) = early
      BY <2>1, <2>2
    <3>2. Whole(early, rest, low) /\ Handled(i, early, s)
      BY <1>5, <2>2, SendResetEarly
    <3> HIDE DEF early
    <3> QED
      BY <3>1, <3>2
  <2>3. CASE ~IsPendingOpen(i, s)
    <3>1. SendReset(i, s) = late
      BY <2>1, <2>3
    <3>2. Whole(late, rest, low) /\ Handled(i, late, s)
      BY <1>5, <2>3, SendResetLate
    <3> HIDE DEF late
    <3> QED
      BY <3>1, <3>2
  <2> QED
    BY <2>2, <2>3
<1> QED
  BY <1>2, <1>3, <1>4

\* Recv::enqueue_reset_expiration
LEMMA EnqueueResetSound ==
  ASSUME NEW i, NEW s \in Streams, NEW extra, NEW low, NEW due,
         Sound(i, extra, low, due), IsStored(i.streams[s])
  PROVE  LET j == EnqueueResetExpiration(i, s)
         IN  /\ Sound(j, extra, low, due) /\ Handled(i, j, s)
             /\ j.inFlight = i.inFlight /\ j.streams = i.streams
<1> DEFINE j == EnqueueResetExpiration(i, s)
           k == [i EXCEPT !.resetQ = Append(@, s), !.numResets = @ + 1]
<1>1. CASE ~(IsLocalError(i.streams[s].state) /\ ~IsPendingReset(i, s) /\ i.numResets < MaxResets)
  <2>1. j = i /\ Steady(i, i)
    BY <1>1, SteadyRefl DEF EnqueueResetExpiration
  <2> QED
    BY <2>1, SteadyHandled
<1>2. CASE IsLocalError(i.streams[s].state) /\ ~IsPendingReset(i, s) /\ i.numResets < MaxResets
  <2>1. j = k
    BY <1>2 DEF EnqueueResetExpiration
  <2> HIDE DEF j
  <2>2. i \in InnerRecord /\ i.resetQ \in Seq(Streams) /\ i.numResets \in Int
    BY SoundType
  <2>3. /\ Append(i.resetQ, s) \in Seq(Streams)
        /\ Len(Append(i.resetQ, s)) = Len(i.resetQ) + 1 /\ Len(i.resetQ) \in Nat
        /\ \A t \in Streams : Contains(Append(i.resetQ, s), t) <=> Contains(i.resetQ, t) \/ t = s
    <3>1. Push(i.resetQ, s) = Append(i.resetQ, s)
      BY <1>2 DEF Push, IsPendingReset
    <3>2. LET p == Push(i.resetQ, s)
          IN  p \in Seq(Streams)
              /\ \A t \in Streams : Contains(p, t) <=> Contains(i.resetQ, t) \/ t = s
      <4> DEFINE q == i.resetQ
      <4>1. q \in Seq(Streams)
        BY <2>2
      <4> HIDE DEF q
      <4>2. LET p == Push(q, s)
            IN  p \in Seq(Streams)
                /\ \A t \in Streams : Contains(p, t) <=> Contains(q, t) \/ t = s
        BY <4>1, PushQueue
      <4> QED
        BY <4>2 DEF q
    <3> QED
      BY <2>2, <3>1, <3>2
  <2>4. /\ j.resetQ = Append(i.resetQ, s) /\ j.numResets = i.numResets + 1
        /\ j.streams = i.streams /\ j.flow = i.flow /\ j.peer = i.peer
        /\ j.initWindow = i.initWindow /\ j.maxStreams = i.maxStreams
        /\ j.maxStreamId = i.maxStreamId /\ j.numStreams = i.numStreams
        /\ j.sendQ = i.sendQ /\ j.capacityQ = i.capacityQ /\ j.openQ = i.openQ
        /\ j.inFlight = i.inFlight
    BY <2>1, <2>2 DEF InnerRecord
  <2>5. j \in InnerRecord
    <3> DEFINE p == Append(i.resetQ, s)
               n == i.numResets + 1
    <3>1. p \in Seq(Streams) /\ n \in Int /\ j = [i EXCEPT !.resetQ = p, !.numResets = n]
      BY <2>1, <2>2, <2>3
    <3> HIDE DEF p, n
    <3> QED
      BY <2>2, <3>1 DEF InnerRecord
  <2>6. /\ Scope(extra, low) /\ Account(i, due) /\ Keys(i) /\ Slots(i) /\ Resets(i)
        /\ (IsServer(i) => i.openQ = <<>>)
        /\ \A t \in Streams : t # Nobody => StreamSound(i.streams[t], extra[t], low[t], IsServer(i))
    BY DEF Sound, SoundBut
  <2>7. IsServer(j) = IsServer(i)
    BY <2>4 DEF IsServer
  <2>8. Resets(j)
    BY <1>2, <2>2, <2>3, <2>4, <2>6, SendAssumption DEF Resets
  <2>9. Keys(j)
    BY <2>3, <2>4, <2>6 DEF Keys, InQueue
  <2>10. Account(j, due) /\ Slots(j)
    BY <2>4, <2>6 DEF Account, Slots
  <2>11. Sound(j, extra, low, due)
    BY <2>4, <2>5, <2>6, <2>7, <2>8, <2>9, <2>10 DEF Sound, SoundBut
  <2>12. Handled(i, j, s)
    BY <2>3, <2>4 DEF Handled, Kept, FlightKept, Alike
  <2> QED
    BY <2>4, <2>11, <2>12 DEF j
<1> QED
  BY <1>1, <1>2

LEMMA EnqueueResetWhole ==
  ASSUME NEW i, NEW s \in Streams, NEW rest, NEW low,
         Whole(i, rest, low), IsStored(i.streams[s])
  PROVE  /\ Whole(EnqueueResetExpiration(i, s), rest, low)
         /\ Handled(i, EnqueueResetExpiration(i, s), s)
<1> DEFINE j == EnqueueResetExpiration(i, s)
<1>1. /\ Sound(j, Flying(i, rest), low, 0) /\ Handled(i, j, s) /\ j.inFlight = i.inFlight
  BY EnqueueResetSound DEF Whole
<1> HIDE DEF j
<1>2. Flying(j, rest) = Flying(i, rest)
  BY <1>1, FlyingKept
<1> QED
  BY <1>1, <1>2 DEF Whole, j

\* Actions::send_reset
LEMMA ResetStreamSound ==
  ASSUME NEW i, NEW s \in Streams, NEW rest \in Nat, NEW low,
         Whole(i, rest, low), IsStored(i.streams[s])
  PROVE  Whole(ResetStream(i, s), rest, low) /\ Handled(i, ResetStream(i, s), s)
<1> DEFINE j == SendReset(i, s)
<1>1. Whole(j, rest, low) /\ Handled(i, j, s)
  BY SendResetSound
<1> HIDE DEF j
<1>2. Whole(EnqueueResetExpiration(j, s), rest, low)
      /\ Handled(j, EnqueueResetExpiration(j, s), s)
  BY <1>1, EnqueueResetWhole DEF Handled
<1> QED
  BY <1>1, <1>2, HandledTrans DEF ResetStream, j

\* The record of a stream whose reset is scheduled, and which keeps of its
\* share what its queue needs.
LEMMA ScheduledSound ==
  ASSUME NEW r, NEW extra, NEW low, NEW server, NEW reason \in Reasons,
         StoredSound(r, extra, low, server), ~IsClosed(r.state),
         reason = "NO_ERROR" => IsSendClosed(r.state)
  PROVE  LET st == SetScheduledReset(reason)
             spare == r.flow.available - r.buffered
             sz == IF spare <= 0 THEN 0 ELSE spare
         IN  StoredSound(Less(WithState(r, st), sz), extra, low, server)
<1> DEFINE st == SetScheduledReset(reason)
           spare == r.flow.available - r.buffered
           sz == IF spare <= 0 THEN 0 ELSE spare
           r2 == WithState(r, st)
           r3 == Less(r2, sz)
<1>1. /\ r \in StreamRecord /\ IsStored(r) /\ InBounds(r) /\ Fits(r) /\ r.state \in States
      /\ (server => Settled(r)) /\ r.buffered = Octets(r.queue) + extra /\ Linking(r, low)
  BY DEF StoredSound, StreamRecord
<1>2. /\ st \in States /\ IsClosed(st) /\ IsSendClosed(st) /\ ~CanSendOpen(st)
      /\ (Discards(st) <=> reason # "NO_ERROR") /\ Ensues(r.state, st)
      /\ (~IsClosed(r.state) => ~Discards(r.state))
  BY <1>1, ResetStates, StateKinds DEF Ensues, Errors, LocalErrors
<1>3. Sortable(r2, low)
  BY <1>1, <1>2, StateSortable DEF Sortable
<1>4. /\ r2 \in StreamRecord /\ r2.state = st /\ r2.place = r.place /\ r2.flow = r.flow
      /\ r2.requested = r.requested /\ r2.buffered = r.buffered /\ r2.queue = r.queue
  BY <1>1, <1>3, WithStateFields DEF Sortable
<1>5. r.flow.available \in 0 .. MaxWindow /\ r.buffered \in Nat /\ r.requested \in Nat /\ sz \in Nat
  BY <1>1, MaxWindowAssumption, SendAssumption DEF InBounds
<1>6. /\ 0 <= r.flow.available - sz /\ r.flow.available - sz <= r.flow.available
      /\ (r.buffered = 0 => r.flow.available - sz = 0)
  BY <1>5
<1> HIDE DEF r2, sz
<1>7. /\ r3 \in StreamRecord /\ r3.flow.window = r.flow.window
      /\ r3.flow.available = r.flow.available - sz
      /\ r3.place = r.place /\ r3.state = st
      /\ r3.requested = r.requested /\ r3.buffered = r.buffered /\ r3.queue = r.queue
  <2>1. r2 \in StreamRecord /\ sz \in Int
    BY <1>4, <1>5
  <2>2. /\ r3 \in StreamRecord /\ r3.flow.window = r2.flow.window
        /\ r3.flow.available = r2.flow.available - sz
        /\ r3.place = r2.place /\ r3.state = r2.state
        /\ r3.requested = r2.requested /\ r3.buffered = r2.buffered /\ r3.queue = r2.queue
    BY <2>1, LessFields
  <2> HIDE DEF r3
  <2> QED
    BY <1>4, <2>2
<1> HIDE DEF r3, st
<1>8. IsStored(r3) /\ r3.buffered = Octets(r3.queue) + extra /\ Unasked(r3)
  BY <1>1, <1>2, <1>7 DEF IsStored, Unasked
<1>9. InBounds(r3)
  BY <1>1, <1>5, <1>6, <1>7, MaxWindowAssumption DEF InBounds
<1>10. Fits(r3)
  <2>1. WindowSize(r3.flow) = WindowSize(r.flow) /\ r.flow.available <= WindowSize(r.flow)
        /\ WindowSize(r.flow) \in Int
    BY <1>1, <1>7, MaxWindowAssumption DEF Fits, WindowSize, AsSize, InBounds
  <2> QED
    BY <1>1, <1>5, <1>6, <1>7, <2>1 DEF Fits
<1>11. Linking(r3, low)
  <2>1. r3.place = r2.place /\ r3.buffered = r2.buffered
        /\ r3.state = r2.state /\ r3.flow.window = r2.flow.window
    BY <1>4, <1>7
  <2> QED
    BY <1>3, <2>1 DEF Sortable, Linking, CannotSend
<1>12. server => Settled(r3)
  <2>1. CASE reason = "NO_ERROR"
    BY <1>1, <1>2, <1>5, <1>6, <1>7, <2>1 DEF Settled
  <2>2. CASE reason # "NO_ERROR"
    BY <1>2, <1>6, <1>7, <2>2 DEF Settled
  <2> QED
    BY <2>1, <2>2
<1> QED
  BY <1>7, <1>8, <1>9, <1>10, <1>11, <1>12 DEF StoredSound, r3, r2, sz, st

\* Send::schedule_implicit_reset
LEMMA ScheduleImplicitResetSound ==
  ASSUME NEW i, NEW s \in Streams, NEW rest \in Nat, NEW low, NEW reason \in Reasons,
         Whole(i, rest, low), IsStored(i.streams[s]),
         reason = "NO_ERROR" => IsSendClosed(i.streams[s].state)
  PROVE  /\ Whole(ScheduleImplicitReset(i, s, reason), rest, low)
         /\ Handled(i, ScheduleImplicitReset(i, s, reason), s)
<1> DEFINE r == i.streams[s]
           st == SetScheduledReset(reason)
           reset == [i EXCEPT !.streams[s].state = st]
           extra == Flying(i, rest)
           k == ReclaimReserved(reset, s)
           j == ScheduleSend(k, s)
<1>1. SoundBut(i, s, extra, low, 0) /\ StoredSound(r, extra[s], low[s], IsServer(i))
      /\ r \in StreamRecord /\ r.state \in States /\ i \in InnerRecord
  BY StoredAt, SoundType DEF StoredSound, StreamRecord, Whole
<1>2. CASE IsClosed(r.state)
  <2>1. Steady(i, i)
    BY SteadyRefl
  <2> QED
    BY <1>2, <2>1, SteadyHandled DEF ScheduleImplicitReset
<1>3. CASE ~IsClosed(r.state)
  <2>1. st \in States
    BY ResetStates DEF Errors, LocalErrors
  <2>2. ScheduleImplicitReset(i, s, reason) = j
    BY <1>3 DEF ScheduleImplicitReset
  <2> DEFINE q == WithState(r, st)
             sz == r.flow.available - r.buffered
  <2>3. StoredSound(Less(q, IF sz <= 0 THEN 0 ELSE sz), extra[s], low[s], IsServer(i))
    BY <1>1, <1>3, ScheduledSound
  <2> HIDE DEF st
  <2>4. /\ SoundBut(reset, s, extra, low, 0)
        /\ reset.streams[s] = q /\ SameBooks(i, reset) /\ Handled(i, reset, s)
        /\ IsServer(reset) = IsServer(i)
    BY <1>1, <2>1, StateBut
  <2>5. ReclaimReserved(reset, s) = Reclaim(reset, s, sz)
    <3>1. q.flow = r.flow /\ q.buffered = r.buffered
      BY <1>1, WithStateFields
    <3> HIDE DEF reset, q
    <3> QED
      BY <2>4, <3>1 DEF ReclaimReserved
  <2>6. sz \in Int
    BY <1>1, MaxWindowAssumption, SendAssumption DEF StoredSound, InBounds
  <2> HIDE DEF reset, q, sz
  <2>7. IsStored(reset.streams[s])
    BY <2>4 DEF Handled
  <2>8. StoredSound(Less(reset.streams[s], IF sz <= 0 THEN 0 ELSE sz), extra[s], low[s], IsServer(reset))
    BY <2>3, <2>4
  <2>9. Sound(k, extra, low, 0) /\ Steady(reset, k)
    BY <2>4, <2>5, <2>6, <2>7, <2>8, ReclaimSound
  <2> HIDE DEF k
  <2>10. Handled(reset, k, s) /\ IsStored(k.streams[s])
    BY <2>7, <2>9, SteadyHandled DEF Handled
  <2>11. Sound(j, extra, low, 0) /\ Steady(k, j)
    BY <2>9, <2>10, ScheduleSendSound
  <2> HIDE DEF j
  <2>12. Handled(i, j, s)
    <3>1. Handled(k, j, s)
      BY <2>10, <2>11, SteadyHandled
    <3> QED
      BY <2>4, <2>10, <3>1, HandledTrans
  <2>13. Flying(j, rest) = extra
    <3>1. j.inFlight = i.inFlight
      BY <2>4, <2>9, <2>11 DEF SameBooks, Steady
    <3> QED
      BY <3>1, FlyingKept
  <2> QED
    BY <2>2, <2>11, <2>12, <2>13 DEF Whole, j
<1> QED
  BY <1>2, <1>3

\* maybe_cancel
LEMMA MaybeCancelSound ==
  ASSUME NEW i, NEW s \in Streams, NEW rest \in Nat, NEW low,
         Whole(i, rest, low), IsStored(i.streams[s])
  PROVE  Whole(MaybeCancel(i, s), rest, low) /\ Handled(i, MaybeCancel(i, s), s)
<1> DEFINE r == i.streams[s]
           answered == /\ i.peer = "server"
                       /\ IsSendClosed(r.state) /\ IsRecvStreaming(r.state)
           reason == IF answered THEN "NO_ERROR" ELSE "CANCEL"
           k == ScheduleImplicitReset(i, s, reason)
           j == EnqueueResetExpiration(k, s)
<1>1. CASE IsClosed(r.state)
  <2>1. Steady(i, i)
    BY SteadyRefl
  <2> QED
    BY <1>1, <2>1, SteadyHandled DEF MaybeCancel
<1>2. CASE ~IsClosed(r.state)
  <2>1. MaybeCancel(i, s) = j
    BY <1>2 DEF MaybeCancel
  <2>2. reason \in Reasons /\ (reason = "NO_ERROR" => IsSendClosed(r.state))
    BY DEF Reasons
  <2> HIDE DEF reason
  <2>3. Whole(k, rest, low) /\ Handled(i, k, s)
    BY <2>2, ScheduleImplicitResetSound
  <2> HIDE DEF k
  <2>4. Whole(j, rest, low) /\ Handled(k, j, s)
    BY <2>3, EnqueueResetWhole DEF Handled
  <2> QED
    BY <2>1, <2>3, <2>4, HandledTrans
<1> QED
  BY <1>1, <1>2

\* The handle of s changes, and nothing depends on it.
LEMMA HandleSound ==
  ASSUME NEW i, NEW s \in Streams, NEW rest \in Nat, NEW low, NEW handle \in Handle,
         Whole(i, rest, low), IsStored(i.streams[s])
  PROVE  LET j == [i EXCEPT !.streams[s].handle = handle]
         IN  Whole(j, rest, low) /\ Handled(i, j, s)
<1> DEFINE r == i.streams[s]
           q == [r EXCEPT !.handle = handle]
           extra == Flying(i, rest)
           j == [i EXCEPT !.streams[s].handle = handle]
<1>1. /\ SoundBut(i, s, extra, low, 0) /\ StoredSound(r, extra[s], low[s], IsServer(i))
      /\ r \in StreamRecord /\ i \in InnerRecord /\ extra \in [Streams -> Nat]
      /\ Scope(extra, low)
  BY StoredAt, SoundType DEF StoredSound, Whole, Scope
<1>2. j = With(i, s, q)
  BY <1>1 DEF With, InnerRecord
<1>3. /\ q \in StreamRecord
      /\ q.place = r.place /\ q.counted = r.counted /\ q.flow = r.flow /\ q.state = r.state
      /\ q.requested = r.requested /\ q.buffered = r.buffered /\ q.queue = r.queue
  BY <1>1 DEF StreamRecord
<1>4. StoredSound(q, extra[s], low[s], IsServer(i))
  BY <1>1, <1>3 DEF StoredSound, IsStored, InBounds, Fits, Unasked, Settled, Linking, CannotSend
<1> HIDE DEF q, extra, j
<1>5. j.streams[s] = q /\ SameBooks(i, j) /\ IsServer(j) = IsServer(i)
  BY <1>1, <1>2, <1>3, WithFields DEF SameBooks, IsServer
<1>6. IsStored(q) /\ q.flow.available = r.flow.available
  BY <1>3, <1>4 DEF StoredSound
<1>7. Handled(i, j, s)
  BY <1>1, <1>2, <1>3, <1>6, WithHandled
<1>8. SoundBut(j, s, extra, low, 0)
  <2>1. \A t \in Streams : t # s => extra[t] = extra[t]
    OBVIOUS
  <2> QED
    BY <1>1, <1>2, <1>3, <1>6, <2>1, WithBut
<1>9. Sound(j, extra, low, 0)
  BY <1>4, <1>5, <1>8, SoundFrom
<1>10. Flying(j, rest) = extra
  BY <1>5, FlyingKept DEF SameBooks, extra
<1> QED
  BY <1>7, <1>9, <1>10 DEF Whole, j

\* A stream fails: its state changes, its queue is cleared, its share goes.
LEMMA TornDownSound ==
  ASSUME NEW i, NEW s \in Streams, NEW rest \in Nat, NEW low, NEW st,
         Whole(i, rest, low), IsStored(i.streams[s]), Ensues(i.streams[s].state, st)
  PROVE  LET j == Transition(i, FailSending([i EXCEPT !.streams[s].state = st], s), s)
         IN  /\ Whole(j, rest, low) /\ Kept(i, j, s)
             /\ IsStored(j.streams[s]) => j.streams[s].buffered = 0
<1> DEFINE r == i.streams[s]
           q == WithState(r, st)
           extra == Flying(i, rest)
           c == [i EXCEPT !.streams[s].state = st]
           k == FailSending(c, s)
           j == Transition(i, k, s)
<1>1. /\ SoundBut(i, s, extra, low, 0) /\ StoredSound(r, extra[s], low[s], IsServer(i))
      /\ r \in StreamRecord /\ i \in InnerRecord /\ extra \in [Streams -> Nat]
      /\ st \in States
  BY StoredAt, SoundType DEF StoredSound, Whole, Ensues
<1>2. /\ SoundBut(c, s, extra, low, 0) /\ c.streams[s] = q
      /\ SameBooks(i, c) /\ Handled(i, c, s)
  <2>1. Turned(i, c, s, st, extra, low)
    BY <1>1, StateBut DEF Turned
  <2> QED
    BY <2>1 DEF Turned
<1>3. Sortable(q, low[s])
  BY <1>1, StoredSortable, StateSortable
<1> HIDE DEF c, q
<1>4. /\ Sound(k, [extra EXCEPT ![s] = 0], low, 0) /\ Failed(c, k, s)
  BY <1>2, <1>3, FailSendingSound
<1>5. c \in InnerRecord /\ IsStored(c.streams[s])
  BY <1>2 DEF SoundBut, Handled
<1>6. Alike(Cleared(c.streams[s]), k.streams[s]) /\ c.streams[s] \in StreamRecord
  BY <1>2, <1>3, <1>4 DEF Failed, Sortable
<1>7. k.streams[s].buffered = 0
  BY <1>6, ClearedFields DEF Alike
<1>8. Handled(c, k, s)
  BY <1>4, <1>5, FailedHandled
<1>9. k.inFlight = IF i.inFlight = s THEN Drop ELSE i.inFlight
  BY <1>2, <1>4 DEF Failed, SameBooks
<1> HIDE DEF k
<1>10. Handled(i, k, s)
  BY <1>2, <1>8, HandledTrans
<1>11. /\ Sound(j, [extra EXCEPT ![s] = 0], low, 0) /\ Kept(i, j, s) /\ Settles(k, j, s)
  BY <1>4, <1>10, TransitionSound
<1> HIDE DEF j
<1>12. Flying(j, rest) = [extra EXCEPT ![s] = 0]
  <2>1. j.inFlight = k.inFlight
    BY <1>11 DEF Settles
  <2> QED
    BY <1>9, <2>1, FlyingFailed
<1>13. IsStored(j.streams[s]) => j.streams[s].buffered = 0
  BY <1>7, <1>11 DEF Settles, IsFlushed
<1> QED
  BY <1>11, <1>12, <1>13 DEF Whole, j, k, c

\* A stream the connection fails.
LEMMA FailStreamSound ==
  ASSUME NEW i, NEW s \in Streams, NEW rest \in Nat, NEW low, NEW error \in Errors,
         Whole(i, rest, low), IsStored(i.streams[s])
  PROVE  LET j == FailStream(i, s, error)
         IN  /\ Whole(j, rest, low) /\ Kept(i, j, s)
             /\ IsStored(j.streams[s]) => j.streams[s].buffered = 0
<1> DEFINE st == HandleError(i.streams[s].state, error)
<1>1. i \in InnerRecord /\ i.streams[s] \in StreamRecord /\ i.streams[s].state \in States
  BY SoundType DEF Whole, StreamRecord
<1>2. Ensues(i.streams[s].state, st)
  BY <1>1, HandleErrorState
<1>3. FailStream(i, s, error)
        = Transition(i, FailSending([i EXCEPT !.streams[s].state = st], s), s)
  BY <1>1 DEF FailStream, InnerRecord
<1> HIDE DEF st
<1> QED
  BY <1>2, <1>3, TornDownSound

\* Capacity moves between streams, and what the codec holds may be dropped.
Carried(i, j) ==
  j.peer = i.peer /\ j.initWindow = i.initWindow /\ FlightKept(i, j)

LEMMA CarriedTrans ==
  ASSUME NEW i, NEW j, NEW k, Carried(i, j), Carried(j, k)
  PROVE  Carried(i, k)
BY DEF Carried, FlightKept, Streams, Drop

LEMMA KeptCarried ==
  ASSUME NEW i, NEW j, NEW s, Kept(i, j, s)
  PROVE  Carried(i, j)
BY DEF Carried, Kept

\* No stream in the store has octets left to write.
Drained(i, streams) ==
  \A t \in streams : IsStored(i.streams[t]) => i.streams[t].buffered = 0

LEMMA FailNextSound ==
  ASSUME NEW i, NEW s \in Streams, NEW rest \in Nat, NEW low, NEW error \in Errors,
         NEW last \in Nat, Whole(i, rest, low)
  PROVE  LET j == FailNext(i, s, last, error)
         IN  /\ Whole(j, rest, low) /\ Carried(i, j)
             /\ \A streams \in SUBSET Streams :
                  last = 0 /\ Drained(i, streams) => Drained(j, streams \cup {s})
<1> DEFINE j == FailNext(i, s, last, error)
<1>1. CASE s \in Linked(i) /\ s > last
  <2>1. j = FailStream(i, s, error) /\ IsStored(i.streams[s])
    BY <1>1 DEF FailNext, Linked, IsStored
  <2> HIDE DEF j
  <2>2. /\ Whole(j, rest, low) /\ Kept(i, j, s)
        /\ IsStored(j.streams[s]) => j.streams[s].buffered = 0
    BY <2>1, FailStreamSound
  <2>3. ASSUME NEW streams \in SUBSET Streams, Drained(i, streams)
        PROVE  Drained(j, streams \cup {s})
    <3>1. SUFFICES ASSUME NEW t \in streams, t # s, IsStored(j.streams[t])
                   PROVE  j.streams[t].buffered = 0
      BY <2>2 DEF Drained
    <3>2. Alike(i.streams[t], j.streams[t])
      BY <2>2, <3>1 DEF Kept
    <3> QED
      BY <2>3, <3>1, <3>2 DEF Alike, Drained, IsStored
  <2> QED
    BY <2>2, <2>3, KeptCarried DEF j
<1>2. CASE ~(s \in Linked(i) /\ s > last)
  <2>1. j = i /\ Carried(i, i)
    BY <1>2 DEF FailNext, Carried, FlightKept
  <2>2. last = 0 /\ IsStored(i.streams[s]) => i.streams[s].buffered = 0
    <3>1. SUFFICES ASSUME last = 0, IsStored(i.streams[s])
                   PROVE  i.streams[s].buffered = 0
      OBVIOUS
    <3>2. i.streams[s].place = "unlinked"
      BY <1>2, <3>1 DEF Linked, IsStored, Streams
    <3>3. Linking(i.streams[s], low[s])
      BY <3>1, StoredAt DEF Whole, StoredSound
    <3> QED
      BY <3>2, <3>3 DEF Linking
  <2> QED
    BY <2>1, <2>2 DEF Drained
<1> QED
  BY <1>1, <1>2

LEMMA OrdersType ==
  ASSUME NEW order \in Orders
  PROVE  /\ \A k \in 1 .. NStreams : order[k] \in Streams
         /\ \A s \in Streams : \E k \in 1 .. NStreams : order[k] = s
<1>1. order \in [1 .. NStreams -> Streams] /\ Range(order) = Streams
  BY DEF Orders
<1> QED
  BY <1>1 DEF Range

\* Store::for_each, which fails every stream after those up to "last".
LEMMA FailAfterSound ==
  ASSUME NEW i, NEW order \in Orders, NEW last \in Nat, NEW rest \in Nat, NEW low,
         NEW error \in Errors, Whole(i, rest, low)
  PROVE  LET j == FailAfter(i, order, last, error)
         IN  Whole(j, rest, low) /\ Carried(i, j) /\ (last = 0 => Drained(j, Streams))
<1> DEFINE seen(k) == {order[m] : m \in 1 .. k}
           good == [k \in Nat |->
                      {j \in InnerRecord : /\ Whole(j, rest, low) /\ Carried(i, j)
                                           /\ last = 0 => Drained(j, seen(k))}]
           step == [k \in Nat |-> [j \in InnerRecord |-> FailNext(j, order[k], last, error)]]
<1>1. i \in good[0] /\ NStreams \in Nat
  <2>1. i \in InnerRecord
    BY SoundType DEF Whole
  <2>2. Carried(i, i) /\ Drained(i, {})
    BY DEF Carried, FlightKept, Drained
  <2>3. seen(0) = {}
    OBVIOUS
  <2> HIDE DEF seen
  <2> QED
    BY <2>1, <2>2, <2>3, StreamsType
<1>2. ASSUME NEW k \in 1 .. NStreams, NEW j \in good[k - 1]
      PROVE  step[k][j] \in good[k]
  <2> DEFINE n == FailNext(j, order[k], last, error)
  <2>1. k \in Nat /\ k - 1 \in Nat /\ order[k] \in Streams
    BY <1>1, OrdersType
  <2>2. /\ j \in InnerRecord /\ Whole(j, rest, low) /\ Carried(i, j)
        /\ (last = 0 => Drained(j, seen(k - 1)))
    BY <2>1
  <2>3. seen(k - 1) \in SUBSET Streams /\ seen(k) = seen(k - 1) \cup {order[k]}
    <3>1. \A m \in 1 .. k - 1 : order[m] \in Streams
      BY <1>1, OrdersType
    <3>2. \A m \in 1 .. k : m = k \/ m \in 1 .. k - 1
      OBVIOUS
    <3>3. \A m \in 1 .. k - 1 : m \in 1 .. k
      OBVIOUS
    <3> QED
      BY <2>1, <3>1, <3>2, <3>3
  <2> HIDE DEF seen
  <2>4. /\ Whole(n, rest, low) /\ Carried(j, n)
        /\ (last = 0 => Drained(n, seen(k - 1) \cup {order[k]}))
    BY <2>1, <2>2, <2>3, FailNextSound
  <2>5. step[k][j] = n
    BY <2>1, <2>2
  <2> HIDE DEF n
  <2>6. n \in InnerRecord
    BY <2>4, SoundType DEF Whole
  <2>7. Carried(i, n)
    BY <2>2, <2>4, CarriedTrans
  <2> QED
    BY <2>1, <2>3, <2>4, <2>5, <2>6, <2>7
<1>3. FailAfter(i, order, last, error) = Loop(step, i, NStreams)
  BY DEF FailAfter
<1>4. Loop(step, i, NStreams) \in good[NStreams]
  <2> HIDE DEF good, step
  <2>1. Leads(step, good, NStreams)
    BY <1>2 DEF Leads
  <2> QED
    BY <1>1, <2>1, LoopLeads
<1>5. seen(NStreams) = Streams
  BY OrdersType
<1> HIDE DEF step, seen
<1> QED
  BY <1>1, <1>3, <1>4, <1>5

\* All streams fail.
LEMMA FailAllSound ==
  ASSUME NEW i, NEW order \in Orders, NEW rest \in Nat, NEW low,
         NEW error \in Errors, Whole(i, rest, low)
  PROVE  LET j == FailAll(i, order, error)
         IN  Whole(j, rest, low) /\ Carried(i, j) /\ Drained(j, Streams)
BY FailAfterSound DEF FailAll

\* A lower bound of the windows may be lowered.
LEMMA LowWeaken ==
  ASSUME NEW i, NEW extra, NEW low, NEW low2, NEW due, Sound(i, extra, low, due),
         low2 \in [Streams -> -MaxWindow .. 0], \A s \in Streams : low2[s] <= low[s]
  PROVE  Sound(i, extra, low2, due)
<1>1. ASSUME NEW s \in Streams, StreamSound(i.streams[s], extra[s], low[s], IsServer(i))
      PROVE  StreamSound(i.streams[s], extra[s], low2[s], IsServer(i))
  <2>1. CASE StoredSound(i.streams[s], extra[s], low[s], IsServer(i))
    <3>1. i.streams[s].flow.window \in Int /\ low[s] \in Int /\ low2[s] \in Int /\ low2[s] <= low[s]
      BY <2>1, SoundType, MaxWindowAssumption DEF StoredSound, InBounds
    <3>2. Linking(i.streams[s], low2[s])
      BY <2>1, <3>1 DEF StoredSound, Linking
    <3> QED
      BY <2>1, <3>2 DEF StreamSound, StoredSound
  <2> QED
    BY <1>1, <2>1 DEF StreamSound
<1> QED
  BY <1>1 DEF Sound, SoundBut, Scope

----------------------------------------------------------------------------
(* Resets that expire, and queues that are emptied at the end.             *)

LEMMA SettlesCarried ==
  ASSUME NEW i, NEW j, NEW s, Settles(i, j, s)
  PROVE  Carried(i, j) /\ j.inFlight = i.inFlight
BY DEF Settles, Carried, FlightKept

LEMMA SettlesDrained ==
  ASSUME NEW i, NEW j, NEW s \in Streams, Settles(i, j, s), Drained(i, Streams)
  PROVE  Drained(j, Streams)
BY DEF Settles, Drained, Elsewhere, IsFlushed, IsStored

\* The transition after which a stream has left a queue.
LEMMA LeaveSound ==
  ASSUME NEW i, NEW s \in Streams, NEW rest, NEW low,
         Whole(i, rest, low), IsStored(i.streams[s])
  PROVE  Whole(Leave(i, s), rest, low) /\ Settles(i, Leave(i, s), s)
<1> DEFINE w == IsPendingReset(i, s)
           j == TransitionAfter(i, s, w)
<1>1. w \in BOOLEAN /\ WasReset(i, s, w) /\ Sound(i, Flying(i, rest), low, 0)
  BY DEF IsPendingReset, WasReset, Contains, Whole
<1> HIDE DEF w
<1>2. Sound(j, Flying(i, rest), low, 0) /\ Settles(i, j, s)
  BY <1>1, TransitionAfterSound
<1>3. Leave(i, s) = j
  BY DEF Leave, w
<1> HIDE DEF j
<1>4. Flying(j, rest) = Flying(i, rest)
  BY <1>2, SettlesCarried, FlyingKept
<1> QED
  BY <1>2, <1>3, <1>4 DEF Whole

\* clear_expired_reset_streams
LEMMA ExpireSound ==
  ASSUME NEW i, NEW rest, NEW low, Whole(i, rest, low), i.resetQ # <<>>
  PROVE  LET j == Expire(i)
         IN  /\ Whole(j, rest, low) /\ Carried(i, j)
             /\ Drained(i, Streams) => Drained(j, Streams)
             /\ Len(j.resetQ) = Len(i.resetQ) - 1
<1> DEFINE s == Head(i.resetQ)
           q == Tail(i.resetQ)
           c == [i EXCEPT !.resetQ = q]
           j == TransitionAfter(c, s, TRUE)
           extra == Flying(i, rest)
<1>1. /\ Sound(i, extra, low, 0) /\ i \in InnerRecord /\ i.resetQ \in Seq(Streams)
      /\ i.numResets \in Int
  BY SoundType DEF Whole
<1>2. /\ s \in Streams /\ Contains(i.resetQ, s)
      /\ q \in Seq(Streams) /\ Len(q) = Len(i.resetQ) - 1 /\ Len(q) \in Nat
      /\ \A t \in Streams : Contains(q, t) => Contains(i.resetQ, t)
  BY <1>1, TailQueue
<1>3. IsStored(i.streams[s])
  BY <1>1, <1>2, StoredInQueue DEF InQueue
<1> HIDE DEF q, s
<1>4. /\ c.resetQ = q /\ c.streams = i.streams /\ c.flow = i.flow /\ c.peer = i.peer
      /\ c.initWindow = i.initWindow /\ c.maxStreams = i.maxStreams
      /\ c.numStreams = i.numStreams /\ c.numResets = i.numResets
      /\ c.sendQ = i.sendQ /\ c.capacityQ = i.capacityQ /\ c.openQ = i.openQ
      /\ c.inFlight = i.inFlight
  BY <1>1 DEF InnerRecord
<1>5. c \in InnerRecord
  BY <1>1, <1>2 DEF InnerRecord
<1> HIDE DEF c
<1>6. /\ Scope(extra, low) /\ Account(i, 0) /\ Keys(i) /\ Slots(i) /\ Resets(i)
      /\ (IsServer(i) => i.openQ = <<>>)
      /\ \A t \in Streams : t # Nobody => StreamSound(i.streams[t], extra[t], low[t], IsServer(i))
  BY <1>1 DEF Sound, SoundBut
<1>7. IsServer(c) = IsServer(i)
  BY <1>4 DEF IsServer
<1>8. Resets(c) /\ Len(c.resetQ) < c.numResets
  BY <1>1, <1>2, <1>4, <1>6 DEF Resets
<1>9. Keys(c)
  BY <1>2, <1>4, <1>6 DEF Keys, InQueue
<1>10. Account(c, 0) /\ Slots(c)
  BY <1>4, <1>6 DEF Account, Slots
<1>11. Sound(c, extra, low, 0)
  BY <1>4, <1>5, <1>6, <1>7, <1>8, <1>9, <1>10 DEF Sound, SoundBut
<1>12. IsStored(c.streams[s]) /\ WasReset(c, s, TRUE)
  BY <1>3, <1>4, <1>8 DEF WasReset
<1>13. Sound(j, extra, low, 0) /\ Settles(c, j, s)
  BY <1>2, <1>11, <1>12, TransitionAfterSound
<1>14. Expire(i) = j
  BY DEF Expire, c, q, s
<1> HIDE DEF j
<1>15. Carried(i, c) /\ Drained(i, Streams) => Drained(c, Streams)
  BY <1>4 DEF Carried, FlightKept, Drained
<1>16. Carried(c, j) /\ j.inFlight = i.inFlight /\ (Drained(c, Streams) => Drained(j, Streams))
  BY <1>2, <1>4, <1>13, SettlesCarried, SettlesDrained
<1>17. Carried(i, c) /\ Carried(i, j)
  <2>1. Carried(i, c)
    BY <1>4 DEF Carried, FlightKept
  <2> QED
    BY <2>1, <1>16, CarriedTrans
<1>18. Flying(j, rest) = extra
  BY <1>16, FlyingKept
<1>19. Len(j.resetQ) = Len(i.resetQ) - 1
  BY <1>2, <1>4, <1>13 DEF Settles
<1> QED
  BY <1>13, <1>14, <1>15, <1>16, <1>17, <1>18, <1>19 DEF Whole

\* clear_queues: pending_capacity.
LEMMA LeaveCapacitySound ==
  ASSUME NEW i, NEW rest, NEW low, Whole(i, rest, low), i.capacityQ # <<>>
  PROVE  LET j == LeaveCapacity(i)
         IN  /\ Whole(j, rest, low) /\ Carried(i, j)
             /\ Drained(i, Streams) => Drained(j, Streams)
             /\ Len(j.capacityQ) = Len(i.capacityQ) - 1
<1> DEFINE s == Head(i.capacityQ)
           c == [i EXCEPT !.capacityQ = Tail(@)]
           j == Leave(c, s)
<1>1. Sound(i, Flying(i, rest), low, 0) /\ i \in InnerRecord /\ i.capacityQ \in Seq(Streams)
  BY SoundType DEF Whole
<1>2. /\ Sound(c, Flying(i, rest), low, 0) /\ Steady(i, c) /\ c.streams = i.streams
      /\ s \in Streams /\ IsStored(i.streams[s])
  BY <1>1, PopCapacitySound
<1>3. Len(c.capacityQ) = Len(i.capacityQ) - 1
  BY <1>1, TailQueue DEF InnerRecord
<1>4. LeaveCapacity(i) = j
  BY DEF LeaveCapacity
<1> HIDE DEF c, s
<1>5. Whole(c, rest, low) /\ IsStored(c.streams[s])
  BY <1>2, FlyingKept DEF Whole, Steady, SameBooks
<1>6. Whole(j, rest, low) /\ Settles(c, j, s)
  BY <1>2, <1>5, LeaveSound
<1> HIDE DEF j
<1>7. Carried(i, c) /\ (Drained(i, Streams) => Drained(c, Streams))
  BY <1>2 DEF Steady, SameBooks, Carried, FlightKept, Drained
<1>8. Carried(c, j) /\ (Drained(c, Streams) => Drained(j, Streams))
  BY <1>2, <1>6, SettlesCarried, SettlesDrained
<1>9. Len(j.capacityQ) = Len(i.capacityQ) - 1
  BY <1>3, <1>6 DEF Settles
<1>10. Carried(i, j)
  BY <1>7, <1>8, CarriedTrans
<1> QED
  BY <1>4, <1>6, <1>7, <1>8, <1>9, <1>10

\* The state of a stream that has nothing buffered changes.
LEMMA StateWhenDrained ==
  ASSUME NEW r, NEW extra, NEW low, NEW server, StoredSound(r, extra, low, server),
         r.buffered = 0, NEW st, Ensues(r.state, st), st = r.state \/ IsSendClosed(r.state)
  PROVE  StoredSound(WithState(r, st), extra, low, server)
<1> DEFINE q == WithState(r, st)
<1>1. r \in StreamRecord
  BY DEF StoredSound
<1>2. Sortable(q, low)
  BY StoredSortable, StateSortable
<1>3. /\ q.state = st /\ q.place = r.place /\ q.flow = r.flow /\ q.requested = r.requested
      /\ q.buffered = r.buffered /\ q.queue = r.queue
  BY <1>1, WithStateFields
<1> HIDE DEF q
<1>4. Unasked(q) /\ Fits(q) /\ q.buffered = Octets(q.queue) + extra
  BY <1>3 DEF Unasked, Fits, Ensues, StoredSound
<1>5. server => Settled(q)
  <2>1. server => Settled(r)
    BY DEF StoredSound
  <2> QED
    BY <1>3, <2>1 DEF Settled
<1> QED
  BY <1>2, <1>4, <1>5 DEF StoredSound, Sortable, q

\* clear_pending_send.  A reset that was scheduled counts as made, and its
\* stream has nothing buffered any more.
LEMMA LeaveSendSound ==
  ASSUME NEW i, NEW rest \in Nat, NEW low, Whole(i, rest, low), i.sendQ # <<>>,
         Drained(i, Streams)
  PROVE  LET j == LeaveSend(i)
         IN  /\ Whole(j, rest, low) /\ Carried(i, j)
             /\ Drained(j, Streams)
             /\ Len(j.sendQ) = Len(i.sendQ) - 1
<1> DEFINE s == Head(i.sendQ)
           r == i.streams[s]
           st == IF IsScheduledReset(r.state) THEN SetReset("LocalReset") ELSE r.state
           c == [i EXCEPT !.sendQ = Tail(@)]
           d == [c EXCEPT !.streams[s].state = st]
           j == Leave(d, s)
           extra == Flying(i, rest)
<1>1. Sound(i, extra, low, 0) /\ i \in InnerRecord /\ i.sendQ \in Seq(Streams)
  BY SoundType DEF Whole
<1>2. /\ s \in Streams /\ Contains(i.sendQ, s)
      /\ Tail(i.sendQ) \in Seq(Streams) /\ Len(Tail(i.sendQ)) = Len(i.sendQ) - 1
      /\ \A t \in Streams : Contains(Tail(i.sendQ), t) => Contains(i.sendQ, t)
  BY <1>1, TailQueue
<1>3. IsStored(i.streams[s])
  BY <1>1, <1>2, StoredInQueue DEF InQueue
<1>4. LeaveSend(i) = j
  <2>1. d = [i EXCEPT !.sendQ = Tail(@), !.streams[s].state = st]
    BY <1>1, <1>2 DEF InnerRecord
  <2>2. [i EXCEPT !.sendQ = Tail(@), !.streams[s].state = st]
          = [i EXCEPT !.sendQ = Tail(@),
                      !.streams[s].state =
                         IF IsScheduledReset(@) THEN SetReset("LocalReset") ELSE @]
    BY <1>1, <1>2 DEF InnerRecord
  <2> HIDE DEF d
  <2> QED
    BY <2>1, <2>2 DEF LeaveSend
<1> HIDE DEF s
<1>5. /\ c.streams = i.streams /\ c.flow = i.flow /\ c.sendQ = Tail(i.sendQ)
      /\ c.capacityQ = i.capacityQ /\ SameBooks(i, c)
  BY <1>1 DEF InnerRecord, SameBooks
<1>6. c \in InnerRecord
  BY <1>1, <1>2 DEF InnerRecord
<1> HIDE DEF c
<1>7. \A t \in Streams : InQueue(c, t) => InQueue(i, t)
  BY <1>2, <1>5 DEF InQueue, SameBooks
<1>8. Sound(c, extra, low, 0)
  BY <1>1, <1>5, <1>6, <1>7, QueueStep DEF SameBooks
<1>9. /\ SoundBut(c, s, extra, low, 0) /\ StoredSound(r, extra[s], low[s], IsServer(c))
      /\ r \in StreamRecord /\ r.state \in States /\ c.streams[s] = r
  BY <1>2, <1>3, <1>5, <1>8, StoredAt DEF StoredSound, StreamRecord
<1>10. /\ Ensues(r.state, st)
       /\ st # r.state => IsClosed(r.state)
  <2>1. CASE IsScheduledReset(r.state)
    <3>1. /\ st = SetReset("LocalReset") /\ st \in States
          /\ IsClosed(st) /\ IsSendClosed(st) /\ ~CanSendOpen(st)
      BY <2>1, ResetStates DEF Errors, LocalErrors, Reasons
    <3> QED
      BY <1>9, <2>1, <3>1, StateKinds DEF Ensues
  <2>2. CASE ~IsScheduledReset(r.state)
    BY <1>9, <2>2 DEF Ensues
  <2> QED
    BY <2>1, <2>2
<1>11. r.buffered = 0
  BY <1>2, <1>3 DEF Drained
<1>12. st \in States
  BY <1>10 DEF Ensues
<1> HIDE DEF st
<1>13. Turned(c, d, s, st, extra, low)
  <2>1. IsStored(c.streams[s])
    BY <1>3, <1>9
  <2>2. SoundBut(c, s, extra, low, 0)
    BY <1>9
  <2>3. LET e == [c EXCEPT !.streams[s].state = st]
        IN  Turned(c, e, s, st, extra, low)
    <3> HIDE DEF extra
    <3> QED
      BY <1>2, <1>12, <2>1, <2>2, StateBut DEF Turned
  <2> QED
    BY <2>3
<1> DEFINE q == WithState(r, st)
<1>14. st = r.state \/ IsSendClosed(r.state)
  BY <1>9, <1>10, StateKinds
<1>15. q.buffered = r.buffered
  BY <1>9, WithStateFields
<1>16. StoredSound(q, extra[s], low[s], IsServer(c))
  <2> HIDE DEF r
  <2> QED
    BY <1>9, <1>10, <1>11, <1>14, StateWhenDrained
<1> HIDE DEF q
<1> HIDE DEF d, r
<1>17. /\ SoundBut(d, s, extra, low, 0) /\ d.streams[s] = q /\ SameBooks(c, d)
       /\ Handled(c, d, s) /\ IsServer(d) = IsServer(c)
  BY <1>9, <1>13, <1>15 DEF Turned, q
<1>18. Sound(d, extra, low, 0)
  <2>1. StoredSound(d.streams[s], extra[s], low[s], IsServer(d))
    BY <1>16, <1>17
  <2> QED
    BY <1>2, <1>17, <2>1, SoundFrom
<1>19. Whole(d, rest, low) /\ IsStored(d.streams[s])
  BY <1>5, <1>17, <1>18, FlyingKept DEF Whole, SameBooks, Handled
<1>20. Whole(j, rest, low) /\ Settles(d, j, s)
  BY <1>2, <1>19, LeaveSound
<1>21. Drained(d, Streams)
  <2>1. SUFFICES ASSUME NEW t \in Streams, IsStored(d.streams[t])
                 PROVE  d.streams[t].buffered = 0
    BY DEF Drained
  <2>2. CASE t = s
    BY <1>11, <1>15, <1>17, <2>2
  <2>3. CASE t # s
    BY <1>5, <1>17, <2>1, <2>3 DEF Handled, Kept, Alike, Drained, IsStored
  <2> QED
    BY <2>2, <2>3
<1>22. d.sendQ = Tail(i.sendQ)
  BY <1>5, <1>6 DEF d, InnerRecord
<1> HIDE DEF j
<1>23. Carried(i, j)
  <2>1. Carried(i, d)
    BY <1>5, <1>17 DEF SameBooks, Carried, FlightKept
  <2> QED
    BY <1>20, <2>1, SettlesCarried, CarriedTrans
<1>24. Drained(j, Streams) /\ Len(j.sendQ) = Len(i.sendQ) - 1
  BY <1>2, <1>20, <1>21, <1>22, SettlesDrained DEF Settles
<1> QED
  BY <1>4, <1>20, <1>23, <1>24

\* A stream leaves pending_open.
LEMMA PopOpenSound ==
  ASSUME NEW i, NEW extra, NEW low, Sound(i, extra, low, 0), i.openQ # <<>>
  PROVE  LET s == Head(i.openQ)
             j == [i EXCEPT !.openQ = Tail(@)]
         IN  /\ Sound(j, extra, low, 0) /\ s \in Streams /\ IsStored(i.streams[s])
             /\ j.streams = i.streams /\ j.inFlight = i.inFlight
             /\ j.peer = i.peer /\ j.initWindow = i.initWindow
             /\ j.openQ = Tail(i.openQ) /\ Len(j.openQ) = Len(i.openQ) - 1
             /\ j.numStreams = i.numStreams
             /\ i.numStreams + Untaken(j.streams, j.openQ) < NStreams
<1> DEFINE s == Head(i.openQ)
           q == Tail(i.openQ)
           j == [i EXCEPT !.openQ = q]
<1>1. i \in InnerRecord /\ i.openQ \in Seq(Streams) /\ i.numStreams \in Int
  BY SoundType
<1>2. /\ Scope(extra, low) /\ Account(i, 0) /\ Keys(i) /\ Slots(i) /\ Resets(i)
      /\ (IsServer(i) => i.openQ = <<>>)
      /\ \A t \in Streams : t # Nobody => StreamSound(i.streams[t], extra[t], low[t], IsServer(i))
  BY DEF Sound, SoundBut
<1>3. /\ s \in Streams /\ Contains(i.openQ, s)
      /\ q \in Seq(Streams) /\ Len(q) = Len(i.openQ) - 1
      /\ \A t \in Streams : Contains(q, t) => Contains(i.openQ, t)
      /\ \A t \in Streams : Contains(i.openQ, t) => t = s \/ Contains(q, t)
      /\ Distinct(q) /\ ~Contains(q, s)
  BY <1>1, <1>2, TailQueue DEF Slots
<1>4. IsStored(i.streams[s])
  BY <1>3, StoredInQueue DEF InQueue
<1> HIDE DEF q, s
<1>5. /\ j.openQ = q /\ j.streams = i.streams /\ j.flow = i.flow /\ j.peer = i.peer
      /\ j.initWindow = i.initWindow /\ j.resetQ = i.resetQ
      /\ j.numStreams = i.numStreams /\ j.numResets = i.numResets
      /\ j.sendQ = i.sendQ /\ j.capacityQ = i.capacityQ /\ j.inFlight = i.inFlight
  BY <1>1 DEF InnerRecord
<1>6. j \in InnerRecord
  BY <1>1, <1>3 DEF InnerRecord
<1> HIDE DEF j
<1>7. IsServer(j) = IsServer(i)
  BY <1>5 DEF IsServer
<1>8. /\ Untaken(i.streams, i.openQ) \in Nat
      /\ Untaken(j.streams, q) = Untaken(i.streams, i.openQ) - 1
  <2> DEFINE strs == i.streams
             p == i.openQ
  <2>1. \A t \in Streams : t # s => Waits(strs[t], q, t) = Waits(strs[t], p, t)
    BY <1>3 DEF Waits
  <2>2. Waits(strs[s], q, s) = 0 /\ Waits(strs[s], p, s) = 1
    BY <1>3, <1>4 DEF Waits, IsStored
  <2> HIDE DEF strs, p
  <2>3. /\ Untaken(strs, p) \in Nat
        /\ Untaken(strs, q) = Untaken(strs, p) + Waits(strs[s], q, s) - Waits(strs[s], p, s)
    BY <1>3, <2>1, UntakenChange
  <2>4. Untaken(strs, p) \in Nat /\ Untaken(strs, q) = Untaken(strs, p) - 1
    BY <2>2, <2>3
  <2> QED
    BY <1>5, <2>4 DEF strs, p
<1>9. i.numStreams + Untaken(j.streams, j.openQ) < NStreams
  <2>1. i.numStreams + Untaken(i.streams, i.openQ) <= NStreams
    BY <1>2 DEF Slots
  <2> QED
    BY <1>1, <1>5, <1>8, <2>1, StreamsType
<1>10. Slots(j)
  <2>1. Taken(j.streams) <= j.numStreams /\ Distinct(j.openQ)
    BY <1>2, <1>3, <1>5 DEF Slots
  <2>2. j.numStreams + Untaken(j.streams, j.openQ) <= NStreams
    BY <1>1, <1>5, <1>8, <1>9, StreamsType
  <2> QED
    BY <2>1, <2>2 DEF Slots
<1>11. Keys(j)
  BY <1>2, <1>3, <1>5 DEF Keys, InQueue
<1>12. ~IsServer(i)
  BY <1>1, <1>2, <1>3, EmptyQueue
<1>13. Sound(j, extra, low, 0)
  BY <1>2, <1>5, <1>6, <1>7, <1>10, <1>11, <1>12 DEF Sound, SoundBut, Account, Resets
<1> QED
  BY <1>3, <1>4, <1>5, <1>9, <1>13 DEF j, q, s

\* clear_queues: pending_open.
LEMMA LeaveOpenSound ==
  ASSUME NEW i, NEW rest, NEW low, Whole(i, rest, low), i.openQ # <<>>
  PROVE  LET j == LeaveOpen(i)
         IN  /\ Whole(j, rest, low) /\ Carried(i, j)
             /\ Drained(i, Streams) => Drained(j, Streams)
             /\ Len(j.openQ) = Len(i.openQ) - 1
<1> DEFINE s == Head(i.openQ)
           c == [i EXCEPT !.openQ = Tail(@)]
           j == Leave(c, s)
<1>1. Sound(i, Flying(i, rest), low, 0)
  BY DEF Whole
<1>2. /\ Sound(c, Flying(i, rest), low, 0) /\ c.streams = i.streams
      /\ c.inFlight = i.inFlight /\ c.peer = i.peer /\ c.initWindow = i.initWindow
      /\ Len(c.openQ) = Len(i.openQ) - 1
      /\ s \in Streams /\ IsStored(i.streams[s])
  BY <1>1, PopOpenSound
<1>3. LeaveOpen(i) = j
  BY DEF LeaveOpen
<1> HIDE DEF c, s
<1>4. Whole(c, rest, low) /\ IsStored(c.streams[s])
  BY <1>2, FlyingKept DEF Whole
<1>5. Whole(j, rest, low) /\ Settles(c, j, s)
  BY <1>2, <1>4, LeaveSound
<1> HIDE DEF j
<1>6. Carried(i, c) /\ (Drained(i, Streams) => Drained(c, Streams))
  BY <1>2 DEF Carried, FlightKept, Drained
<1>7. Carried(c, j) /\ (Drained(c, Streams) => Drained(j, Streams))
  BY <1>2, <1>5, SettlesCarried, SettlesDrained
<1>8. Len(j.openQ) = Len(i.openQ) - 1 /\ Carried(i, j)
  BY <1>2, <1>5, <1>6, <1>7, CarriedTrans DEF Settles
<1> QED
  BY <1>3, <1>5, <1>6, <1>7, <1>8

\* The value that a loop empties a queue of is still sound, and nothing of it
\* is left to write.
Ending(i, j, rest, low) ==
  /\ j \in InnerRecord
  /\ Whole(j, rest, low) /\ Carried(i, j) /\ Drained(j, Streams)

\* A turn takes one stream out of the queue.
Empties(step, left, n, rest, low) ==
  \A k \in 1 .. n : \A j \in InnerRecord :
    Whole(j, rest, low) /\ Drained(j, Streams) /\ left[j] > 0 =>
      /\ Ending(j, step[k][j], rest, low)
      /\ left[step[k][j]] = left[j] - 1

LEMMA EndingTrans ==
  ASSUME NEW i, NEW j, NEW k, NEW rest, NEW low,
         Carried(i, j), Ending(j, k, rest, low)
  PROVE  Ending(i, k, rest, low)
BY CarriedTrans DEF Ending

LEMMA EmptiedSound ==
  ASSUME NEW i, NEW rest, NEW low, NEW step, NEW left, NEW n \in Nat,
         Ending(i, i, rest, low), left[i] = n, Empties(step, left, n, rest, low)
  PROVE  Ending(i, Loop(step, i, n), rest, low)
<1> DEFINE good == [k \in Nat |-> {j \in InnerRecord : Ending(i, j, rest, low) /\ left[j] = n - k}]
<1>1. i \in good[0]
  BY DEF Ending
<1>2. ASSUME NEW k \in 1 .. n, NEW j \in good[k - 1]
      PROVE  step[k][j] \in good[k]
  <2>1. k \in Nat /\ k - 1 \in Nat
    OBVIOUS
  <2>2. j \in InnerRecord /\ Ending(i, j, rest, low) /\ left[j] = n - (k - 1)
    BY <2>1
  <2>3. left[j] > 0 /\ left[j] - 1 = n - k
    BY <2>2
  <2>4. /\ Ending(j, step[k][j], rest, low)
        /\ left[step[k][j]] = left[j] - 1
    BY <2>2, <2>3 DEF Empties, Ending
  <2>5. Ending(i, step[k][j], rest, low) /\ step[k][j] \in InnerRecord
    BY <2>2, <2>4, EndingTrans DEF Ending
  <2> QED
    BY <2>1, <2>3, <2>4, <2>5
<1> HIDE DEF good
<1>3. Loop(step, i, n) \in good[n]
  BY <1>1, <1>2, LoopLeads DEF Leads
<1> QED
  BY <1>3 DEF good

LEMMA ClearResetsSound ==
  ASSUME NEW i, NEW rest, NEW low, Ending(i, i, rest, low)
  PROVE  Ending(i, ClearResets(i), rest, low)
<1> DEFINE left == [j \in InnerRecord |-> Len(j.resetQ)]
           step == [k \in Nat |-> [j \in InnerRecord |-> Expire(j)]]
           n == Len(i.resetQ)
<1>1. n \in Nat /\ left[i] = n
  BY SoundType DEF Ending, Whole
<1>2. ASSUME NEW k \in 1 .. n, NEW j \in InnerRecord,
             Whole(j, rest, low), Drained(j, Streams), left[j] > 0
      PROVE  /\ Ending(j, step[k][j], rest, low)
             /\ left[step[k][j]] = left[j] - 1
  <2>1. k \in Nat /\ step[k][j] = Expire(j) /\ j.resetQ # <<>>
    BY <1>1, <1>2, EmptyQueue
  <2>2. /\ Whole(Expire(j), rest, low) /\ Carried(j, Expire(j)) /\ Drained(Expire(j), Streams)
        /\ Len(Expire(j).resetQ) = Len(j.resetQ) - 1
    BY <1>2, <2>1, ExpireSound
  <2>3. Expire(j) \in InnerRecord
    BY <2>2, SoundType DEF Whole
  <2> QED
    BY <2>1, <2>2, <2>3 DEF Ending
<1>3. ClearResets(i) = Loop(step, i, n)
  BY DEF ClearResets
<1> HIDE DEF left, step, n
<1>4. Empties(step, left, n, rest, low)
  BY <1>2 DEF Empties
<1> QED
  BY <1>1, <1>3, <1>4, EmptiedSound

LEMMA ClearCapacitySound ==
  ASSUME NEW i, NEW rest, NEW low, Ending(i, i, rest, low)
  PROVE  Ending(i, ClearCapacity(i), rest, low)
<1> DEFINE left == [j \in InnerRecord |-> Len(j.capacityQ)]
           step == [k \in Nat |-> [j \in InnerRecord |-> LeaveCapacity(j)]]
           n == Len(i.capacityQ)
<1>1. n \in Nat /\ left[i] = n
  BY SoundType DEF Ending, Whole
<1>2. ASSUME NEW k \in 1 .. n, NEW j \in InnerRecord,
             Whole(j, rest, low), Drained(j, Streams), left[j] > 0
      PROVE  /\ Ending(j, step[k][j], rest, low)
             /\ left[step[k][j]] = left[j] - 1
  <2> DEFINE m == LeaveCapacity(j)
  <2>1. k \in Nat /\ step[k][j] = m /\ j.capacityQ # <<>>
    BY <1>1, <1>2, EmptyQueue
  <2>2. /\ Whole(m, rest, low) /\ Carried(j, m) /\ Drained(m, Streams)
        /\ Len(m.capacityQ) = Len(j.capacityQ) - 1
    BY <1>2, <2>1, LeaveCapacitySound
  <2> HIDE DEF m
  <2>3. m \in InnerRecord
    BY <2>2, SoundType DEF Whole
  <2> QED
    BY <2>1, <2>2, <2>3 DEF Ending
<1>3. ClearCapacity(i) = Loop(step, i, n)
  BY DEF ClearCapacity
<1> HIDE DEF left, step, n
<1>4. Empties(step, left, n, rest, low)
  BY <1>2 DEF Empties
<1> QED
  BY <1>1, <1>3, <1>4, EmptiedSound

LEMMA ClearSendSound ==
  ASSUME NEW i, NEW rest \in Nat, NEW low, Ending(i, i, rest, low)
  PROVE  Ending(i, ClearSend(i), rest, low)
<1> DEFINE left == [j \in InnerRecord |-> Len(j.sendQ)]
           step == [k \in Nat |-> [j \in InnerRecord |-> LeaveSend(j)]]
           n == Len(i.sendQ)
<1>1. n \in Nat /\ left[i] = n
  BY SoundType DEF Ending, Whole
<1>2. ASSUME NEW k \in 1 .. n, NEW j \in InnerRecord,
             Whole(j, rest, low), Drained(j, Streams), left[j] > 0
      PROVE  /\ Ending(j, step[k][j], rest, low)
             /\ left[step[k][j]] = left[j] - 1
  <2> DEFINE m == LeaveSend(j)
  <2>1. k \in Nat /\ step[k][j] = m /\ j.sendQ # <<>>
    BY <1>1, <1>2, EmptyQueue
  <2>2. /\ Whole(m, rest, low) /\ Carried(j, m) /\ Drained(m, Streams)
        /\ Len(m.sendQ) = Len(j.sendQ) - 1
    BY <1>2, <2>1, LeaveSendSound
  <2> HIDE DEF m
  <2>3. m \in InnerRecord
    BY <2>2, SoundType DEF Whole
  <2> QED
    BY <2>1, <2>2, <2>3 DEF Ending
<1>3. ClearSend(i) = Loop(step, i, n)
  BY DEF ClearSend
<1> HIDE DEF left, step, n
<1>4. Empties(step, left, n, rest, low)
  BY <1>2 DEF Empties
<1> QED
  BY <1>1, <1>3, <1>4, EmptiedSound

LEMMA ClearOpenSound ==
  ASSUME NEW i, NEW rest, NEW low, Ending(i, i, rest, low)
  PROVE  Ending(i, ClearOpen(i), rest, low)
<1> DEFINE left == [j \in InnerRecord |-> Len(j.openQ)]
           step == [k \in Nat |-> [j \in InnerRecord |-> LeaveOpen(j)]]
           n == Len(i.openQ)
<1>1. n \in Nat /\ left[i] = n
  BY SoundType DEF Ending, Whole
<1>2. ASSUME NEW k \in 1 .. n, NEW j \in InnerRecord,
             Whole(j, rest, low), Drained(j, Streams), left[j] > 0
      PROVE  /\ Ending(j, step[k][j], rest, low)
             /\ left[step[k][j]] = left[j] - 1
  <2> DEFINE m == LeaveOpen(j)
  <2>1. k \in Nat /\ step[k][j] = m /\ j.openQ # <<>>
    BY <1>1, <1>2, EmptyQueue
  <2>2. /\ Whole(m, rest, low) /\ Carried(j, m) /\ Drained(m, Streams)
        /\ Len(m.openQ) = Len(j.openQ) - 1
    BY <1>2, <2>1, LeaveOpenSound
  <2> HIDE DEF m
  <2>3. m \in InnerRecord
    BY <2>2, SoundType DEF Whole
  <2> QED
    BY <2>1, <2>2, <2>3 DEF Ending
<1>3. ClearOpen(i) = Loop(step, i, n)
  BY DEF ClearOpen
<1> HIDE DEF left, step, n
<1>4. Empties(step, left, n, rest, low)
  BY <1>2 DEF Empties
<1> QED
  BY <1>1, <1>3, <1>4, EmptiedSound

\* Streams that nobody accepted lose their handle.
LEMMA ForsakeSound ==
  ASSUME NEW i, NEW s \in Streams, NEW rest \in Nat, NEW low, Ending(i, i, rest, low)
  PROVE  Ending(i, Forsake(i, s), rest, low)
<1>1. CASE ~(s \in Stored(i) /\ i.streams[s].handle = "waiting")
  BY <1>1 DEF Forsake
<1>2. CASE s \in Stored(i) /\ i.streams[s].handle = "waiting"
  <2> DEFINE c == [i EXCEPT !.streams[s].handle = "dropped"]
             j == TransitionAfter(c, s, FALSE)
  <2>1. Forsake(i, s) = j /\ IsStored(i.streams[s]) /\ "dropped" \in Handle
    BY <1>2 DEF Forsake, Stored, IsStored, Handle
  <2>2. Whole(i, rest, low) /\ Drained(i, Streams) /\ i \in InnerRecord
    BY DEF Ending
  <2>3. Whole(c, rest, low) /\ Handled(i, c, s)
    BY <2>1, <2>2, HandleSound
  <2>4. c.streams[s].buffered = i.streams[s].buffered
    BY <2>2 DEF InnerRecord
  <2> HIDE DEF c
  <2>5. Sound(c, Flying(c, rest), low, 0) /\ IsStored(c.streams[s]) /\ WasReset(c, s, FALSE)
    BY <2>3 DEF Whole, Handled, WasReset
  <2>6. Sound(j, Flying(c, rest), low, 0) /\ Settles(c, j, s)
    BY <2>5, TransitionAfterSound
  <2> HIDE DEF j
  <2>7. Drained(c, Streams)
    BY <2>1, <2>2, <2>3, <2>4 DEF Drained, Handled, Kept, Alike, IsStored
  <2>8. Drained(j, Streams) /\ Carried(c, j) /\ j.inFlight = c.inFlight
    BY <2>6, <2>7, SettlesDrained, SettlesCarried
  <2>9. Flying(j, rest) = Flying(c, rest)
    BY <2>8, FlyingKept
  <2>10. Carried(i, j)
    BY <2>3, <2>8, KeptCarried, CarriedTrans DEF Handled
  <2> QED
    BY <2>1, <2>6, <2>8, <2>9, <2>10, SoundType DEF Ending, Whole
<1> QED
  BY <1>1, <1>2

LEMMA ClearAcceptSound ==
  ASSUME NEW i, NEW rest \in Nat, NEW low, Ending(i, i, rest, low)
  PROVE  Ending(i, ClearAccept(i), rest, low)
<1> DEFINE S == {j \in InnerRecord : Ending(i, j, rest, low)}
           step == [s \in Nat |-> [j \in InnerRecord |-> Forsake(j, s)]]
<1>1. i \in S /\ NStreams \in Nat
  BY StreamsType DEF Ending
<1>2. ASSUME NEW k \in 1 .. NStreams, NEW j \in S
      PROVE  step[k][j] \in S
  <2> DEFINE m == Forsake(j, k)
  <2>1. k \in Nat /\ k \in Streams /\ step[k][j] = m
    BY <1>1 DEF Streams
  <2>2. Ending(j, j, rest, low) /\ Carried(i, j)
    BY DEF Ending, Carried, FlightKept
  <2>3. Ending(j, m, rest, low)
    BY <2>1, <2>2, ForsakeSound
  <2> HIDE DEF m
  <2>4. Ending(i, m, rest, low) /\ m \in InnerRecord
    BY <2>2, <2>3, EndingTrans DEF Ending
  <2> QED
    BY <2>1, <2>4
<1>3. ClearAccept(i) = Loop(step, i, NStreams)
  BY DEF ClearAccept
<1>4. Loop(step, i, NStreams) \in S
  <2> HIDE DEF S, step
  <2> QED
    BY <1>1, <1>2, LoopStays
<1> QED
  BY <1>3, <1>4

\* Inner::recv_eof
LEMMA EofSound ==
  ASSUME NEW i, NEW order \in Orders, NEW dropped \in BOOLEAN, NEW rest \in Nat, NEW low,
         Whole(i, rest, low)
  PROVE  LET failed == ClearResets(FailAll(i, order, "Io"))
             accepted == IF dropped THEN ClearAccept(failed) ELSE failed
             j == ClearOpen(ClearSend(ClearCapacity(accepted)))
         IN  Whole(j, rest, low) /\ Carried(i, j)
<1> DEFINE f == FailAll(i, order, "Io")
           failed == ClearResets(f)
           accepted == IF dropped THEN ClearAccept(failed) ELSE failed
           c == ClearCapacity(accepted)
           d == ClearSend(c)
           j == ClearOpen(d)
<1>0. \A k, l : Ending(k, l, rest, low) => Ending(l, l, rest, low) /\ Carried(k, l)
  BY DEF Ending, Carried, FlightKept
<1>1. Ending(i, f, rest, low)
  <2>1. "Io" \in Errors
    BY DEF Errors, LocalErrors, RemoteErrors
  <2>2. Whole(f, rest, low) /\ Carried(i, f) /\ Drained(f, Streams)
    BY <2>1, FailAllSound
  <2> QED
    BY <2>2, SoundType DEF Ending, Whole
<1> HIDE DEF f
<1>2. Ending(f, failed, rest, low)
  BY <1>0, <1>1, ClearResetsSound
<1> HIDE DEF failed
<1>3. Ending(failed, accepted, rest, low)
  BY <1>0, <1>2, ClearAcceptSound
<1> HIDE DEF accepted
<1>4. Ending(accepted, c, rest, low)
  BY <1>0, <1>3, ClearCapacitySound
<1> HIDE DEF c
<1>5. Ending(c, d, rest, low)
  BY <1>0, <1>4, ClearSendSound
<1> HIDE DEF d
<1>6. Ending(d, j, rest, low)
  BY <1>0, <1>5, ClearOpenSound
<1> HIDE DEF j
<1>7. Carried(i, j)
  BY <1>0, <1>1, <1>2, <1>3, <1>4, <1>5, <1>6, CarriedTrans
<1> QED
  BY <1>6, <1>7 DEF Ending, j, d, c, accepted, failed, f

----------------------------------------------------------------------------
(* Writing.                                                                *)

\* A stream takes its slot.
Counted(r) == [r EXCEPT !.counted = TRUE]

LEMMA CountedFields ==
  ASSUME NEW r \in StreamRecord
  PROVE  LET q == Counted(r)
         IN  /\ q \in StreamRecord /\ Takes(q) = 1
             /\ q.place = r.place /\ q.state = r.state /\ q.handle = r.handle
             /\ q.flow = r.flow /\ q.requested = r.requested
             /\ q.buffered = r.buffered /\ q.queue = r.queue
BY DEF Counted, StreamRecord, Takes

\* pop_pending_open
LEMMA PopPendingOpenSound ==
  ASSUME NEW i, NEW extra, NEW low, Sound(i, extra, low, 0)
  PROVE  LET j == PopPendingOpen(i)
         IN  /\ Sound(j, extra, low, 0)
             /\ j.inFlight = i.inFlight /\ j.peer = i.peer /\ j.initWindow = i.initWindow
<1>1. CASE i.openQ = <<>> \/ i.numStreams >= i.maxStreams
  BY <1>1 DEF PopPendingOpen
<1>2. CASE ~(i.openQ = <<>> \/ i.numStreams >= i.maxStreams)
  <2> DEFINE s == Head(i.openQ)
             r == i.streams[s]
             c == [i EXCEPT !.openQ = Tail(@)]
             d == [c EXCEPT !.numStreams = @ + 1, !.streams[s] = Counted(@),
                            !.sendQ = PushFront(@, s)]
             j == TryAssign(d, s)
  <2>1. i \in InnerRecord /\ i.openQ # <<>>
    BY <1>2, SoundType
  <2>2. /\ Sound(c, extra, low, 0) /\ s \in Streams /\ IsStored(r)
        /\ c.streams = i.streams /\ c.inFlight = i.inFlight
        /\ c.peer = i.peer /\ c.initWindow = i.initWindow
        /\ c.numStreams = i.numStreams
        /\ i.numStreams + Untaken(c.streams, c.openQ) < NStreams
    BY <2>1, PopOpenSound
  <2>3. PopPendingOpen(i) = j
    <3>1. d = [i EXCEPT !.openQ = Tail(@), !.numStreams = @ + 1,
                        !.streams[s].counted = TRUE, !.sendQ = PushFront(@, s)]
      BY <2>1, <2>2 DEF InnerRecord, Counted
    <3> HIDE DEF d
    <3> QED
      BY <1>2, <3>1 DEF PopPendingOpen
  <2>4. r \in StreamRecord
    BY <2>1, <2>2 DEF InnerRecord
  <2> HIDE DEF c, s
  <2> DEFINE q == Counted(r)
             p == PushFront(c.sendQ, s)
  <2>5. /\ q \in StreamRecord /\ Takes(q) = 1
        /\ q.place = r.place /\ q.state = r.state /\ q.flow = r.flow
        /\ q.requested = r.requested /\ q.buffered = r.buffered /\ q.queue = r.queue
    BY <2>4, CountedFields
  <2>6. c \in InnerRecord /\ c.sendQ \in Seq(Streams) /\ c.numStreams \in Int
        /\ c.streams \in [Streams -> StreamRecord]
    BY <2>2, SoundType
  <2>7. p \in Seq(Streams) /\ \A t \in Streams : Contains(p, t) <=> Contains(c.sendQ, t) \/ t = s
    BY <2>2, <2>6, PushFrontQueue
  <2>8. d = [c EXCEPT !.numStreams = c.numStreams + 1, !.streams = [c.streams EXCEPT ![s] = q],
                      !.sendQ = p]
    BY <2>2, <2>6 DEF InnerRecord
  <2> HIDE DEF q, p, d
  <2>9. /\ d.streams = [c.streams EXCEPT ![s] = q] /\ d.sendQ = p
        /\ d.numStreams = c.numStreams + 1 /\ d.flow = c.flow /\ d.peer = c.peer
        /\ d.initWindow = c.initWindow /\ d.capacityQ = c.capacityQ
        /\ d.openQ = c.openQ /\ d.resetQ = c.resetQ /\ d.numResets = c.numResets
        /\ d.inFlight = c.inFlight
    BY <2>6, <2>8 DEF InnerRecord
  <2>10. d \in InnerRecord
    <3> DEFINE strs == [c.streams EXCEPT ![s] = q]
               n == c.numStreams + 1
    <3>1. strs \in [Streams -> StreamRecord]
      BY <2>5, <2>6
    <3>0. n \in Int
      BY <2>6
    <3>2. d = [c EXCEPT !.numStreams = n, !.streams = strs, !.sendQ = p]
      BY <2>8
    <3> HIDE DEF strs, n
    <3> QED
      BY <2>6, <2>7, <3>0, <3>1, <3>2 DEF InnerRecord
  <2>11. d.streams[s] = q /\ Elsewhere(c, d, s) /\ IsServer(d) = IsServer(c)
    BY <2>2, <2>6, <2>9 DEF Elsewhere, IsServer
  <2>12. /\ SoundBut(c, s, extra, low, 0) /\ StoredSound(r, extra[s], low[s], IsServer(c))
         /\ Slots(c) /\ Resets(c) /\ Scope(extra, low) /\ Account(c, 0)
         /\ (IsServer(c) => c.openQ = <<>>)
    BY <2>2, StoredAt DEF SoundBut
  <2>13. StoredSound(q, extra[s], low[s], IsServer(d))
    BY <2>5, <2>11, <2>12
       DEF StoredSound, IsStored, InBounds, Fits, Unasked, Settled, Linking, CannotSend
  <2>14. Slots(d)
    <3> DEFINE strs == c.streams
               strs2 == d.streams
               o == c.openQ
    <3>1. \A t \in Streams : t # s => Takes(strs2[t]) = Takes(strs[t])
      BY <2>11 DEF Elsewhere
    <3>2. \A t \in Streams : t # s => Waits(strs2[t], o, t) = Waits(strs[t], o, t)
      BY <2>11 DEF Elsewhere
    <3>3. Waits(strs2[s], o, s) = Waits(strs[s], o, s) /\ Waits(strs[s], o, s) \in Int
      BY <2>2, <2>5, <2>11 DEF Waits
    <3>4. Takes(strs2[s]) = 1 /\ Takes(strs[s]) \in Nat
      BY <2>5, <2>11 DEF Takes
    <3> HIDE DEF strs, strs2, o
    <3>5. /\ Taken(strs) \in Nat
          /\ Taken(strs2) = Taken(strs) + Takes(strs2[s]) - Takes(strs[s])
      BY <2>2, <3>1, TakenChange
    <3>6. /\ Untaken(strs, o) \in Nat
          /\ Untaken(strs2, o) = Untaken(strs, o) + Waits(strs2[s], o, s) - Waits(strs[s], o, s)
      BY <2>2, <3>2, UntakenChange
    <3>7. Taken(strs) \in Nat /\ Taken(strs2) \in Int /\ Taken(strs2) <= Taken(strs) + 1
      BY <3>4, <3>5
    <3>8. Untaken(strs2, o) = Untaken(strs, o) /\ Untaken(strs, o) \in Nat
      BY <3>3, <3>6
    <3>9. Taken(strs) <= c.numStreams /\ c.numStreams + Untaken(strs, o) < NStreams
          /\ Distinct(o)
      BY <2>2, <2>12 DEF Slots, strs, o
    <3>10. Taken(strs2) <= d.numStreams /\ d.numStreams + Untaken(strs2, o) <= NStreams
      BY <2>6, <2>9, <3>7, <3>8, <3>9, StreamsType
    <3> QED
      BY <2>9, <3>9, <3>10 DEF Slots, strs2, o
  <2>15. KeysOf(c, d, s)
    BY <2>7, <2>9 DEF KeysOf, InQueue
  <2>16. d.flow.window - d.flow.available - d.streams[s].flow.available - 0
           = c.flow.window - c.flow.available - c.streams[s].flow.available - 0
    BY <2>2, <2>5, <2>9, <2>11
  <2>17. Resets(d) /\ (IsServer(d) => d.openQ = <<>>)
    BY <2>9, <2>11, <2>12 DEF Resets
  <2>18. d.flow.available >= 0 /\ d.flow.window <= MaxWindow
    BY <2>9, <2>12 DEF Account
  <2>19. \A t \in Streams : t # s => extra[t] = extra[t] /\ low[t] = low[t]
    OBVIOUS
  <2>20. Sound(d, extra, low, 0)
    <3>1. 0 \in Int /\ 0 \in Nat /\ d.peer = c.peer /\ s \in Streams
      BY <2>2, <2>9
    <3>2. StoredSound(d.streams[s], extra[s], low[s], IsServer(d))
      BY <2>11, <2>13
    <3> QED
      BY <3>1, <3>2, <2>10, <2>11, <2>12, <2>14, <2>15, <2>16, <2>17, <2>18, <2>19,
         StreamStepIn
  <2>21. IsStored(d.streams[s])
    BY <2>11, <2>13 DEF StoredSound
  <2>22. Sound(j, extra, low, 0) /\ Steady(d, j)
    BY <2>2, <2>20, <2>21, TryAssignSound
  <2> HIDE DEF j
  <2> QED
    BY <2>2, <2>3, <2>9, <2>22 DEF Steady, SameBooks
<1> QED
  BY <1>1, <1>2

\* A stream leaves pending_send for its turn.
LEMMA PopSendSound ==
  ASSUME NEW i, NEW extra, NEW low, Sound(i, extra, low, 0), i.sendQ # <<>>
  PROVE  LET s == Head(i.sendQ)
             j == [i EXCEPT !.sendQ = Tail(@)]
         IN  /\ Sound(j, extra, low, 0) /\ s \in Streams /\ IsStored(i.streams[s])
             /\ j.streams = i.streams /\ SameBooks(i, j)
<1> DEFINE s == Head(i.sendQ)
           j == [i EXCEPT !.sendQ = Tail(@)]
<1>1. i \in InnerRecord /\ i.sendQ \in Seq(Streams)
  BY SoundType
<1>2. /\ s \in Streams /\ Contains(i.sendQ, s)
      /\ Tail(i.sendQ) \in Seq(Streams)
      /\ \A t \in Streams : Contains(Tail(i.sendQ), t) => Contains(i.sendQ, t)
  BY <1>1, TailQueue
<1>3. /\ j.streams = i.streams /\ j.flow = i.flow /\ j.sendQ = Tail(i.sendQ)
      /\ j.capacityQ = i.capacityQ /\ SameBooks(i, j)
  BY <1>1 DEF InnerRecord, SameBooks
<1>4. j \in InnerRecord
  BY <1>1, <1>2 DEF InnerRecord
<1> HIDE DEF j
<1>5. IsStored(i.streams[s])
  BY <1>2, StoredInQueue DEF InQueue
<1>6. \A t \in Streams : InQueue(j, t) => InQueue(i, t)
  BY <1>2, <1>3 DEF InQueue, SameBooks
<1>7. Sound(j, extra, low, 0)
  BY <1>3, <1>4, <1>6, QueueStep DEF SameBooks
<1> QED
  BY <1>2, <1>3, <1>5, <1>7 DEF j

\* The end of pop_frame for a stream whose frame was taken.
LEMMA RequeueSound ==
  ASSUME NEW i, NEW s \in Streams, NEW extra, NEW low,
         Sound(i, extra, low, 0), IsStored(i.streams[s])
  PROVE  LET j == Requeue(i, s)
         IN  /\ Sound(j, extra, low, 0)
             /\ j.inFlight = i.inFlight /\ j.peer = i.peer /\ j.initWindow = i.initWindow
<1> DEFINE more == i.streams[s].queue # <<>> \/ IsScheduledReset(i.streams[s].state)
           c == IF more THEN [i EXCEPT !.sendQ = Push(@, s)] ELSE i
           w == IsPendingReset(i, s)
           j == TransitionAfter(c, s, w)
<1>1. /\ Sound(c, extra, low, 0) /\ c.streams = i.streams /\ SameBooks(i, c)
  <2>1. CASE ~more
    BY <2>1 DEF SameBooks
  <2>2. CASE more
    <3> DEFINE d == [i EXCEPT !.sendQ = Push(@, s)]
    <3>1. i \in InnerRecord /\ i.sendQ \in Seq(Streams)
      BY SoundType
    <3>2. /\ Push(i.sendQ, s) \in Seq(Streams)
          /\ \A t \in Streams : Contains(Push(i.sendQ, s), t) <=> Contains(i.sendQ, t) \/ t = s
      BY <3>1, PushQueue
    <3>3. /\ d.streams = i.streams /\ d.flow = i.flow /\ d.sendQ = Push(i.sendQ, s)
          /\ d.capacityQ = i.capacityQ /\ SameBooks(i, d)
      BY <3>1 DEF InnerRecord, SameBooks
    <3>4. d \in InnerRecord
      BY <3>1, <3>2 DEF InnerRecord
    <3>5. c = d
      BY <2>2
    <3> HIDE DEF d
    <3>6. \A t \in Streams : InQueue(d, t) => InQueue(i, t) \/ IsStored(i.streams[t])
      BY <3>2, <3>3 DEF InQueue, SameBooks
    <3>7. Sound(d, extra, low, 0)
      BY <3>3, <3>4, <3>6, QueueStep DEF SameBooks
    <3> QED
      BY <3>3, <3>5, <3>7
  <2> QED
    BY <2>1, <2>2
<1>2. Requeue(i, s) = j
  BY DEF Requeue
<1> HIDE DEF c
<1>3. w \in BOOLEAN /\ WasReset(c, s, w) /\ IsStored(c.streams[s])
  BY <1>1 DEF IsPendingReset, WasReset, Contains, SameBooks
<1> HIDE DEF w
<1>4. Sound(j, extra, low, 0) /\ Settles(c, j, s)
  BY <1>1, <1>3, TransitionAfterSound
<1> HIDE DEF j
<1> QED
  BY <1>1, <1>2, <1>4 DEF Settles, SameBooks

\* The record of a stream that wrote len octets of the frame at the head of
\* its queue.
Paid(r, len) ==
  [r EXCEPT !.flow = SendData(r.flow, len), !.buffered = r.buffered - len,
            !.requested = r.requested - len, !.queue = Tail(r.queue)]

LEMMA PaidFields ==
  ASSUME NEW r \in StreamRecord, NEW len \in Int, r.queue # <<>>
  PROVE  LET q == Paid(r, len)
         IN  /\ q \in StreamRecord
             /\ q.place = r.place /\ q.state = r.state /\ q.handle = r.handle
             /\ q.counted = r.counted
             /\ q.flow.window = r.flow.window - len
             /\ q.flow.available = r.flow.available - len
             /\ q.buffered = r.buffered - len /\ q.requested = r.requested - len
             /\ q.queue = Tail(r.queue)
<1> DEFINE flow == SendData(r.flow, len)
           buffered == r.buffered - len
           requested == r.requested - len
           queue == Tail(r.queue)
           q == [r EXCEPT !.flow = flow, !.buffered = buffered,
                          !.requested = requested, !.queue = queue]
<1>1. /\ r.flow \in Flow /\ r.buffered \in Int /\ r.requested \in Int /\ r.queue \in Seq(Frames)
  BY DEF StreamRecord
<1>2. /\ flow \in Flow /\ flow.window = r.flow.window - len
      /\ flow.available = r.flow.available - len
  <2> DEFINE w == r.flow.window - len
             a == r.flow.available - len
  <2>1. w \in Int /\ a \in Int
    BY <1>1 DEF Flow
  <2>2. flow = [r.flow EXCEPT !.window = w, !.available = a]
    BY <1>1 DEF SendData, Flow
  <2> HIDE DEF w, a, flow
  <2>3. flow \in Flow /\ flow.window = w /\ flow.available = a
    BY <1>1, <2>1, <2>2 DEF Flow
  <2> QED
    BY <2>3 DEF w, a
<1>3. buffered \in Int /\ requested \in Int
  BY <1>1
<1>4. queue \in Seq(Frames)
  BY <1>1, OctetsOfTail
<1>5. q = Paid(r, len)
  BY DEF Paid
<1> HIDE DEF flow, buffered, requested, queue
<1>6. q \in StreamRecord
  BY <1>2, <1>3, <1>4 DEF StreamRecord
<1>7. /\ q.place = r.place /\ q.state = r.state /\ q.handle = r.handle
      /\ q.counted = r.counted /\ q.flow = flow
      /\ q.buffered = buffered /\ q.requested = requested /\ q.queue = queue
  BY DEF StreamRecord
<1> HIDE DEF q
<1> QED
  BY <1>2, <1>5, <1>6, <1>7 DEF buffered, requested, queue

\* How much of a DATA frame pop_frame writes.
LEMMA LengthFits ==
  ASSUME NEW r, NEW extra \in Nat, NEW low, NEW server, StoredSound(r, extra, low, server),
         r.queue # <<>>, ~IsBlocked(r)
  PROVE  LET len == DataLength(r)
         IN  /\ len \in Nat /\ len <= Head(r.queue).sz
             /\ len <= r.flow.available /\ len <= r.buffered - extra
             /\ len > 0 => len <= r.flow.window
             /\ Head(r.queue) \in Frames
             /\ Head(r.queue).sz \in 0 .. MaxWindow
             /\ r.buffered = 0 => len = 0
             /\ Head(r.queue).sz > 0 => r.flow.available > 0
<1> DEFINE len == DataLength(r)
           sz == Head(r.queue).sz
<1>1. /\ r.queue \in Seq(Frames) /\ r.flow.available \in Nat /\ r.flow.window \in Int
      /\ r.buffered = Octets(r.queue) + extra /\ r.buffered \in Nat
  BY MaxWindowAssumption, SendAssumption DEF StoredSound, InBounds, StreamRecord
<1>2. Octets(r.queue) \in Nat /\ Head(r.queue) \in Frames /\ sz <= Octets(r.queue)
  BY <1>1, OctetsType
<1>3. sz \in 0 .. MaxWindow
  BY <1>2 DEF Frames
<1>4. MaxFrame \in Nat /\ MaxWindow \in Nat
  BY SendAssumption, MaxWindowAssumption
<1>5. sz \in Nat
  BY <1>3, <1>4
<1>6. len \in Nat /\ len <= sz /\ len <= r.flow.available
  <2> HIDE DEF sz
  <2>1. len = Lesser(Lesser(sz, MaxFrame), r.flow.available)
    BY DEF DataLength, sz
  <2> HIDE DEF len
  <2> QED
    BY <1>1, <1>4, <1>5, <2>1 DEF Lesser
<1>7. /\ ~(sz > 0 /\ r.flow.available = 0)
      /\ ~(len > 0 /\ len > WindowSize(r.flow))
  BY DEF IsBlocked
<1> HIDE DEF len, sz
<1>8. len > 0 => len <= r.flow.window
  BY <1>1, <1>6, <1>7 DEF WindowSize, AsSize
<1>9. len <= r.buffered - extra /\ (r.buffered = 0 => len = 0)
  BY <1>1, <1>2, <1>5, <1>6
<1>10. sz > 0 => r.flow.available > 0
  BY <1>1, <1>7
<1> QED
  BY <1>1, <1>2, <1>3, <1>5, <1>6, <1>8, <1>9, <1>10 DEF len, sz

\* What is not written of a DATA frame is buffered and no longer queued.
LEMMA PaidSound ==
  ASSUME NEW r, NEW low \in -MaxWindow .. 0, NEW server, StoredSound(r, 0, low, server),
         r.queue # <<>>, ~IsBlocked(r), ~Discards(r.state)
  PROVE  StoredSound(Paid(r, DataLength(r)), Head(r.queue).sz - DataLength(r), low, server)
<1> DEFINE len == DataLength(r)
           sz == Head(r.queue).sz
           q == Paid(r, len)
<1>1. /\ r \in StreamRecord /\ IsStored(r) /\ InBounds(r) /\ Fits(r) /\ Unasked(r)
      /\ (server => Settled(r)) /\ r.buffered = Octets(r.queue) + 0 /\ Linking(r, low)
      /\ r.queue \in Seq(Frames) /\ 0 \in Nat
  BY DEF StoredSound, StreamRecord
<1>2. /\ len \in Nat /\ len <= sz /\ len <= r.flow.available /\ len <= r.buffered - 0
      /\ (len > 0 => len <= r.flow.window) /\ sz \in 0 .. MaxWindow
      /\ (r.buffered = 0 => len = 0)
  BY <1>1, LengthFits
<1>3. Octets(Tail(r.queue)) \in Nat /\ Octets(r.queue) = sz + Octets(Tail(r.queue))
  BY <1>1, OctetsOfTail, OctetsType
<1>4. len \in Int
  BY <1>2
<1> HIDE DEF len, sz
<1>5. /\ q \in StreamRecord /\ q.place = r.place /\ q.state = r.state
      /\ q.flow.window = r.flow.window - len /\ q.flow.available = r.flow.available - len
      /\ q.buffered = r.buffered - len /\ q.requested = r.requested - len
      /\ q.queue = Tail(r.queue)
  BY <1>1, <1>4, PaidFields
<1> HIDE DEF q
<1>6. /\ r.flow.window \in -MaxWindow .. MaxWindow /\ r.flow.available \in 0 .. MaxWindow
      /\ r.requested \in 0 .. MaxWindow + MaxBuffered /\ r.buffered \in 0 .. MaxBuffered
      /\ r.flow.available <= r.requested /\ r.flow.available <= WindowSize(r.flow)
      /\ MaxWindow \in Nat /\ MaxBuffered \in Nat
  BY <1>1, MaxWindowAssumption, SendAssumption DEF InBounds, Fits
<1>7. InBounds(q)
  <2>1. r.flow.window - len \in -MaxWindow .. MaxWindow
    BY <1>2, <1>6
  <2>2. r.flow.available - len \in 0 .. MaxWindow
    BY <1>2, <1>6
  <2>3. r.requested - len \in 0 .. MaxWindow + MaxBuffered
    BY <1>2, <1>6
  <2>4. r.buffered - len \in 0 .. MaxBuffered
    BY <1>2, <1>6
  <2> QED
    BY <1>5, <2>1, <2>2, <2>3, <2>4 DEF InBounds
<1>8. Fits(q)
  BY <1>2, <1>5, <1>6 DEF Fits, WindowSize, AsSize
<1>9. Unasked(q)
  BY <1>1, <1>2, <1>5, <1>6 DEF Unasked
<1>10. server => Settled(q)
  BY <1>1, <1>2, <1>5, <1>6, <1>8, SMTT(30) DEF Settled, Fits
<1>11. q.buffered = Octets(q.queue) + (sz - len)
  BY <1>1, <1>2, <1>3, <1>5, <1>6
<1>12. Linking(q, low)
  BY <1>1, <1>2, <1>5, <1>6, SMTT(30) DEF Linking, CannotSend
<1> QED
  BY <1>1, <1>5, <1>7, <1>8, <1>9, <1>10, <1>11, <1>12 DEF StoredSound, IsStored, q, len, sz

\* What a frame leaves behind is buffered for stream s.
Behind(s, rest) == [t \in Streams |-> IF t = s THEN rest ELSE 0]

\* What pop_frame returns when it starts from i.
Result(i, p, low) ==
  /\ p \in PopResult
  /\ Sound(p.inner, Behind(p.stream, p.rest), low, 0)
  /\ p.inner.inFlight = Nothing
  /\ p.inner.peer = i.peer /\ p.inner.initWindow = i.initWindow
  /\ p.rest \in 0 .. MaxWindow
  /\ p.stream = Nothing => p.rest = 0

LEMMA ResultOf ==
  ASSUME NEW i, NEW j, NEW s \in Streams \cup {Nothing}, NEW frame, NEW rest \in 0 .. MaxWindow,
         NEW eos \in BOOLEAN, NEW low,
         frame \in [kind : Kinds, sz : Int, eos : BOOLEAN],
         Sound(j, Behind(s, rest), low, 0), j.inFlight = Nothing,
         j.peer = i.peer, j.initWindow = i.initWindow, s = Nothing => rest = 0
  PROVE  Result(i, Popped(j, s, frame, rest, eos), low)
<1> DEFINE p == Popped(j, s, frame, rest, eos)
<1>1. p.inner = j /\ p.stream = s /\ p.rest = rest
  BY DEF Popped
<1>2. j \in InnerRecord /\ rest \in Int
  BY SoundType, MaxWindowAssumption
<1>3. p \in PopResult
  BY <1>2 DEF Popped, PopResult
<1> HIDE DEF p
<1> QED
  BY <1>1, <1>3 DEF Result, p

LEMMA FramesType ==
  /\ Frames \subseteq [kind : Kinds, sz : Int, eos : BOOLEAN]
  /\ ResetFrame \in [kind : Kinds, sz : Int, eos : BOOLEAN]
BY MaxWindowAssumption DEF Frames, ResetFrame, Frame, Kinds

LEMMA NothingResult ==
  ASSUME NEW i, NEW j, NEW low, Sound(j, Behind(Nothing, 0), low, 0), j.inFlight = Nothing,
         j.peer = i.peer, j.initWindow = i.initWindow
  PROVE  Result(i, NothingPopped(j), low)
<1>1. 0 \in 0 .. MaxWindow /\ FALSE \in BOOLEAN /\ Nothing \in Streams \cup {Nothing}
  BY MaxWindowAssumption
<1> QED
  BY <1>1, FramesType, ResultOf DEF NothingPopped

LEMMA BehindType ==
  /\ \A s, rest : rest \in Nat => Behind(s, rest) \in [Streams -> Nat]
  /\ \A s : Behind(s, 0) = Behind(Nothing, 0)
  /\ \A s \in Streams : \A rest : Behind(s, rest)[s] = rest
  /\ \A s \in Streams : \A rest : \A t \in Streams : t # s => Behind(s, rest)[t] = 0
BY DEF Behind

\* What charging for a frame and taking it from the queue make of "inner".
Charged(i, s, len) == [Charge(i, s, len) EXCEPT !.streams[s].queue = Tail(@)]

LEMMA ChargeAs ==
  ASSUME NEW i \in InnerRecord, NEW s \in Streams, NEW len
  PROVE  Charged(i, s, len)
           = [i EXCEPT !.streams = [i.streams EXCEPT ![s] = Paid(i.streams[s], len)],
                       !.flow = SendData(AssignCapacity(i.flow, len), len)]
<1> DEFINE r == i.streams[s]
           a == SendData(r.flow, len)
           b == r.buffered - len
           w == r.requested - len
           f == SendData(AssignCapacity(i.flow, len), len)
           c == [i EXCEPT !.streams[s].flow = a, !.streams[s].buffered = b,
                          !.streams[s].requested = w, !.flow = f]
           x == [r EXCEPT !.flow = a, !.buffered = b, !.requested = w]
           y == [r EXCEPT !.flow = a, !.buffered = b, !.requested = w, !.queue = Tail(r.queue)]
<1>1. i.streams \in [Streams -> StreamRecord] /\ r \in StreamRecord
  BY DEF InnerRecord
<1>2. Charge(i, s, len) = c
  BY <1>1 DEF Charge, InnerRecord
<1> HIDE DEF a, b, w, f
<1>3. c = [i EXCEPT !.streams = [i.streams EXCEPT ![s] = x], !.flow = f]
  BY <1>1 DEF InnerRecord
<1>4. x.queue = r.queue /\ y = [x EXCEPT !.queue = Tail(x.queue)]
  BY <1>1 DEF StreamRecord
<1> HIDE DEF c, x, y
<1>5. c.streams = [i.streams EXCEPT ![s] = x] /\ c.streams[s] = x
  BY <1>1, <1>3 DEF InnerRecord
<1>6. [c EXCEPT !.streams[s].queue = Tail(@)]
        = [c EXCEPT !.streams = [c.streams EXCEPT ![s] = [x EXCEPT !.queue = Tail(x.queue)]]]
  BY <1>3, <1>5 DEF InnerRecord
<1>7. [c EXCEPT !.streams[s].queue = Tail(@)]
        = [c EXCEPT !.streams = [[i.streams EXCEPT ![s] = x] EXCEPT ![s] = y]]
  BY <1>4, <1>5, <1>6
<1>8. [[i.streams EXCEPT ![s] = x] EXCEPT ![s] = y] = [i.streams EXCEPT ![s] = y]
  BY <1>1
<1> DEFINE z == [i.streams EXCEPT ![s] = y]
<1>9. [c EXCEPT !.streams[s].queue = Tail(@)] = [c EXCEPT !.streams = z]
  BY <1>7, <1>8
<1> HIDE DEF z
<1>10. [c EXCEPT !.streams = z] = [i EXCEPT !.streams = z, !.flow = f]
  BY <1>3 DEF InnerRecord
<1> QED
  BY <1>2, <1>9, <1>10 DEF z, y, a, b, w, f, Paid, Charged

\* A DATA frame, or as much of it as capacity allows.
LEMMA PopDataSound ==
  ASSUME NEW i, NEW s \in Streams, NEW low, Sound(i, Behind(Nothing, 0), low, 0),
         IsStored(i.streams[s]), i.inFlight = Nothing,
         i.streams[s].queue # <<>>, ~IsBlocked(i.streams[s]), ~DiscardsData(i.streams[s])
  PROVE  Result(i, PopData(i, s), low)
<1> DEFINE r == i.streams[s]
           frame == Head(r.queue)
           len == DataLength(r)
           q == Paid(r, len)
           rest == frame.sz - len
           none == Behind(Nothing, 0)
           extra == Behind(s, rest)
           j == Charged(i, s, len)
           k == Requeue(j, s)
<1>1. /\ SoundBut(i, s, none, low, 0) /\ StoredSound(r, none[s], low[s], IsServer(i))
      /\ i \in InnerRecord /\ i.streams \in [Streams -> StreamRecord] /\ i.flow \in Flow
      /\ low \in [Streams -> -MaxWindow .. 0] /\ none[s] = 0
  <2>1. none[s] = 0
    BY DEF Behind
  <2> HIDE DEF none
  <2>2. Sound(i, none, low, 0)
    BY DEF none
  <2> QED
    BY <2>1, <2>2, StoredAt, SoundType
<1>2. StoredSound(r, 0, low[s], IsServer(i)) /\ r \in StreamRecord /\ 0 \in Nat
      /\ low[s] \in -MaxWindow .. 0
  BY <1>1 DEF StoredSound
<1>3. /\ len \in Nat /\ len <= frame.sz /\ len <= r.flow.available
      /\ frame \in Frames /\ frame.sz \in 0 .. MaxWindow
  BY <1>2, LengthFits
<1>4. rest \in 0 .. MaxWindow /\ rest \in Nat
  BY <1>3, MaxWindowAssumption
<1>5. ~Discards(r.state)
  BY DEF DiscardsData, Discards
<1>6. StoredSound(q, rest, low[s], IsServer(i))
  BY <1>2, <1>5, PaidSound
<1>7. /\ i.flow.available \in 0 .. MaxWindow /\ i.flow.available + r.flow.available <= i.flow.window
      /\ i.flow.window <= MaxWindow /\ i.flow.window \in Int /\ r.flow.available \in Nat
  <2>1. Account(i, 0) /\ i.flow.window \in Int /\ i.flow.available \in Int
    BY <1>1 DEF SoundBut, Flow
  <2>2. \A t \in Streams : i.streams[t].flow.available \in 0 .. MaxWindow
    BY AccountBounds
  <2>3. /\ Shares(i.streams) \in Int
        /\ r.flow.available <= Shares(i.streams)
    BY <1>1, <2>2, SharesType, MaxWindowAssumption, SMTT(30)
  <2>4. i.flow.available \in 0 .. MaxWindow
    BY AccountBounds
  <2>5. r.flow.available \in Nat
    BY <2>2, MaxWindowAssumption
  <2> QED
    BY <2>1, <2>3, <2>4, <2>5, MaxWindowAssumption DEF Account
<1>8. /\ j.streams = [i.streams EXCEPT ![s] = q]
      /\ j.flow = SendData(AssignCapacity(i.flow, len), len)
      /\ j.sendQ = i.sendQ /\ j.capacityQ = i.capacityQ /\ SameBooks(i, j)
  <2> DEFINE f == SendData(AssignCapacity(i.flow, len), len)
             strs == [i.streams EXCEPT ![s] = q]
  <2>1. j = [i EXCEPT !.streams = strs, !.flow = f]
    <3> HIDE DEF len
    <3>1. i \in InnerRecord
      BY <1>1
    <3> QED
      BY <3>1, ChargeAs
  <2> HIDE DEF f, strs, j
  <2>2. /\ j.streams = strs /\ j.flow = f
        /\ j.sendQ = i.sendQ /\ j.capacityQ = i.capacityQ /\ SameBooks(i, j)
    BY <1>1, <2>1 DEF InnerRecord, SameBooks
  <2> QED
    BY <2>2 DEF f, strs
<1>9. PopData(i, s) = Popped(k, s, Frame("data", len, frame.eos /\ frame.sz = len), rest, frame.eos)
  BY DEF PopData, Charged
<1>10. /\ q \in StreamRecord /\ q.counted = r.counted /\ q.place = r.place
       /\ q.flow.available = r.flow.available - len
  <2>1. len \in Int
    BY <1>3
  <2> HIDE DEF len
  <2> QED
    BY <1>2, <2>1, PaidFields
<1> DEFINE flow == SendData(AssignCapacity(i.flow, len), len)
<1>11. /\ flow \in Flow /\ flow.window = i.flow.window - len
       /\ flow.available = i.flow.available
  <2>1. i.flow.available + len <= MaxWindow /\ i.flow.available + len - len = i.flow.available
        /\ i.flow.window - len \in Int /\ i.flow.available \in Int
    BY <1>3, <1>7, MaxWindowAssumption
  <2> HIDE DEF len
  <2>2. AssignCapacity(i.flow, len) = [i.flow EXCEPT !.available = i.flow.available + len]
    BY <2>1 DEF AssignCapacity, CanAssign
  <2>3. flow = [i.flow EXCEPT !.window = i.flow.window - len, !.available = i.flow.available]
    <3> DEFINE a == i.flow.available + len
               f == [i.flow EXCEPT !.available = a]
    <3>1. f.available = a /\ f.window = i.flow.window
      BY <1>1 DEF Flow
    <3>2. a - len = i.flow.available
      BY <1>3, <2>1
    <3>3. flow = [f EXCEPT !.window = f.window - len, !.available = f.available - len]
      BY <2>2 DEF SendData
    <3> HIDE DEF a
    <3> QED
      BY <1>1, <3>1, <3>2, <3>3 DEF Flow
  <2> HIDE DEF flow
  <2> QED
    BY <1>1, <2>1, <2>3 DEF Flow
<1>12. j \in InnerRecord
  <2> DEFINE strs == [i.streams EXCEPT ![s] = q]
  <2>1. strs \in [Streams -> StreamRecord]
    BY <1>1, <1>10
  <2>2. j = [i EXCEPT !.streams = strs, !.flow = flow]
    <3> HIDE DEF len
    <3>1. i \in InnerRecord
      BY <1>1
    <3> QED
      BY <3>1, ChargeAs
  <2> HIDE DEF strs, flow, j
  <2> QED
    BY <1>1, <1>11, <2>1, <2>2 DEF InnerRecord
<1> HIDE DEF j, q, flow, rest
<1>13. j.streams[s] = q /\ Elsewhere(i, j, s) /\ IsServer(j) = IsServer(i) /\ j.flow = flow
  BY <1>1, <1>8 DEF Elsewhere, SameBooks, IsServer, flow
<1>14. Sound(j, extra, low, 0)
  <2>1. Scope(extra, low) /\ extra[s] = rest /\ \A t \in Streams : t # s => extra[t] = none[t]
    <3>1. extra[s] = rest /\ \A t \in Streams : t # s => extra[t] = none[t]
      BY DEF Behind
    <3>2. extra \in [Streams -> Nat]
      BY <1>4 DEF Behind
    <3> HIDE DEF extra
    <3> QED
      BY <1>1, <3>1, <3>2 DEF Scope
  <2>2. KeysOf(i, j, s)
    BY <1>8 DEF KeysOf, InQueue, SameBooks
  <2>3. StoredSound(j.streams[s], extra[s], low[s], IsServer(j))
    BY <1>6, <1>13, <2>1
  <2>4. j.flow.window - j.flow.available - j.streams[s].flow.available - 0
          = i.flow.window - i.flow.available - r.flow.available - 0
    BY <1>3, <1>7, <1>10, <1>11, <1>13
  <2>5. j.flow.available >= 0 /\ j.flow.window <= MaxWindow
    BY <1>3, <1>7, <1>11, <1>13, MaxWindowAssumption
  <2>6. /\ j.peer = i.peer /\ j.openQ = i.openQ /\ j.resetQ = i.resetQ
        /\ j.numStreams = i.numStreams /\ j.numResets = i.numResets
        /\ j.streams[s].counted = r.counted /\ 0 \in Int /\ 0 \in Nat
    BY <1>8, <1>10, <1>13 DEF SameBooks
  <2> HIDE DEF extra, none
  <2> QED
    BY <1>1, <1>12, <1>13, <2>1, <2>2, <2>3, <2>4, <2>5, <2>6, StreamStep
<1>15. IsStored(j.streams[s])
  BY <1>6, <1>13 DEF StoredSound
<1>16. Sound(k, extra, low, 0) /\ k.inFlight = Nothing /\ k.peer = i.peer
       /\ k.initWindow = i.initWindow
  BY <1>8, <1>14, <1>15, RequeueSound, ZenonT(60) DEF SameBooks
<1>17. Frame("data", len, frame.eos /\ frame.sz = len) \in [kind : Kinds, sz : Int, eos : BOOLEAN]
       /\ frame.eos \in BOOLEAN
  BY <1>3 DEF Frame, Frames, Kinds
<1>18. s # Nothing /\ s \in Streams \cup {Nothing}
  BY DEF Streams, Nothing
<1> HIDE DEF k, extra, frame, len
<1> QED
  BY <1>4, <1>9, <1>16, <1>17, <1>18, ResultOf DEF extra

\* A frame without octets is written.
LEMMA PopOtherSound ==
  ASSUME NEW i, NEW s \in Streams, NEW low, Sound(i, Behind(Nothing, 0), low, 0),
         IsStored(i.streams[s]), i.inFlight = Nothing,
         i.streams[s].queue # <<>>, Head(i.streams[s].queue).kind # "data"
  PROVE  Result(i, PopOther(i, s), low)
<1> DEFINE r == i.streams[s]
           frame == Head(r.queue)
           q == [r EXCEPT !.queue = Tail(@)]
           none == Behind(Nothing, 0)
           j == [i EXCEPT !.streams[s].queue = Tail(@)]
           k == Requeue(j, s)
<1>1. none[s] = 0 /\ Behind(s, 0) = none
  BY DEF Behind
<1>2. PopOther(i, s) = Popped(k, s, frame, 0, FALSE)
  BY DEF PopOther
<1> HIDE DEF none
<1>3. Sound(i, none, low, 0)
  BY DEF none
<1>4. /\ SoundBut(i, s, none, low, 0) /\ StoredSound(r, 0, low[s], IsServer(i))
      /\ i \in InnerRecord /\ r \in StreamRecord /\ r.queue \in Seq(Frames)
      /\ Scope(none, low)
  BY <1>1, <1>3, StoredAt, SoundType DEF StoredSound, StreamRecord, SoundBut
<1>5. /\ frame \in Frames /\ frame.sz = 0 /\ Tail(r.queue) \in Seq(Frames)
      /\ Octets(r.queue) = frame.sz + Octets(Tail(r.queue))
      /\ Octets(Tail(r.queue)) \in Nat
  BY <1>4, OctetsType, OctetsOfTail DEF Frames
<1>6. j = With(i, s, q)
  BY <1>4 DEF With, InnerRecord
<1>7. /\ q \in StreamRecord /\ q.queue = Tail(r.queue)
      /\ q.place = r.place /\ q.counted = r.counted /\ q.flow = r.flow /\ q.state = r.state
      /\ q.requested = r.requested /\ q.buffered = r.buffered
  BY <1>4, <1>5 DEF StreamRecord
<1> HIDE DEF q, j
<1>8. StoredSound(q, 0, low[s], IsServer(i))
  <2>1. q.buffered = Octets(q.queue) + 0
    BY <1>4, <1>5, <1>7 DEF StoredSound
  <2> QED
    BY <1>4, <1>7, <2>1
       DEF StoredSound, IsStored, InBounds, Fits, Unasked, Settled, Linking, CannotSend
<1>9. /\ j.streams[s] = q /\ SameBooks(i, j) /\ IsServer(j) = IsServer(i)
  BY <1>4, <1>6, <1>7, WithFields DEF SameBooks, IsServer
<1>10. Sound(j, none, low, 0)
  <2>1. \A t \in Streams : t # s => none[t] = none[t]
    OBVIOUS
  <2>2. q.flow.available = r.flow.available
    BY <1>7
  <2>3. SoundBut(j, s, none, low, 0)
    BY <1>4, <1>6, <1>7, <2>1, <2>2, WithBut
  <2> QED
    BY <1>1, <1>8, <1>9, <2>3, SoundFrom
<1>11. IsStored(j.streams[s])
  BY <1>8, <1>9 DEF StoredSound
<1>12. /\ Sound(k, none, low, 0) /\ k.inFlight = Nothing /\ k.peer = i.peer
       /\ k.initWindow = i.initWindow
  BY <1>9, <1>10, <1>11, RequeueSound DEF SameBooks
<1>13. frame \in [kind : Kinds, sz : Int, eos : BOOLEAN] /\ FALSE \in BOOLEAN
       /\ 0 \in 0 .. MaxWindow /\ s \in Streams \cup {Nothing}
  BY <1>5, FramesType, MaxWindowAssumption
<1>14. Sound(k, Behind(s, 0), low, 0) /\ (s = Nothing => 0 = 0)
  BY <1>1, <1>12
<1> HIDE DEF k, frame
<1>15. Result(i, Popped(k, s, frame, 0, FALSE), low)
  BY <1>12, <1>13, <1>14, ResultOf
<1> QED
  BY <1>2, <1>15

\* The reset that was scheduled is written.
LEMMA PopScheduledResetSound ==
  ASSUME NEW i, NEW s \in Streams, NEW low, Sound(i, Behind(Nothing, 0), low, 0),
         IsStored(i.streams[s]), i.inFlight = Nothing,
         i.streams[s].queue = <<>>, IsScheduledReset(i.streams[s].state)
  PROVE  Result(i, PopScheduledReset(i, s), low)
<1> DEFINE r == i.streams[s]
           st == SetReset("LocalReset")
           q == WithState(r, st)
           none == Behind(Nothing, 0)
           j == [i EXCEPT !.streams[s].state = st]
           k == Requeue(j, s)
<1>1. none[s] = 0 /\ Behind(s, 0) = none
  BY DEF Behind
<1>2. PopScheduledReset(i, s) = Popped(k, s, ResetFrame, 0, FALSE)
  BY DEF PopScheduledReset
<1> HIDE DEF none
<1>3. Sound(i, none, low, 0)
  BY DEF none
<1>4. /\ SoundBut(i, s, none, low, 0) /\ StoredSound(r, none[s], low[s], IsServer(i))
      /\ i \in InnerRecord /\ r \in StreamRecord /\ r.state \in States
  BY <1>3, StoredAt, SoundType DEF StoredSound, StreamRecord
<1>5. r.buffered = 0
  BY <1>1, <1>4, EmptyQueue, OctetsType DEF StoredSound, StreamRecord
<1>6. /\ st \in States /\ Ensues(r.state, st) /\ IsSendClosed(r.state)
  <2>1. /\ st \in States /\ IsClosed(st) /\ IsSendClosed(st) /\ ~CanSendOpen(st)
    BY ResetStates DEF Errors, LocalErrors, Reasons
  <2> QED
    BY <1>4, <2>1, StateKinds DEF Ensues
<1> HIDE DEF st
<1>7. Turned(i, j, s, st, none, low)
  BY <1>4, <1>6, StateBut DEF Turned
<1>8. StoredSound(q, none[s], low[s], IsServer(i))
  <2> HIDE DEF r
  <2> QED
    BY <1>4, <1>5, <1>6, StateWhenDrained
<1> HIDE DEF j
<1>9. Sound(j, none, low, 0) /\ SameBooks(i, j) /\ IsStored(j.streams[s])
  <2>1. /\ SoundBut(j, s, none, low, 0) /\ SameBooks(i, j) /\ IsStored(j.streams[s])
        /\ StoredSound(j.streams[s], none[s], low[s], IsServer(j))
    BY <1>7, <1>8 DEF Turned, Handled
  <2> QED
    BY <2>1, SoundFrom
<1>10. /\ Sound(k, none, low, 0) /\ k.inFlight = Nothing /\ k.peer = i.peer
       /\ k.initWindow = i.initWindow
  BY <1>9, RequeueSound DEF SameBooks
<1>11. FALSE \in BOOLEAN /\ 0 \in 0 .. MaxWindow /\ s \in Streams \cup {Nothing}
  BY MaxWindowAssumption
<1> HIDE DEF k
<1> QED
  BY <1>1, <1>2, <1>10, <1>11, FramesType, ResultOf

\* A queue whose DATA is discarded because its stream was reset.
LEMMA PopDiscardedSound ==
  ASSUME NEW i, NEW s \in Streams, NEW low, Sound(i, Behind(Nothing, 0), low, 0),
         IsStored(i.streams[s]), i.inFlight = Nothing
  PROVE  Result(i, NothingPopped([FailSending(i, s) EXCEPT !.sendQ = Push(@, s)]), low)
<1> DEFINE none == Behind(Nothing, 0)
           f == FailSending(i, s)
           j == [f EXCEPT !.sendQ = Push(@, s)]
<1>1. [none EXCEPT ![s] = 0] = none
  BY DEF Behind
<1> HIDE DEF none
<1>2. Sound(i, none, low, 0)
  BY DEF none
<1>3. SoundBut(i, s, none, low, 0) /\ Sortable(i.streams[s], low[s]) /\ i \in InnerRecord
  BY <1>2, StoredAt, StoredSortable, SoundType
<1>4. Sound(f, none, low, 0) /\ Failed(i, f, s)
  BY <1>1, <1>3, FailSendingSound
<1> HIDE DEF f
<1>5. f \in InnerRecord /\ f.sendQ \in Seq(Streams)
  BY <1>4, SoundType
<1>6. IsStored(f.streams[s])
  BY <1>3, <1>4, FailedHandled DEF Handled
<1>7. /\ Push(f.sendQ, s) \in Seq(Streams)
      /\ \A t \in Streams : Contains(Push(f.sendQ, s), t) <=> Contains(f.sendQ, t) \/ t = s
  BY <1>5, PushQueue
<1>8. /\ j.streams = f.streams /\ j.flow = f.flow /\ j.sendQ = Push(f.sendQ, s)
      /\ j.capacityQ = f.capacityQ /\ SameBooks(f, j)
  BY <1>5 DEF InnerRecord, SameBooks
<1>9. j \in InnerRecord
  BY <1>5, <1>7 DEF InnerRecord
<1> HIDE DEF j
<1>10. \A t \in Streams : InQueue(j, t) => InQueue(f, t) \/ IsStored(f.streams[t])
  BY <1>6, <1>7, <1>8 DEF InQueue, SameBooks
<1>11. Sound(j, none, low, 0)
  BY <1>4, <1>8, <1>9, <1>10, QueueStep DEF SameBooks
<1>12. j.inFlight = Nothing /\ j.peer = i.peer /\ j.initWindow = i.initWindow
  BY <1>4, <1>8 DEF Failed, SameBooks, Nothing, Streams
<1> QED
  BY <1>11, <1>12, NothingResult DEF none, j, f

LEMMA NoRest ==
  ASSUME NEW i
  PROVE  Flying(i, 0) = Behind(Nothing, 0)
BY DEF Flying, Behind

\* One turn of pop_frame, on the stream at the head of pending_send.
LEMMA PopNextSound ==
  ASSUME NEW i, NEW low, Sound(i, Behind(Nothing, 0), low, 0),
         i.inFlight = Nothing, i.sendQ # <<>>
  PROVE  Result(i, PopNext(i), low)
<1> DEFINE s == Head(i.sendQ)
           r == i.streams[s]
           j == [i EXCEPT !.sendQ = Tail(@)]
           data == r.queue # <<>> /\ Head(r.queue).kind = "data"
           none == Behind(Nothing, 0)
<1>1. /\ Sound(j, none, low, 0) /\ s \in Streams /\ IsStored(r)
      /\ j.streams = i.streams /\ SameBooks(i, j)
  BY PopSendSound
<1>2. /\ j.streams[s] = r /\ j.inFlight = Nothing /\ j.peer = i.peer
      /\ j.initWindow = i.initWindow
  BY <1>1 DEF SameBooks
<1>3. PopNext(i) =
        CASE data /\ DiscardsData(r) ->
               NothingPopped([FailSending(j, s) EXCEPT !.sendQ = Push(@, s)])
          [] data /\ ~DiscardsData(r) ->
               IF IsBlocked(r) THEN NothingPopped(j) ELSE PopData(j, s)
          [] ~data /\ r.queue # <<>> -> PopOther(j, s)
          [] r.queue = <<>> /\ IsScheduledReset(r.state) -> PopScheduledReset(j, s)
          [] OTHER -> NothingPopped(TransitionAfter(j, s, IsPendingReset(j, s)))
  BY DEF PopNext
<1> HIDE DEF j
<1>4. \A p : Result(j, p, low) => Result(i, p, low)
  BY <1>2 DEF Result
<1>5. CASE data /\ DiscardsData(r)
  <2>1. PopNext(i) = NothingPopped([FailSending(j, s) EXCEPT !.sendQ = Push(@, s)])
    BY <1>3, <1>5
  <2>2. Result(j, NothingPopped([FailSending(j, s) EXCEPT !.sendQ = Push(@, s)]), low)
    BY <1>1, <1>2, PopDiscardedSound
  <2> QED
    BY <1>4, <2>1, <2>2
<1>6. CASE data /\ ~DiscardsData(r) /\ IsBlocked(r)
  <2>1. PopNext(i) = NothingPopped(j)
    BY <1>3, <1>6
  <2> QED
    BY <1>1, <1>2, <2>1, NothingResult
<1>7. CASE data /\ ~DiscardsData(r) /\ ~IsBlocked(r)
  <2>1. PopNext(i) = PopData(j, s)
    BY <1>3, <1>7
  <2>2. Result(j, PopData(j, s), low)
    BY <1>1, <1>2, <1>7, PopDataSound
  <2> QED
    BY <1>4, <2>1, <2>2
<1>8. CASE ~data /\ r.queue # <<>>
  <2>1. PopNext(i) = PopOther(j, s)
    BY <1>3, <1>8
  <2>2. Result(j, PopOther(j, s), low)
    BY <1>1, <1>2, <1>8, PopOtherSound
  <2> QED
    BY <1>4, <2>1, <2>2
<1>9. CASE r.queue = <<>> /\ IsScheduledReset(r.state)
  <2>1. PopNext(i) = PopScheduledReset(j, s)
    BY <1>3, <1>9
  <2>2. Result(j, PopScheduledReset(j, s), low)
    BY <1>1, <1>2, <1>9, PopScheduledResetSound
  <2> QED
    BY <1>4, <2>1, <2>2
<1>10. CASE r.queue = <<>> /\ ~IsScheduledReset(r.state)
  <2> DEFINE k == Leave(j, s)
  <2>1. PopNext(i) = NothingPopped(k)
    BY <1>3, <1>10 DEF Leave
  <2>2. Whole(j, 0, low)
    BY <1>1, NoRest DEF Whole
  <2>3. Whole(k, 0, low) /\ Settles(j, k, s)
    BY <1>1, <1>2, <2>2, LeaveSound
  <2>4. /\ Sound(k, none, low, 0) /\ k.inFlight = Nothing /\ k.peer = i.peer
        /\ k.initWindow = i.initWindow
    BY <1>2, <2>3, NoRest DEF Whole, Settles
  <2> HIDE DEF k
  <2> QED
    BY <2>1, <2>4, NothingResult
<1> QED
  BY <1>5, <1>6, <1>7, <1>8, <1>9, <1>10

LEMMA PopFrameSound ==
  ASSUME NEW i, NEW low, Sound(i, Behind(Nothing, 0), low, 0), i.inFlight = Nothing
  PROVE  Result(i, PopFrame(i), low)
<1> DEFINE S == {p \in PopResult : Result(i, p, low)}
           step == [k \in Nat |-> [popped \in PopResult |-> PopTurn(popped)]]
           x == NothingPopped(i)
<1>1. x \in S
  BY NothingResult DEF Result
<1>2. ASSUME NEW k \in 1 .. MaxTurns, NEW p \in S
      PROVE  step[k][p] \in S
  <2>1. step[k][p] = PopTurn(p)
    OBVIOUS
  <2>2. CASE p.stream # Nothing \/ p.inner.sendQ = <<>>
    BY <2>1, <2>2 DEF PopTurn
  <2>3. CASE p.stream = Nothing /\ p.inner.sendQ # <<>>
    <3>1. PopTurn(p) = PopNext(p.inner)
      BY <2>3 DEF PopTurn
    <3>2. /\ Sound(p.inner, Behind(Nothing, 0), low, 0) /\ p.inner.inFlight = Nothing
          /\ p.inner.peer = i.peer /\ p.inner.initWindow = i.initWindow
      BY <2>3 DEF Result
    <3>3. Result(p.inner, PopNext(p.inner), low)
      BY <2>3, <3>2, PopNextSound
    <3>4. Result(i, PopNext(p.inner), low)
      BY <3>2, <3>3 DEF Result
    <3> QED
      BY <2>1, <3>1, <3>4 DEF Result
  <2> QED
    BY <2>2, <2>3
<1>3. MaxTurns \in Nat
  BY SendAssumption DEF MaxTurns
<1>4. PopFrame(i) = Loop(step, x, MaxTurns)
  BY DEF PopFrame
<1> HIDE DEF step, S, x
<1>5. Loop(step, x, MaxTurns) \in S
  BY <1>1, <1>2, <1>3, LoopStays
<1> QED
  BY <1>4, <1>5 DEF S

\* What is left of a DATA frame returns to the head of the queue.
LEMMA PushBackFrameSound ==
  ASSUME NEW i, NEW s \in Streams, NEW extra, NEW low, NEW rest \in 1 .. MaxWindow,
         NEW eos \in BOOLEAN, Sound(i, extra, low, 0), extra[s] = rest
  PROVE  LET j == PushBackFrame(i, s, rest, eos)
         IN  /\ Sound(j, [extra EXCEPT ![s] = 0], low, 0)
             /\ SameBooks(i, j)
<1> DEFINE r == i.streams[s]
           frame == Frame("data", rest, eos)
           q == [r EXCEPT !.queue = <<frame>> \o r.queue]
           extra2 == [extra EXCEPT ![s] = 0]
           j == [i EXCEPT !.streams[s].queue = <<frame>> \o @]
           k == PushBackFrame(i, s, rest, eos)
<1>1. k = IF r.flow.available > 0 THEN [j EXCEPT !.sendQ = Push(@, s)] ELSE j
  BY DEF PushBackFrame
<1>2. /\ i \in InnerRecord /\ extra \in [Streams -> Nat] /\ low \in [Streams -> -MaxWindow .. 0]
      /\ r \in StreamRecord
  BY SoundType
<1>3. rest # 0 /\ rest \in Nat /\ rest \in 0 .. MaxWindow
  BY MaxWindowAssumption
<1>4. IsStored(r)
  <2>1. StreamSound(r, extra[s], low[s], IsServer(i))
    BY SoundAt
  <2> QED
    BY <1>3, <2>1 DEF StreamSound, AbsentSound, StoredSound
<1>5. SoundBut(i, s, extra, low, 0) /\ StoredSound(r, extra[s], low[s], IsServer(i))
  BY <1>4, StoredAt
<1>6. frame \in Frames /\ frame.sz = rest /\ r.queue \in Seq(Frames)
  BY <1>2, <1>3 DEF Frames, Frame, Kinds, StreamRecord
<1>7. j = With(i, s, q)
  BY <1>2 DEF With, InnerRecord
<1> HIDE DEF frame
<1>8. /\ <<frame>> \o r.queue \in Seq(Frames)
      /\ Octets(<<frame>> \o r.queue) = rest + Octets(r.queue) /\ Octets(r.queue) \in Nat
  BY <1>6, OctetsOfFront, OctetsType
<1>9. /\ q \in StreamRecord /\ q.queue = <<frame>> \o r.queue
      /\ q.place = r.place /\ q.counted = r.counted /\ q.flow = r.flow /\ q.state = r.state
      /\ q.requested = r.requested /\ q.buffered = r.buffered
  BY <1>2, <1>8 DEF StreamRecord
<1> HIDE DEF q, j, k
<1>10. extra2[s] = 0 /\ extra2 \in [Streams -> Nat] /\ \A t \in Streams : t # s => extra2[t] = extra[t]
  BY <1>2
<1>11. StoredSound(q, extra2[s], low[s], IsServer(i))
  <2>1. q.buffered = Octets(q.queue) + extra2[s]
    BY <1>3, <1>5, <1>8, <1>9, <1>10 DEF StoredSound
  <2> HIDE DEF extra2
  <2> QED
    BY <1>5, <1>9, <2>1
       DEF StoredSound, IsStored, InBounds, Fits, Unasked, Settled, Linking, CannotSend
<1> HIDE DEF extra2
<1>12. /\ j.streams[s] = q /\ SameBooks(i, j) /\ IsServer(j) = IsServer(i)
       /\ j \in InnerRecord
  BY <1>2, <1>7, <1>9, WithFields DEF SameBooks, IsServer
<1>13. Sound(j, extra2, low, 0)
  <2>1. q.flow.available = r.flow.available
    BY <1>9
  <2>2. Scope(extra2, low)
    BY <1>2, <1>10 DEF Scope
  <2>3. SoundBut(j, s, extra2, low, 0)
    BY <1>5, <1>7, <1>9, <1>10, <2>1, <2>2, WithBut
  <2> QED
    BY <1>11, <1>12, <2>3, SoundFrom
<1>14. CASE k = j
  BY <1>12, <1>13, <1>14 DEF k, extra2
<1>15. CASE k = [j EXCEPT !.sendQ = Push(@, s)]
  <2>1. /\ Push(j.sendQ, s) \in Seq(Streams)
        /\ \A t \in Streams : Contains(Push(j.sendQ, s), t) <=> Contains(j.sendQ, t) \/ t = s
    BY <1>13, SoundType, PushQueue
  <2>2. /\ k.streams = j.streams /\ k.flow = j.flow /\ k.sendQ = Push(j.sendQ, s)
        /\ k.capacityQ = j.capacityQ /\ SameBooks(j, k) /\ k \in InnerRecord
    BY <1>12, <1>15, <2>1 DEF InnerRecord, SameBooks
  <2>3. \A t \in Streams : InQueue(k, t) => InQueue(j, t) \/ IsStored(j.streams[t])
    BY <1>4, <1>9, <1>12, <2>1, <2>2 DEF InQueue, SameBooks, IsStored
  <2>4. Sound(k, extra2, low, 0)
    BY <1>13, <2>2, <2>3, QueueStep DEF SameBooks
  <2> QED
    BY <1>12, <2>2, <2>4 DEF k, extra2, SameBooks
<1> QED
  BY <1>1, <1>14, <1>15

----------------------------------------------------------------------------
(* The invariant of the state, and the actions of the writing loop.        *)

\* While the peer may change its initial window, no window is further below
\* it than MaxWindow: lowering the initial window never fails.
LowOf(i, reading) ==
  [s \in Streams |-> IF reading THEN i.initWindow - MaxWindow ELSE -MaxWindow]

Low == LowOf(inner, Reading)

Phases == {"running", "goneAway", "failed", "dropped"}

HeldFrames == [stream : Streams, rest : 0 .. MaxWindow, eos : BOOLEAN]

CodecSound ==
  \/ codec = NoFrame /\ inner.inFlight = Nothing
  \/ codec \in HeldFrames /\ inner.inFlight \in {codec.stream, Drop}

IInv ==
  /\ phase \in Phases
  /\ CodecSound
  /\ Whole(inner, codec.rest, Low)

LEMMA CodecRest ==
  ASSUME CodecSound
  PROVE  codec.rest \in Nat
BY MaxWindowAssumption DEF CodecSound, NoFrame, HeldFrames

\* A step that keeps the frame of the codec or has it dropped.
LEMMA StepTo ==
  ASSUME IInv, codec' = codec, FlightKept(inner, inner'), phase' \in Phases,
         Whole(inner', codec.rest, LowOf(inner', Reading'))
  PROVE  IInv'
<1>1. Nothing \notin Streams /\ Drop \notin Streams
  BY StreamsType DEF Nothing, Drop, Nobody
<1>2. CodecSound'
  BY <1>1 DEF IInv, CodecSound, FlightKept, HeldFrames
<1>3. Low' = LowOf(inner', Reading')
  BY DEF Low
<1> QED
  BY <1>2, <1>3 DEF IInv

LEMMA InnerStep ==
  ASSUME IInv, Unchanged, Carried(inner, inner'), Whole(inner', codec.rest, Low)
  PROVE  IInv'
<1>1. codec' = codec /\ phase' = phase /\ (Reading' <=> Reading)
  BY DEF Unchanged, Reading
<1>2. FlightKept(inner, inner') /\ LowOf(inner', Reading') = Low /\ phase' \in Phases
  BY <1>1 DEF IInv, Carried, LowOf, Low
<1> QED
  BY <1>1, <1>2, StepTo

\* Only inFlight changes.
LEMMA FlightStep ==
  ASSUME NEW i, NEW extra, NEW low, NEW flight \in Streams \cup {Nothing, Drop},
         Sound(i, extra, low, 0)
  PROVE  LET j == [i EXCEPT !.inFlight = flight]
         IN  /\ Sound(j, extra, low, 0) /\ j.inFlight = flight
             /\ j.peer = i.peer /\ j.initWindow = i.initWindow
<1> DEFINE j == [i EXCEPT !.inFlight = flight]
<1>1. i \in InnerRecord
  BY SoundType
<1>2. /\ j \in InnerRecord /\ j.streams = i.streams /\ j.flow = i.flow /\ j.peer = i.peer
      /\ j.openQ = i.openQ /\ j.resetQ = i.resetQ /\ j.sendQ = i.sendQ
      /\ j.capacityQ = i.capacityQ /\ j.numStreams = i.numStreams
      /\ j.numResets = i.numResets /\ j.inFlight = flight /\ j.initWindow = i.initWindow
  BY <1>1 DEF InnerRecord
<1> HIDE DEF j
<1>3. \A t \in Streams : InQueue(j, t) => InQueue(i, t) \/ IsStored(i.streams[t])
  BY <1>2 DEF InQueue
<1>4. Sound(j, extra, low, 0)
  BY <1>2, <1>3, QueueStep
<1> QED
  BY <1>2, <1>4 DEF j

LEMMA BufferPendingKeeps ==
  ASSUME IInv, BufferPending
  PROVE  IInv'
<1> DEFINE none == Behind(Nothing, 0)
           i == PopPendingOpen(inner)
           p == PopFrame(i)
           chained == p.frame.kind = "data" /\ p.frame.sz >= ChainThreshold
<1>1. codec = NoFrame /\ codec.rest = 0 /\ inner.inFlight = Nothing /\ phase' = phase
  <2>1. NoFrame \notin HeldFrames
    BY StreamsType DEF HeldFrames, NoFrame, Nothing, Nobody
  <2> QED
    BY <2>1 DEF IInv, CodecSound, BufferPending, NoFrame
<1>2. Sound(inner, none, Low, 0)
  BY <1>1, NoRest DEF IInv, Whole
<1>3. /\ Sound(i, none, Low, 0) /\ i.inFlight = Nothing
      /\ i.peer = inner.peer /\ i.initWindow = inner.initWindow
  BY <1>1, <1>2, PopPendingOpenSound
<1>4. IF p.stream # Nothing /\ chained
        THEN /\ codec' = [stream |-> p.stream, rest |-> p.rest, eos |-> p.eos]
             /\ inner' = [p.inner EXCEPT !.inFlight = p.stream]
        ELSE /\ codec' = codec
             /\ inner' = IF p.rest > 0 THEN PushBackFrame(p.inner, p.stream, p.rest, p.eos)
                                       ELSE p.inner
  BY DEF BufferPending
<1> HIDE DEF i
<1>5. Result(i, p, Low)
  BY <1>3, PopFrameSound
<1> HIDE DEF p, chained
<1>6. /\ Sound(p.inner, Behind(p.stream, p.rest), Low, 0) /\ p.inner.inFlight = Nothing
      /\ p.inner.peer = inner.peer /\ p.inner.initWindow = inner.initWindow
      /\ p.rest \in 0 .. MaxWindow /\ (p.stream = Nothing => p.rest = 0)
      /\ p.stream \in Streams \cup {Nothing} /\ p.eos \in BOOLEAN
  BY <1>3, <1>5 DEF Result, PopResult
<1>7. Reading' <=> Reading
  BY <1>1 DEF Reading
<1>8. ASSUME inner'.initWindow = inner.initWindow
      PROVE  Low' = Low
  BY <1>7, <1>8 DEF Low, LowOf
<1>9. CASE p.stream # Nothing /\ chained
  <2>1. /\ codec' = [stream |-> p.stream, rest |-> p.rest, eos |-> p.eos]
        /\ inner' = [p.inner EXCEPT !.inFlight = p.stream]
    BY <1>4, <1>9
  <2>2. /\ Sound(inner', Behind(p.stream, p.rest), Low, 0) /\ inner'.inFlight = p.stream
        /\ inner'.initWindow = inner.initWindow
    BY <1>6, <2>1, FlightStep
  <2>3. Flying(inner', codec'.rest) = Behind(p.stream, p.rest)
    BY <2>1, <2>2 DEF Flying, Behind
  <2>4. CodecSound'
    BY <1>6, <1>9, <2>1, <2>2 DEF CodecSound, HeldFrames
  <2> QED
    BY <1>1, <1>8, <2>2, <2>3, <2>4 DEF IInv, Whole
<1>10. CASE ~(p.stream # Nothing /\ chained)
  <2>1. /\ codec' = NoFrame /\ codec'.rest = 0
        /\ inner' = IF p.rest > 0 THEN PushBackFrame(p.inner, p.stream, p.rest, p.eos)
                                  ELSE p.inner
    BY <1>1, <1>4, <1>10
  <2>2. /\ Sound(inner', none, Low, 0) /\ inner'.inFlight = Nothing
        /\ inner'.initWindow = inner.initWindow
    <3>1. CASE p.rest > 0
      <4>1. p.stream \in Streams /\ p.rest \in 1 .. MaxWindow
        BY <1>6, <3>1, MaxWindowAssumption
      <4>2. /\ Behind(p.stream, p.rest)[p.stream] = p.rest
            /\ [Behind(p.stream, p.rest) EXCEPT ![p.stream] = 0] = none
        BY <4>1 DEF Behind
      <4>3. inner' = PushBackFrame(p.inner, p.stream, p.rest, p.eos)
        BY <2>1, <3>1
      <4> HIDE DEF none
      <4>4. Sound(inner', none, Low, 0) /\ SameBooks(p.inner, inner')
        BY <1>6, <4>1, <4>2, <4>3, PushBackFrameSound
      <4> QED
        BY <1>6, <4>4 DEF SameBooks
    <3>2. CASE ~(p.rest > 0)
      <4>1. p.rest = 0
        BY <1>6, <3>2, MaxWindowAssumption
      <4>2. Behind(p.stream, p.rest) = none
        BY <4>1 DEF Behind
      <4> QED
        BY <1>6, <2>1, <3>2, <4>2
    <3> QED
      BY <3>1, <3>2
  <2>3. CodecSound'
    BY <2>1, <2>2 DEF CodecSound
  <2>4. Whole(inner', codec'.rest, Low)
    BY <2>1, <2>2, NoRest DEF Whole
  <2> QED
    BY <1>1, <1>8, <2>2, <2>3, <2>4 DEF IInv
<1> QED
  BY <1>9, <1>10

LEMMA ReclaimFrameKeeps ==
  ASSUME IInv, ReclaimFrame
  PROVE  IInv'
<1> DEFINE none == Behind(Nothing, 0)
           s == codec.stream
           rest == codec.rest
           j == [inner EXCEPT !.inFlight = Nothing]
           extra == Flying(inner, rest)
<1>1. /\ codec \in HeldFrames /\ inner.inFlight \in {s, Drop}
      /\ codec' = NoFrame /\ codec'.rest = 0 /\ phase' = phase
  BY DEF IInv, CodecSound, ReclaimFrame, NoFrame
<1>2. s \in Streams /\ rest \in 0 .. MaxWindow /\ codec.eos \in BOOLEAN
  BY <1>1 DEF HeldFrames
<1>3. inner' = IF inner.inFlight # Drop /\ rest > 0
                 THEN PushBackFrame(j, s, rest, codec.eos) ELSE j
  BY DEF ReclaimFrame
<1>4. Sound(inner, extra, Low, 0)
  BY DEF IInv, Whole
<1> HIDE DEF extra
<1>5. /\ Sound(j, extra, Low, 0) /\ j.inFlight = Nothing
      /\ j.peer = inner.peer /\ j.initWindow = inner.initWindow
  BY <1>4, FlightStep
<1> HIDE DEF j
<1>6. Drop \notin Streams
  BY StreamsType DEF Drop
<1>7. /\ Sound(inner', none, Low, 0) /\ inner'.inFlight = Nothing
      /\ inner'.initWindow = inner.initWindow
  <2>1. CASE inner.inFlight # Drop /\ rest > 0
    <3>1. rest \in 1 .. MaxWindow /\ inner.inFlight = s
      BY <1>1, <1>2, <2>1, MaxWindowAssumption
    <3>2. extra[s] = rest /\ [extra EXCEPT ![s] = 0] = none
      BY <1>2, <3>1, StreamsType DEF extra, Flying, Behind, Nothing, Nobody
    <3>3. inner' = PushBackFrame(j, s, rest, codec.eos)
      BY <1>3, <2>1
    <3> HIDE DEF none, s, rest
    <3>4. Sound(inner', none, Low, 0) /\ SameBooks(j, inner')
      BY <1>2, <1>5, <3>1, <3>2, <3>3, PushBackFrameSound
    <3> QED
      BY <1>5, <3>4 DEF SameBooks
  <2>2. CASE ~(inner.inFlight # Drop /\ rest > 0)
    <3>1. inner' = j
      BY <1>3, <2>2
    <3>2. inner.inFlight = Drop \/ rest = 0
      BY <1>2, <2>2, MaxWindowAssumption
    <3>3. extra = none
      BY <1>6, <3>2 DEF extra, Flying, Behind
    <3> QED
      BY <1>5, <3>1, <3>3
  <2> QED
    BY <2>1, <2>2
<1>8. Low' = Low
  BY <1>1, <1>7 DEF Low, LowOf, Reading
<1>9. Whole(inner', codec'.rest, Low') /\ CodecSound'
  BY <1>1, <1>7, <1>8, NoRest DEF Whole, CodecSound
<1> QED
  BY <1>1, <1>9 DEF IInv

----------------------------------------------------------------------------
(* Actions on one stream.                                                  *)

\* Most actions change one stream and make a transition.
LEMMA TransitionKeeps ==
  ASSUME IInv, Unchanged, NEW s \in Streams, NEW j, Whole(j, codec.rest, Low),
         Handled(inner, j, s), inner' = Transition(inner, j, s)
  PROVE  IInv'
<1> DEFINE k == Transition(inner, j, s)
           extra == Flying(j, codec.rest)
<1>1. Sound(k, extra, Low, 0) /\ Kept(inner, k, s) /\ Settles(j, k, s)
  BY TransitionSound DEF Whole
<1>2. Whole(k, codec.rest, Low)
  BY <1>1, FlyingKept DEF Whole, Settles
<1>3. Carried(inner, k)
  BY <1>1, KeptCarried
<1> QED
  BY <1>2, <1>3, InnerStep

LEMMA InvFacts ==
  ASSUME IInv
  PROVE  /\ Whole(inner, codec.rest, Low) /\ codec.rest \in Nat
         /\ \A s \in Stored(inner) : s \in Streams /\ IsStored(inner.streams[s])
         /\ \A s \in Linked(inner) : s \in Streams /\ IsStored(inner.streams[s])
BY CodecRest DEF IInv, Stored, Linked, IsStored

LEMMA AcceptKeeps ==
  ASSUME IInv, NEW s \in Streams, Accept(s)
  PROVE  IInv'
<1>1. /\ IsStored(inner.streams[s]) /\ Whole(inner, codec.rest, Low) /\ codec.rest \in Nat
  BY InvFacts DEF Accept
<1>2. Whole(inner', codec.rest, Low) /\ Handled(inner, inner', s)
  BY <1>1, HandleSound DEF Accept, Handle
<1> QED
  BY <1>2, KeptCarried, InnerStep DEF Accept, Handled

LEMMA SendResponseKeeps ==
  ASSUME IInv, NEW s \in Streams, NEW eos \in BOOLEAN, SendResponse(s, eos)
  PROVE  IInv'
<1>1. /\ IsStored(inner.streams[s]) /\ Whole(inner, codec.rest, Low) /\ codec.rest \in Nat
  BY InvFacts DEF SendResponse, Held
<1>2. IsServer(inner) /\ CanSendOpen(inner.streams[s].state)
  BY DEF SendResponse, IsServer
<1>3. /\ Whole(SendHeaders(inner, s, eos), codec.rest, Low)
      /\ Handled(inner, SendHeaders(inner, s, eos), s)
  BY <1>1, <1>2, SendHeadersSound
<1> QED
  BY <1>3, TransitionKeeps DEF SendResponse

LEMMA SendInformationalKeeps ==
  ASSUME IInv, NEW s \in Streams, SendInformational(s)
  PROVE  IInv'
<1> DEFINE frame == Frame("informational", 0, FALSE)
           j == QueueFrame(inner, s, frame)
<1>1. /\ IsStored(inner.streams[s]) /\ Sound(inner, Flying(inner, codec.rest), Low, 0)
  BY InvFacts DEF SendInformational, Held, Whole
<1>2. frame \in Frames /\ frame.sz = 0
  BY MaxWindowAssumption DEF Frame, Frames, Kinds
<1>3. Unchanged /\ inner' = Transition(inner, j, s)
  BY DEF SendInformational
<1> HIDE DEF frame
<1>4. /\ Sound(j, Flying(inner, codec.rest), Low, 0)
      /\ SameBooks(inner, j) /\ Handled(inner, j, s)
  BY <1>1, <1>2, QueueFrameSound
<1>5. Whole(j, codec.rest, Low)
  BY <1>4, FlyingKept DEF Whole, SameBooks
<1> QED
  BY <1>3, <1>4, <1>5, TransitionKeeps

LEMMA SendDataFrameKeeps ==
  ASSUME IInv, NEW s \in Streams, NEW sz \in Sizes, NEW eos \in BOOLEAN,
         SendDataFrame(s, sz, eos)
  PROVE  IInv'
<1>1. /\ IsStored(inner.streams[s]) /\ Whole(inner, codec.rest, Low) /\ codec.rest \in Nat
  BY InvFacts DEF SendDataFrame, Held
<1>2. /\ IsSendStreaming(inner.streams[s].state)
      /\ inner.streams[s].buffered + sz <= MaxBuffered /\ sz \in 0 .. MaxWindow
  BY SendAssumption DEF SendDataFrame, HasRoom
<1>3. /\ Whole(SendChunk(inner, s, sz, eos), codec.rest, Low)
      /\ Handled(inner, SendChunk(inner, s, sz, eos), s)
  BY <1>1, <1>2, SendChunkSound
<1> QED
  BY <1>3, TransitionKeeps DEF SendDataFrame

LEMMA SendTrailersFrameKeeps ==
  ASSUME IInv, NEW s \in Streams, SendTrailersFrame(s)
  PROVE  IInv'
<1>1. /\ IsStored(inner.streams[s]) /\ Whole(inner, codec.rest, Low) /\ codec.rest \in Nat
      /\ IsSendStreaming(inner.streams[s].state)
  BY InvFacts DEF SendTrailersFrame, Held
<1>2. /\ Whole(SendTrailers(inner, s), codec.rest, Low)
      /\ Handled(inner, SendTrailers(inner, s), s)
  BY <1>1, SendTrailersSound
<1> QED
  BY <1>2, TransitionKeeps DEF SendTrailersFrame

LEMMA ReserveKeeps ==
  ASSUME IInv, NEW s \in Streams, NEW capacity \in Reservations, Reserve(s, capacity)
  PROVE  IInv'
<1> DEFINE extra == Flying(inner, codec.rest)
           j == ReserveCapacity(inner, s, capacity)
<1>1. /\ IsStored(inner.streams[s]) /\ Sound(inner, extra, Low, 0)
      /\ capacity \in 0 .. MaxWindow /\ ~CanSendOpen(inner.streams[s].state)
      /\ inner' = j /\ Unchanged
  BY InvFacts, SendAssumption DEF Reserve, Held, Whole
<1> HIDE DEF extra
<1>2. /\ SoundBut(inner, s, extra, Low, 0)
      /\ StoredSound(inner.streams[s], extra[s], Low[s], IsServer(inner))
  BY <1>1, StoredAt
<1>3. /\ StoredSound(inner.streams[s], extra[s], Low[s], FALSE)
      /\ (IsServer(inner) => Settled(inner.streams[s]))
  BY <1>2, Unserved DEF StoredSound
<1>4. Sound(j, extra, Low, 0) /\ Asked(inner, j, s)
  BY <1>1, <1>2, <1>3, ReserveSound
<1>5. Whole(j, codec.rest, Low)
  BY <1>4, FlyingKept DEF Whole, extra, Asked, SameBooks
<1>6. Carried(inner, j)
  BY <1>4 DEF Asked, SameBooks, Carried, FlightKept
<1> QED
  BY <1>1, <1>5, <1>6, InnerStep

LEMMA UserResetKeeps ==
  ASSUME IInv, NEW s \in Streams, UserReset(s)
  PROVE  IInv'
<1>1. /\ IsStored(inner.streams[s]) /\ Whole(inner, codec.rest, Low) /\ codec.rest \in Nat
  BY InvFacts DEF UserReset, Held
<1>2. Whole(ResetStream(inner, s), codec.rest, Low) /\ Handled(inner, ResetStream(inner, s), s)
  BY <1>1, ResetStreamSound
<1> QED
  BY <1>2, TransitionKeeps DEF UserReset

LEMMA DropStreamRefKeeps ==
  ASSUME IInv, NEW s \in Streams, DropStreamRef(s)
  PROVE  IInv'
<1> DEFINE dropped == [inner EXCEPT !.streams[s].handle = "dropped"]
           j == MaybeCancel(dropped, s)
<1>1. /\ IsStored(inner.streams[s]) /\ Whole(inner, codec.rest, Low) /\ codec.rest \in Nat
      /\ inner' = Transition(inner, j, s) /\ Unchanged
  BY InvFacts DEF DropStreamRef, Held
<1>2. "dropped" \in Handle
  BY DEF Handle
<1>3. Whole(dropped, codec.rest, Low) /\ Handled(inner, dropped, s)
  BY <1>1, <1>2, HandleSound
<1> HIDE DEF dropped
<1>4. Whole(j, codec.rest, Low) /\ Handled(dropped, j, s)
  BY <1>1, <1>3, MaybeCancelSound DEF Handled
<1>5. Handled(inner, j, s)
  BY <1>3, <1>4, HandledTrans
<1> HIDE DEF j
<1> QED
  BY <1>1, <1>4, <1>5, TransitionKeeps

\* The receiving half moves on.
LEMMA ReceivingKeeps ==
  ASSUME IInv, Unchanged, NEW s \in Streams, NEW st, IsStored(inner.streams[s]),
         Receiving(inner.streams[s].state, st),
         inner' = Transition(inner, [inner EXCEPT !.streams[s].state = st], s)
  PROVE  IInv'
<1> DEFINE j == [inner EXCEPT !.streams[s].state = st]
           extra == Flying(inner, codec.rest)
           r == inner.streams[s]
<1>1. Sound(inner, extra, Low, 0) /\ st \in States
  BY InvFacts DEF Whole, Receiving, Ensues
<1> HIDE DEF extra
<1>2. /\ SoundBut(inner, s, extra, Low, 0)
      /\ StoredSound(r, extra[s], Low[s], IsServer(inner))
  BY <1>1, StoredAt
<1>3. Turned(inner, j, s, st, extra, Low)
  BY <1>1, <1>2, StateBut DEF Turned
<1>4. StoredSound(WithState(r, st), extra[s], Low[s], IsServer(inner))
  BY <1>2, ReceivingSound
<1> HIDE DEF j
<1>5. Sound(j, extra, Low, 0) /\ SameBooks(inner, j) /\ Handled(inner, j, s)
  BY <1>3, <1>4, SoundFrom DEF Turned
<1>6. Whole(j, codec.rest, Low)
  BY <1>5, FlyingKept DEF Whole, extra, SameBooks
<1> QED
  BY <1>5, <1>6, TransitionKeeps DEF j

LEMMA StateType ==
  ASSUME IInv, NEW s \in Streams
  PROVE  inner.streams[s].state \in States /\ inner.streams \in [Streams -> StreamRecord]
         /\ inner \in InnerRecord
<1>1. inner \in InnerRecord /\ inner.streams \in [Streams -> StreamRecord]
  BY InvFacts, SoundType DEF Whole
<1>2. inner.streams[s] \in StreamRecord
  BY <1>1
<1> QED
  BY <1>1, <1>2 DEF StreamRecord

LEMMA RecvResponseKeeps ==
  ASSUME IInv, NEW s \in Streams, NEW eos \in BOOLEAN, RecvResponse(s, eos)
  PROVE  IInv'
<1>1. IsStored(inner.streams[s]) /\ inner.streams[s].state \in States
  BY InvFacts, StateType DEF RecvResponse, Receives
<1> DEFINE st == RecvOpen(inner.streams[s].state, eos, FALSE)
<1>2. Receiving(inner.streams[s].state, st)
  BY <1>1, RecvOpenState
<1>3. inner' = Transition(inner, [inner EXCEPT !.streams[s].state = st], s) /\ Unchanged
  BY DEF RecvResponse
<1> HIDE DEF st
<1> QED
  BY <1>1, <1>2, <1>3, ReceivingKeeps

LEMMA RecvEndStreamKeeps ==
  ASSUME IInv, NEW s \in Streams, RecvEndStream(s)
  PROVE  IInv'
<1>1. /\ IsStored(inner.streams[s]) /\ inner.streams[s].state \in States
      /\ inner.streams \in [Streams -> StreamRecord] /\ inner \in InnerRecord
  BY InvFacts, StateType DEF RecvEndStream, Receives
<1> DEFINE st == RecvClose(inner.streams[s].state)
<1>2. Receiving(inner.streams[s].state, st)
  BY <1>1, RecvCloseState
<1>3. inner' = Transition(inner, [inner EXCEPT !.streams[s].state = st], s) /\ Unchanged
  BY <1>1 DEF RecvEndStream, InnerRecord
<1> HIDE DEF st
<1> QED
  BY <1>1, <1>2, <1>3, ReceivingKeeps

LEMMA RecvStreamErrorKeeps ==
  ASSUME IInv, NEW s \in Streams, RecvStreamError(s)
  PROVE  IInv'
<1>1. /\ IsStored(inner.streams[s]) /\ Whole(inner, codec.rest, Low) /\ codec.rest \in Nat
  BY InvFacts DEF RecvStreamError, Receives
<1>2. Whole(ResetStream(inner, s), codec.rest, Low) /\ Handled(inner, ResetStream(inner, s), s)
  BY <1>1, ResetStreamSound
<1> QED
  BY <1>2, TransitionKeeps DEF RecvStreamError

LEMMA RecvRstStreamKeeps ==
  ASSUME IInv, NEW s \in Streams, RecvRstStream(s)
  PROVE  IInv'
<1> DEFINE queued == Contains(inner.sendQ, s)
           st == RecvReset(inner.streams[s].state, queued)
           reset == [inner EXCEPT !.streams[s].state = st]
           j == Transition(inner, FailSending(reset, s), s)
<1>1. /\ IsStored(inner.streams[s]) /\ Whole(inner, codec.rest, Low) /\ codec.rest \in Nat
      /\ inner.streams[s].state \in States
      /\ inner.streams \in [Streams -> StreamRecord] /\ inner \in InnerRecord
  BY InvFacts, StateType DEF RecvRstStream, Receives
<1>2. queued \in BOOLEAN
  BY DEF Contains
<1> HIDE DEF queued
<1>3. Ensues(inner.streams[s].state, st)
  BY <1>1, <1>2, RecvResetState
<1>4. reset = [inner EXCEPT !.streams[s].state = RecvReset(@, queued)]
  BY <1>1 DEF InnerRecord
<1>5. inner' = j /\ Unchanged
  BY <1>4 DEF RecvRstStream, queued
<1> HIDE DEF st
<1>6. Whole(j, codec.rest, Low) /\ Kept(inner, j, s)
  BY <1>1, <1>3, TornDownSound
<1> HIDE DEF j
<1> QED
  BY <1>5, <1>6, KeptCarried, InnerStep

----------------------------------------------------------------------------
(* New streams.                                                            *)

\* A stream without frames that asks for nothing.
LEMMA FreshSound ==
  ASSUME NEW handle \in Handle, NEW w \in 0 .. MaxWindow, NEW st \in States,
         NEW low \in -MaxWindow .. 0, NEW server
  PROVE  LET new == NewStream("linked", handle, w)
             q == WithState(new, st)
         IN  /\ new \in StreamRecord /\ new.state = Idle /\ q \in StreamRecord
             /\ StoredSound(q, 0, low, server)
             /\ q.place = "linked" /\ q.flow.available = 0
             /\ q.state = st /\ q.counted = FALSE
<1> DEFINE flow == [window |-> w, available |-> 0]
           idle == Idle
           off == FALSE
           new == NewStream("linked", handle, w)
           q == WithState(new, st)
<1>1. flow \in Flow /\ flow.window = w /\ flow.available = 0
  BY MaxWindowAssumption DEF Flow
<1>2. new = [place |-> "linked", state |-> idle, handle |-> handle, flow |-> flow,
             requested |-> 0, buffered |-> 0, queue |-> <<>>, counted |-> off]
  BY DEF NewStream
<1>3. <<>> \in Seq(Frames) /\ idle \in States /\ off \in BOOLEAN
  BY DEF States
<1> HIDE DEF flow, idle, off
<1>4. /\ new \in StreamRecord /\ new.place = "linked" /\ new.flow = flow /\ new.state = idle
      /\ new.requested = 0 /\ new.buffered = 0 /\ new.queue = <<>> /\ new.counted = off
  <2> DEFINE place == "linked"
             queue == <<>>
  <2>1. place \in Place /\ queue \in Seq(Frames) /\ 0 \in Int
    BY DEF Place
  <2>2. new = [place |-> place, state |-> idle, handle |-> handle, flow |-> flow,
               requested |-> 0, buffered |-> 0, queue |-> queue, counted |-> off]
    BY <1>2
  <2> HIDE DEF new, place, queue
  <2>3. new \in StreamRecord
    BY <1>1, <1>3, <2>1, <2>2 DEF StreamRecord
  <2>4. /\ new.place = place /\ new.flow = flow /\ new.state = idle
        /\ new.requested = 0 /\ new.buffered = 0 /\ new.queue = queue /\ new.counted = off
    BY <2>2
  <2> QED
    BY <2>3, <2>4 DEF place, queue
<1> HIDE DEF new
<1>5. /\ q \in StreamRecord /\ q.place = "linked" /\ q.flow = flow /\ q.state = st
      /\ q.requested = 0 /\ q.buffered = 0 /\ q.queue = <<>> /\ q.counted = off
  <2>1. q \in StreamRecord
    BY <1>4 DEF WithState, StreamRecord
  <2> QED
    BY <1>4, <2>1, WithStateFields
<1> HIDE DEF q
<1>6. Octets(<<>>) = 0
  BY <1>3, OctetsType
<1>7. InBounds(q) /\ Fits(q)
  BY <1>1, <1>5, MaxWindowAssumption, SendAssumption DEF InBounds, Fits, WindowSize, AsSize
<1>8. w >= low
  BY MaxWindowAssumption
<1>9. StoredSound(q, 0, low, server)
  BY <1>1, <1>5, <1>6, <1>7, <1>8
     DEF StoredSound, IsStored, Settled, Unasked, Linking
<1> QED
  BY <1>1, <1>4, <1>5, <1>9 DEF q, new, idle, off

\* A stream is created: a client's waits for a slot, a server's takes one.
LEMMA CreateSound ==
  ASSUME NEW i, NEW j \in InnerRecord, NEW s \in Streams, NEW extra, NEW low, NEW q,
         Sound(i, extra, low, 0), i.streams[s].place = "new",
         StoredSound(q, 0, low[s], IsServer(i)), q.place = "linked", q.flow.available = 0,
         j.streams = [i.streams EXCEPT ![s] = q], j.flow = i.flow, j.peer = i.peer,
         j.sendQ = i.sendQ, j.capacityQ = i.capacityQ, j.resetQ = i.resetQ,
         j.numResets = i.numResets,
         \/ /\ ~IsServer(i) /\ j.openQ = Push(i.openQ, s)
            /\ j.numStreams = i.numStreams /\ q.counted = FALSE
         \/ /\ IsServer(i) /\ j.openQ = i.openQ
            /\ j.numStreams = i.numStreams + 1 /\ q.counted = TRUE
  PROVE  Sound(j, extra, low, 0)
<1> DEFINE r == i.streams[s]
<1>1. /\ i \in InnerRecord /\ i.streams \in [Streams -> StreamRecord] /\ i.openQ \in Seq(Streams)
      /\ i.numStreams \in Int /\ i.flow \in Flow
  BY SoundType
<1>2. /\ SoundBut(i, s, extra, low, 0) /\ StreamSound(r, extra[s], low[s], IsServer(i))
  BY SoundAt
<1>3. /\ Scope(extra, low) /\ Account(i, 0) /\ Slots(i) /\ Resets(i)
      /\ (IsServer(i) => i.openQ = <<>>) /\ Keys(i)
  BY DEF Sound, SoundBut
<1>4. extra[s] = 0 /\ r = NewStream("new", "waiting", 0)
  BY <1>2 DEF StreamSound, AbsentSound, StoredSound, IsStored
<1>5. r.counted = FALSE /\ r.flow.available = 0
  BY <1>4 DEF NewStream
<1>6. j.streams[s] = q /\ Elsewhere(i, j, s) /\ IsServer(j) = IsServer(i)
  BY <1>1 DEF Elsewhere, IsServer
<1>7. /\ \A t \in Streams : t # s => (Contains(j.openQ, t) <=> Contains(i.openQ, t))
      /\ Distinct(j.openQ)
  <2>1. Distinct(i.openQ)
    BY <1>3 DEF Slots
  <2>2. /\ \A t \in Streams : Contains(Push(i.openQ, s), t) <=> Contains(i.openQ, t) \/ t = s
        /\ Distinct(Push(i.openQ, s))
    BY <1>1, <2>1, PushQueue
  <2> QED
    BY <2>1, <2>2
<1>8. KeysOf(i, j, s)
  BY <1>7 DEF KeysOf, InQueue
<1>9. ~Contains(i.openQ, s)
  BY <1>3, <1>4 DEF Keys, InQueue, IsStored, NewStream
<1>10. Slots(j)
  <2> DEFINE strs == i.streams
             strs2 == j.streams
             o == i.openQ
             o2 == j.openQ
  <2>1. \A t \in Streams : t # s => Takes(strs2[t]) = Takes(strs[t])
    BY <1>6 DEF Elsewhere
  <2>2. \A t \in Streams : t # s => Waits(strs2[t], o2, t) = Waits(strs[t], o, t)
    BY <1>6, <1>7 DEF Elsewhere, Waits
  <2>3. Waits(strs[s], o, s) = 1 /\ Takes(strs[s]) = 0
    BY <1>5 DEF Waits, Takes
  <2>4. \/ Waits(strs2[s], o2, s) = 1 /\ Takes(strs2[s]) = 0 /\ j.numStreams = i.numStreams
        \/ Waits(strs2[s], o2, s) = 0 /\ Takes(strs2[s]) = 1 /\ j.numStreams = i.numStreams + 1
    <3>1. CASE ~IsServer(i)
      <4>1. Contains(o2, s) /\ j.numStreams = i.numStreams /\ q.counted = FALSE
        BY <1>1, <3>1, PushQueue
      <4> QED
        BY <1>6, <4>1 DEF Waits, Takes
    <3>2. CASE IsServer(i)
      <4>1. ~Contains(o2, s) /\ j.numStreams = i.numStreams + 1 /\ q.counted = TRUE
        BY <1>9, <3>2
      <4> QED
        BY <1>6, <4>1 DEF Waits, Takes
    <3> QED
      BY <3>1, <3>2
  <2> HIDE DEF strs, strs2, o, o2
  <2>5. /\ Taken(strs) \in Nat
        /\ Taken(strs2) = Taken(strs) + Takes(strs2[s]) - Takes(strs[s])
    BY <2>1, TakenChange
  <2>6. /\ Untaken(strs, o) \in Nat
        /\ Untaken(strs2, o2) = Untaken(strs, o) + Waits(strs2[s], o2, s) - Waits(strs[s], o, s)
    BY <2>2, UntakenChange
  <2>7. Taken(strs) <= i.numStreams /\ i.numStreams + Untaken(strs, o) <= NStreams
    BY <1>3 DEF Slots, strs, o
  <2>8. Taken(strs2) <= j.numStreams /\ j.numStreams + Untaken(strs2, o2) <= NStreams
    <3>1. CASE Waits(strs2[s], o2, s) = 1 /\ Takes(strs2[s]) = 0 /\ j.numStreams = i.numStreams
      <4>1. Taken(strs2) = Taken(strs) /\ Untaken(strs2, o2) = Untaken(strs, o)
        BY <2>3, <2>5, <2>6, <3>1
      <4> QED
        BY <2>7, <3>1, <4>1
    <3>2. CASE Waits(strs2[s], o2, s) = 0 /\ Takes(strs2[s]) = 1
               /\ j.numStreams = i.numStreams + 1
      <4>1. Taken(strs2) = Taken(strs) + 1 /\ Untaken(strs2, o2) = Untaken(strs, o) - 1
        BY <2>3, <2>5, <2>6, <3>2
      <4> QED
        BY <1>1, <2>5, <2>6, <2>7, <3>2, <4>1, StreamsType
    <3> QED
      BY <2>4, <3>1, <3>2
  <2> QED
    BY <1>7, <2>8 DEF Slots, strs2, o2
<1>11. j.flow.window - j.flow.available - j.streams[s].flow.available - 0
         = i.flow.window - i.flow.available - i.streams[s].flow.available - 0
  BY <1>5, <1>6
<1>12. j.flow.available >= 0 /\ j.flow.window <= MaxWindow
  BY <1>3 DEF Account
<1>13. \A t \in Streams : t # s => extra[t] = extra[t] /\ low[t] = low[t]
  OBVIOUS
<1>14. StoredSound(j.streams[s], extra[s], low[s], IsServer(j))
  BY <1>4, <1>6
<1>15. Resets(j) /\ (IsServer(j) => j.openQ = <<>>) /\ 0 \in Int /\ 0 \in Nat
  BY <1>3, <1>6 DEF Resets
<1> QED
  BY <1>2, <1>3, <1>6, <1>8, <1>10, <1>11, <1>12, <1>13, <1>14, <1>15, StreamStepIn

LEMMA LowType ==
  ASSUME IInv
  PROVE  Low \in [Streams -> -MaxWindow .. 0]
BY InvFacts, SoundType DEF Whole

LEMMA SendRequestKeeps ==
  ASSUME IInv, NEW s \in Streams, NEW eos \in BOOLEAN, SendRequest(s, eos)
  PROVE  IInv'
<1> DEFINE w == inner.initWindow
           new == NewStream("linked", "held", w)
           st == SendOpen(Idle, eos)
           frame == Frame("headers", 0, eos)
           fresh == WithState(new, st)
           q == Queued(fresh, frame)
           o == Push(inner.openQ, s)
           i == [inner EXCEPT !.streams[s] = new]
           extra == Flying(inner, codec.rest)
           strs == [inner.streams EXCEPT ![s] = q]
           j == [inner EXCEPT !.streams = strs, !.openQ = o]
<1>1. /\ inner.peer = "client" /\ inner.streams[s].place = "new" /\ Unchanged
      /\ inner' = SendHeaders(i, s, eos)
  BY DEF SendRequest, IsNext
<1>2. /\ Sound(inner, extra, Low, 0) /\ inner \in InnerRecord
      /\ inner.streams \in [Streams -> StreamRecord] /\ inner.openQ \in Seq(Streams)
      /\ w \in 0 .. MaxWindow /\ Low \in [Streams -> -MaxWindow .. 0]
  BY InvFacts, LowType, SoundType DEF Whole, InnerRecord
<1>3. /\ Idle \in States /\ st \in States /\ "held" \in Handle /\ FALSE \in BOOLEAN
      /\ frame \in Frames /\ frame.sz = 0 /\ Low[s] \in -MaxWindow .. 0
  <2>1. Idle \in States
    BY DEF States
  <2> HIDE DEF st
  <2>2. st \in States
    BY <2>1, SendOpenState DEF Ensues, st
  <2> QED
    BY <1>2, <2>1, <2>2, MaxWindowAssumption DEF Handle, Frames, Frame, Kinds
<1>4. /\ o \in Seq(Streams) /\ Contains(o, s)
  BY <1>2, PushQueue
<1> HIDE DEF st, frame, extra
<1>5. /\ StoredSound(fresh, 0, Low[s], IsServer(inner)) /\ fresh \in StreamRecord
      /\ fresh.place = "linked" /\ fresh.flow.available = 0 /\ fresh.counted = FALSE
      /\ new \in StreamRecord /\ new.state = Idle
  <2> HIDE DEF w
  <2>1. w \in 0 .. MaxWindow
    BY <1>2
  <2> QED
    BY <1>3, <2>1, FreshSound, ZenonT(60)
<1>6. fresh = WithState(new, st)
  OBVIOUS
<1> HIDE DEF fresh, new
<1>7. /\ StoredSound(q, 0, Low[s], IsServer(inner)) /\ q \in StreamRecord
      /\ q.place = "linked" /\ q.flow.available = 0 /\ q.counted = FALSE
  <2>1. 0 \in Nat /\ frame.sz <= 0 /\ 0 - frame.sz = 0
    BY <1>3
  <2>2. StoredSound(q, 0 - frame.sz, Low[s], IsServer(inner))
    BY <1>3, <1>5, <2>1, QueuedSound
  <2> QED
    BY <1>3, <1>5, <2>1, <2>2, QueuedFields, RecordTypes, ZenonT(60)
<1> HIDE DEF w, o
<1>8. inner' = j
  <2> DEFINE opened == [i EXCEPT !.streams[s].state = SendOpen(@, eos)]
             queued == [opened EXCEPT !.openQ = Push(@, s)]
             full == Buffer(queued, s, frame)
  <2>1. /\ i.streams = [inner.streams EXCEPT ![s] = new] /\ i.peer = "client"
        /\ i.streams[s] = new
    BY <1>1, <1>2 DEF InnerRecord
  <2>2. inner' = ScheduleSend(full, s)
    BY <1>1, <2>1 DEF SendHeaders, QueueFrame, frame
  <2>3. opened = [inner EXCEPT !.streams = [inner.streams EXCEPT ![s] = fresh]]
    BY <1>2, <1>5, <1>6, <2>1 DEF InnerRecord, WithState, st
  <2> HIDE DEF opened
  <2>4. queued = [inner EXCEPT !.streams = [inner.streams EXCEPT ![s] = fresh], !.openQ = o]
    BY <1>2, <2>3 DEF InnerRecord, o
  <2> HIDE DEF queued
  <2>5. /\ queued.streams = [inner.streams EXCEPT ![s] = fresh] /\ queued.streams[s] = fresh
    BY <1>2, <2>4 DEF InnerRecord
  <2>6. full = [queued EXCEPT !.streams = [queued.streams EXCEPT ![s] = q]]
    BY <2>5 DEF Buffer, Queued
  <2>7. [queued.streams EXCEPT ![s] = q] = strs
    BY <1>2, <2>5
  <2> HIDE DEF full, strs, q
  <2>8. full = [inner EXCEPT !.streams = strs, !.openQ = o]
    BY <1>2, <2>4, <2>6, <2>7 DEF InnerRecord
  <2>9. full.openQ = o
    BY <1>2, <2>8 DEF InnerRecord
  <2>10. ScheduleSend(full, s) = full
    BY <1>4, <2>9 DEF ScheduleSend, IsPendingOpen
  <2> QED
    BY <2>2, <2>8, <2>10
<1>9. strs \in [Streams -> StreamRecord]
  BY <1>2, <1>7
<1> HIDE DEF q
<1>10. j \in InnerRecord
  <2> HIDE DEF strs
  <2> QED
    BY <1>2, <1>4, <1>9 DEF InnerRecord
<1>11. /\ j.streams = strs /\ j.openQ = Push(inner.openQ, s) /\ j.flow = inner.flow
       /\ j.peer = inner.peer /\ j.sendQ = inner.sendQ /\ j.capacityQ = inner.capacityQ
       /\ j.resetQ = inner.resetQ /\ j.numResets = inner.numResets
       /\ j.numStreams = inner.numStreams /\ j.inFlight = inner.inFlight
       /\ j.initWindow = inner.initWindow
  <2> HIDE DEF strs
  <2> QED
    BY <1>2 DEF InnerRecord, o
<1> HIDE DEF j
<1>12. ~IsServer(inner)
  BY <1>1 DEF IsServer
<1>13. Sound(j, extra, Low, 0)
  BY <1>1, <1>2, <1>7, <1>10, <1>11, <1>12, CreateSound
<1>14. Whole(j, codec.rest, Low) /\ Carried(inner, j)
  BY <1>11, <1>13, FlyingKept DEF Whole, extra, Carried, FlightKept
<1> QED
  BY <1>1, <1>8, <1>14, InnerStep

LEMMA HeadersFromRequest ==
  ASSUME NEW eos \in BOOLEAN
  PROVE  /\ RecvOpen(Idle, eos, FALSE) \in States
         /\ CanSendOpen(RecvOpen(Idle, eos, FALSE))
<1>1. Idle \in States
  BY DEF States
<1>2. RecvOpen(Idle, eos, FALSE) \in States
  BY <1>1, RecvOpenState DEF Receiving, Ensues
<1>3. CanSendOpen(RecvOpen(Idle, eos, FALSE))
  BY DEF RecvOpen, CanRecvOpen, IsRecvHeaders, CanSendOpen, HasLocal, Idle, Open,
         HalfClosedRemote, ReservedRemote, AwaitingHeaders
<1> QED
  BY <1>2, <1>3

\* The record of a stream that the peer opened.
Requested(handle, w, st) ==
  [NewStream("linked", handle, w) EXCEPT !.state = st, !.counted = TRUE]

LEMMA RequestedSound ==
  ASSUME NEW handle \in Handle, NEW w \in 0 .. MaxWindow, NEW st \in States,
         NEW low \in -MaxWindow .. 0, NEW server
  PROVE  LET q == Requested(handle, w, st)
         IN  /\ StoredSound(q, 0, low, server) /\ q \in StreamRecord
             /\ q.place = "linked" /\ q.flow.available = 0
             /\ q.state = st /\ q.counted = TRUE
<1> DEFINE new == NewStream("linked", handle, w)
           r == WithState(new, st)
           q == Counted(r)
<1>1. /\ new \in StreamRecord /\ StoredSound(r, 0, low, server) /\ r \in StreamRecord
      /\ r.place = "linked" /\ r.flow.available = 0 /\ r.state = st
  BY FreshSound
<1>2. q = Requested(handle, w, st)
  <2> HIDE DEF new
  <2>1. q = [new EXCEPT !.state = st, !.counted = TRUE]
    BY <1>1 DEF Counted, WithState, StreamRecord
  <2> QED
    BY <2>1 DEF Requested, new
<1> HIDE DEF r
<1>3. /\ q \in StreamRecord
      /\ q.place = r.place /\ q.state = r.state /\ q.flow = r.flow
      /\ q.requested = r.requested /\ q.buffered = r.buffered /\ q.queue = r.queue
  BY <1>1, CountedFields
<1>4. q.counted = TRUE
  BY <1>1 DEF Counted, StreamRecord
<1> HIDE DEF q
<1>5. StoredSound(q, 0, low, server)
  BY <1>1, <1>3
     DEF StoredSound, IsStored, InBounds, Fits, Unasked, Settled, Linking, CannotSend
<1> QED
  BY <1>1, <1>2, <1>3, <1>4, <1>5

\* HEADERS of the peer have opened stream s.
LEMMA RequestOpens ==
  ASSUME IInv, NEW s \in Streams, NEW eos \in BOOLEAN, NEW handle \in Handle,
         IsServer(inner), inner.streams[s].place = "new"
  PROVE  LET st == RecvOpen(Idle, eos, FALSE)
             q == Requested(handle, inner.initWindow, st)
             j == [inner EXCEPT !.streams[s] = q, !.numStreams = @ + 1]
         IN  /\ Whole(j, codec.rest, Low) /\ Carried(inner, j) /\ IsServer(j)
             /\ IsStored(j.streams[s]) /\ CanSendOpen(j.streams[s].state)
<1> DEFINE st == RecvOpen(Idle, eos, FALSE)
           w == inner.initWindow
           q == Requested(handle, w, st)
           n == inner.numStreams + 1
           strs == [inner.streams EXCEPT ![s] = q]
           j == [inner EXCEPT !.streams[s] = q, !.numStreams = @ + 1]
           extra == Flying(inner, codec.rest)
<1>1. /\ Sound(inner, extra, Low, 0) /\ inner \in InnerRecord
      /\ inner.streams \in [Streams -> StreamRecord] /\ inner.numStreams \in Int
      /\ w \in 0 .. MaxWindow /\ Low[s] \in -MaxWindow .. 0
  BY InvFacts, LowType, SoundType DEF Whole, InnerRecord
<1>2. st \in States /\ CanSendOpen(st)
  BY HeadersFromRequest
<1> HIDE DEF st, w, extra
<1>3. /\ StoredSound(q, 0, Low[s], IsServer(inner)) /\ q \in StreamRecord
      /\ q.place = "linked" /\ q.flow.available = 0 /\ q.state = st /\ q.counted = TRUE
  BY <1>1, <1>2, RequestedSound, ZenonT(60)
<1> HIDE DEF q
<1>4. strs \in [Streams -> StreamRecord] /\ n \in Int /\ strs[s] = q
  BY <1>1, <1>3
<1>5. j = [inner EXCEPT !.streams = strs, !.numStreams = n]
  BY <1>1 DEF InnerRecord
<1>6. /\ j \in InnerRecord /\ j.streams = strs /\ j.openQ = inner.openQ
      /\ j.flow = inner.flow
      /\ j.peer = inner.peer /\ j.sendQ = inner.sendQ /\ j.capacityQ = inner.capacityQ
      /\ j.resetQ = inner.resetQ /\ j.numResets = inner.numResets
      /\ j.numStreams = n /\ j.inFlight = inner.inFlight
      /\ j.initWindow = inner.initWindow
  <2> HIDE DEF strs, n, j
  <2> QED
    BY <1>1, <1>4, <1>5 DEF InnerRecord
<1> HIDE DEF j
<1>7. Sound(j, extra, Low, 0)
  BY <1>1, <1>3, <1>6, CreateSound
<1>8. Whole(j, codec.rest, Low) /\ Carried(inner, j)
  BY <1>6, <1>7, FlyingKept DEF Whole, extra, Carried, FlightKept
<1>9. IsServer(j) /\ IsStored(j.streams[s]) /\ CanSendOpen(j.streams[s].state)
  BY <1>2, <1>3, <1>4, <1>6 DEF IsStored, IsServer
<1> QED
  BY <1>8, <1>9 DEF j, q, w, st

\* A step that begins with a value other than inner.
LEMMA TransitionFrom ==
  ASSUME IInv, Unchanged, NEW i, NEW s \in Streams, NEW j, Carried(inner, i),
         Whole(j, codec.rest, Low), Handled(i, j, s), inner' = Transition(i, j, s)
  PROVE  IInv'
<1> DEFINE k == Transition(i, j, s)
<1>1. Sound(k, Flying(j, codec.rest), Low, 0) /\ Kept(i, k, s) /\ Settles(j, k, s)
  BY TransitionSound DEF Whole
<1>2. Whole(k, codec.rest, Low)
  BY <1>1, FlyingKept DEF Whole, Settles
<1>3. Carried(inner, k)
  BY <1>1, KeptCarried, CarriedTrans
<1> QED
  BY <1>2, <1>3, InnerStep

LEMMA RecvRequestKeeps ==
  ASSUME IInv, NEW s \in Streams, NEW eos \in BOOLEAN, NEW handle \in {"waiting", "dropped"},
         RecvRequest(s, eos, handle)
  PROVE  IInv'
<1> DEFINE st == RecvOpen(Idle, eos, FALSE)
           opened == [inner EXCEPT !.streams[s] = Requested(handle, inner.initWindow, st),
                                   !.numStreams = @ + 1]
           reset == ResetStream(opened, s)
           headed == SendHeaders(opened, s, TRUE)
           scheduled == ScheduleImplicitReset(headed, s, "PROTOCOL_ERROR")
           refused == EnqueueResetExpiration(scheduled, s)
<1>1. NewStream("linked", handle, inner.initWindow).state = Idle
  BY DEF NewStream
<1>2. /\ inner.peer = "server" /\ inner.streams[s].place = "new" /\ Unchanged
      /\ \/ inner' = opened
         \/ inner' = Transition(opened, reset, s)
         \/ inner' = Transition(opened, refused, s)
  BY <1>1 DEF RecvRequest, IsNext, Requested
<1>3. /\ handle \in Handle /\ IsServer(inner) /\ codec.rest \in Nat
      /\ "PROTOCOL_ERROR" \in Reasons /\ "PROTOCOL_ERROR" # "NO_ERROR"
  BY <1>2, InvFacts DEF Handle, IsServer, Reasons
<1>4. /\ Whole(opened, codec.rest, Low) /\ Carried(inner, opened) /\ IsServer(opened)
      /\ IsStored(opened.streams[s]) /\ CanSendOpen(opened.streams[s].state)
  BY <1>2, <1>3, RequestOpens
<1> HIDE DEF opened
<1>5. CASE inner' = opened
  BY <1>2, <1>4, <1>5, InnerStep
<1>6. CASE inner' = Transition(opened, reset, s)
  <2>1. Whole(reset, codec.rest, Low) /\ Handled(opened, reset, s)
    BY <1>3, <1>4, ResetStreamSound
  <2> QED
    BY <1>2, <1>4, <1>6, <2>1, TransitionFrom
<1>7. CASE inner' = Transition(opened, refused, s)
  <2>1. Whole(headed, codec.rest, Low) /\ Handled(opened, headed, s)
    BY <1>3, <1>4, SendHeadersSound
  <2> HIDE DEF headed
  <2>2. Whole(scheduled, codec.rest, Low) /\ Handled(headed, scheduled, s)
    BY <1>3, <2>1, ScheduleImplicitResetSound DEF Handled
  <2> HIDE DEF scheduled
  <2>3. Whole(refused, codec.rest, Low) /\ Handled(scheduled, refused, s)
    BY <2>2, EnqueueResetWhole DEF Handled
  <2>4. Handled(opened, refused, s)
    BY <2>1, <2>2, <2>3, HandledTrans
  <2> HIDE DEF refused
  <2> QED
    BY <1>2, <1>4, <1>7, <2>3, <2>4, TransitionFrom
<1> QED
  BY <1>2, <1>5, <1>6, <1>7

----------------------------------------------------------------------------
(* Actions on the connection.                                              *)

\* A step that fails every stream, or may.
LEMMA FailedStep ==
  ASSUME IInv, NEW i, Whole(i, codec.rest, [s \in Streams |-> -MaxWindow]), FlightKept(inner, i),
         inner' = i, codec' = codec, phase' \in {"failed", "dropped"}
  PROVE  IInv'
<1>1. phase' \in Phases /\ ~Reading'
  BY DEF Phases, Reading
<1>2. LowOf(inner', Reading') = [s \in Streams |-> -MaxWindow]
  BY <1>1 DEF LowOf
<1> QED
  BY <1>1, <1>2, StepTo

LEMMA WholeLower ==
  ASSUME NEW i, NEW rest, NEW low, Whole(i, rest, low)
  PROVE  Whole(i, rest, [s \in Streams |-> -MaxWindow])
<1> DEFINE low2 == [s \in Streams |-> -MaxWindow]
<1>1. low \in [Streams -> -MaxWindow .. 0]
  BY SoundType DEF Whole
<1>2. low2 \in [Streams -> -MaxWindow .. 0] /\ \A s \in Streams : low2[s] <= low[s]
  <2>1. -MaxWindow \in -MaxWindow .. 0
    BY MaxWindowAssumption
  <2>2. \A s \in Streams : low[s] \in -MaxWindow .. 0
    BY <1>1
  <2> QED
    BY <2>1, <2>2, MaxWindowAssumption
<1> HIDE DEF low2
<1> QED
  BY <1>2, LowWeaken DEF Whole, low2

LEMMA FlightTrans ==
  ASSUME NEW i, NEW j, NEW k, FlightKept(i, j), FlightKept(j, k)
  PROVE  FlightKept(i, k)
BY StreamsType DEF FlightKept

LEMMA FailConnectionKeeps ==
  ASSUME IInv, NEW i, NEW low, Whole(i, codec.rest, low), FlightKept(inner, i), FailConnection(i)
  PROVE  IInv'
<1>1. PICK order \in Orders : inner' = FailAll(i, order, "LocalGoAway")
  BY DEF FailConnection
<1>2. codec.rest \in Nat /\ "LocalGoAway" \in Errors
  BY InvFacts DEF Errors, LocalErrors
<1>3. Whole(inner', codec.rest, low) /\ Carried(i, inner')
  BY <1>1, <1>2, FailAllSound
<1>4. Whole(inner', codec.rest, [s \in Streams |-> -MaxWindow]) /\ FlightKept(inner, inner')
  <2>1. FlightKept(inner, inner')
    BY <1>3, FlightTrans DEF Carried
  <2> QED
    BY <1>3, <2>1, WholeLower
<1> QED
  BY <1>4, FailedStep DEF FailConnection

LEMMA ConnectionErrorKeeps ==
  ASSUME IInv, ConnectionError
  PROVE  IInv'
<1>1. Whole(inner, codec.rest, Low) /\ FlightKept(inner, inner)
  BY InvFacts DEF FlightKept
<1> QED
  BY <1>1, FailConnectionKeeps DEF ConnectionError

LEMMA RecvEofKeeps ==
  ASSUME IInv, NEW dropped \in BOOLEAN, RecvEof(dropped)
  PROVE  IInv'
<1>1. /\ codec' = codec /\ phase' \in {"failed", "dropped"}
      /\ \E order \in Orders :
           LET failed == ClearResets(FailAll(inner, order, "Io"))
               accepted == IF dropped THEN ClearAccept(failed) ELSE failed
           IN  inner' = ClearOpen(ClearSend(ClearCapacity(accepted)))
  BY DEF RecvEof
<1>2. Whole(inner', codec.rest, Low) /\ Carried(inner, inner')
  BY <1>1, InvFacts, EofSound
<1>3. Whole(inner', codec.rest, [s \in Streams |-> -MaxWindow])
  BY <1>2, WholeLower
<1> QED
  BY <1>1, <1>2, <1>3, FailedStep DEF Carried

LEMMA ExpireResetKeeps ==
  ASSUME IInv, ExpireReset
  PROVE  IInv'
<1>1. Whole(inner', codec.rest, Low) /\ Carried(inner, inner')
  BY InvFacts, ExpireSound DEF ExpireReset
<1> QED
  BY <1>1, InnerStep DEF ExpireReset

\* Only a limit changes.
LEMMA LimitStep ==
  ASSUME NEW i, NEW rest, NEW low, NEW j \in InnerRecord, Whole(i, rest, low),
         j.streams = i.streams, j.flow = i.flow, j.peer = i.peer, j.initWindow = i.initWindow,
         j.openQ = i.openQ, j.resetQ = i.resetQ, j.sendQ = i.sendQ, j.capacityQ = i.capacityQ,
         j.numStreams = i.numStreams, j.numResets = i.numResets, j.inFlight = i.inFlight
  PROVE  Whole(j, rest, low) /\ Carried(i, j)
<1>1. \A t \in Streams : InQueue(j, t) => InQueue(i, t) \/ IsStored(i.streams[t])
  BY DEF InQueue
<1>2. Sound(j, Flying(i, rest), low, 0)
  BY <1>1, QueueStep DEF Whole
<1> QED
  BY <1>2, FlyingKept DEF Whole, Carried, FlightKept

LEMMA RecvMaxConcurrentStreamsKeeps ==
  ASSUME IInv, NEW limit \in Limits, RecvMaxConcurrentStreams(limit)
  PROVE  IInv'
<1>1. Whole(inner, codec.rest, Low) /\ inner \in InnerRecord /\ limit \in Nat
  BY InvFacts, SoundType, SendAssumption DEF Whole
<1>2. inner' = [inner EXCEPT !.maxStreams = limit] /\ Unchanged
  BY DEF RecvMaxConcurrentStreams
<1>3. /\ inner' \in InnerRecord
      /\ inner'.streams = inner.streams /\ inner'.flow = inner.flow
      /\ inner'.peer = inner.peer /\ inner'.initWindow = inner.initWindow
      /\ inner'.openQ = inner.openQ /\ inner'.resetQ = inner.resetQ
      /\ inner'.sendQ = inner.sendQ /\ inner'.capacityQ = inner.capacityQ
      /\ inner'.numStreams = inner.numStreams /\ inner'.numResets = inner.numResets
      /\ inner'.inFlight = inner.inFlight
  BY <1>1, <1>2 DEF InnerRecord
<1>4. Whole(inner', codec.rest, Low) /\ Carried(inner, inner')
  BY <1>1, <1>3, LimitStep
<1> QED
  BY <1>2, <1>4, InnerStep

LEMMA RecvGoAwayKeeps ==
  ASSUME IInv, NEW last \in LastStreams, RecvGoAway(last)
  PROVE  IInv'
<1>1. PICK order \in Orders :
        inner' = [IF inner.peer = "client"
                    THEN FailAfter(inner, order, last, "RemoteGoAway") ELSE inner
                      EXCEPT !.maxStreamId = last]
  BY DEF RecvGoAway
<1> DEFINE i == IF inner.peer = "client"
                  THEN FailAfter(inner, order, last, "RemoteGoAway") ELSE inner
<1>2. last \in Nat /\ "RemoteGoAway" \in Errors /\ codec.rest \in Nat
  BY InvFacts, SendAssumption DEF Errors, RemoteErrors
<1>3. Whole(i, codec.rest, Low) /\ Carried(inner, i)
  <2>1. CASE inner.peer = "client"
    BY <1>2, <2>1, InvFacts, FailAfterSound
  <2>2. CASE inner.peer # "client"
    BY <2>2, InvFacts DEF Carried, FlightKept
  <2> QED
    BY <2>1, <2>2
<1>4. inner' = [i EXCEPT !.maxStreamId = last]
  BY <1>1
<1> HIDE DEF i
<1>5. i \in InnerRecord
  BY <1>3, SoundType DEF Whole
<1>6. /\ inner' \in InnerRecord
      /\ inner'.streams = i.streams /\ inner'.flow = i.flow
      /\ inner'.peer = i.peer /\ inner'.initWindow = i.initWindow
      /\ inner'.openQ = i.openQ /\ inner'.resetQ = i.resetQ
      /\ inner'.sendQ = i.sendQ /\ inner'.capacityQ = i.capacityQ
      /\ inner'.numStreams = i.numStreams /\ inner'.numResets = i.numResets
      /\ inner'.inFlight = i.inFlight
  BY <1>2, <1>4, <1>5 DEF InnerRecord
<1>7. Whole(inner', codec.rest, Low) /\ Carried(i, inner')
  BY <1>3, <1>6, LimitStep
<1>8. Carried(inner, inner')
  BY <1>3, <1>7, CarriedTrans
<1>9. Reading /\ Reading' /\ phase' \in Phases /\ codec' = codec
  BY DEF RecvGoAway, Reading, Phases
<1>10. LowOf(inner', Reading') = Low
  BY <1>8, <1>9 DEF LowOf, Low, Carried
<1> QED
  BY <1>7, <1>8, <1>9, <1>10, StepTo DEF Carried

----------------------------------------------------------------------------
(* Windows that grow.                                                      *)

Raised(r, inc) == [r EXCEPT !.flow = IncWindow(r.flow, inc)]

LEMMA RaisedFields ==
  ASSUME NEW r \in StreamRecord, NEW inc \in Int, CanIncWindow(r.flow, inc)
  PROVE  LET q == Raised(r, inc)
         IN  /\ q \in StreamRecord
             /\ q.place = r.place /\ q.state = r.state /\ q.handle = r.handle
             /\ q.counted = r.counted /\ q.buffered = r.buffered
             /\ q.requested = r.requested /\ q.queue = r.queue
             /\ q.flow.window = r.flow.window + inc
             /\ q.flow.available = r.flow.available
<1> DEFINE w == r.flow.window + inc
           flow == IncWindow(r.flow, inc)
           q == [r EXCEPT !.flow = flow]
<1>1. r.flow \in Flow
  BY DEF StreamRecord
<1>2. w \in Int
  BY <1>1 DEF Flow
<1>3. flow = [r.flow EXCEPT !.window = w]
  BY DEF IncWindow
<1> HIDE DEF w, flow
<1>4. flow \in Flow /\ flow.window = w /\ flow.available = r.flow.available
  BY <1>1, <1>2, <1>3 DEF Flow
<1>5. q \in StreamRecord
  BY <1>4 DEF StreamRecord
<1>6. /\ q.place = r.place /\ q.state = r.state /\ q.handle = r.handle
      /\ q.counted = r.counted /\ q.buffered = r.buffered
      /\ q.requested = r.requested /\ q.queue = r.queue /\ q.flow = flow
  BY DEF StreamRecord
<1>7. q = Raised(r, inc)
  BY DEF Raised, flow
<1> HIDE DEF q
<1> QED
  BY <1>4, <1>5, <1>6, <1>7 DEF w

LEMMA RaisedSound ==
  ASSUME NEW r, NEW extra, NEW low \in -MaxWindow .. 0, NEW low2 \in -MaxWindow .. 0,
         NEW server, NEW inc \in Nat, StoredSound(r, extra, low, server),
         CanIncWindow(r.flow, inc), low2 <= low + inc
  PROVE  StoredSound(Raised(r, inc), extra, low2, server)
<1> DEFINE q == Raised(r, inc)
<1>1. /\ r \in StreamRecord /\ IsStored(r) /\ InBounds(r) /\ Fits(r) /\ Unasked(r)
      /\ (server => Settled(r)) /\ r.buffered = Octets(r.queue) + extra /\ Linking(r, low)
  BY DEF StoredSound
<1>2. /\ q \in StreamRecord /\ q.place = r.place /\ q.state = r.state
      /\ q.buffered = r.buffered /\ q.requested = r.requested /\ q.queue = r.queue
      /\ q.flow.window = r.flow.window + inc /\ q.flow.available = r.flow.available
  BY <1>1, RaisedFields
<1> HIDE DEF q
<1>3. /\ r.flow.window \in -MaxWindow .. MaxWindow /\ r.flow.available \in 0 .. MaxWindow
      /\ r.flow.available <= WindowSize(r.flow) /\ MaxWindow \in Nat
      /\ r.flow.window + inc <= MaxWindow
  BY <1>1, MaxWindowAssumption DEF InBounds, Fits, CanIncWindow
<1>4. r.flow.window + inc \in -MaxWindow .. MaxWindow
  BY <1>3
<1>5. InBounds(q)
  BY <1>1, <1>2, <1>4 DEF InBounds
<1>6. Fits(q)
  BY <1>1, <1>2, <1>3 DEF Fits, WindowSize, AsSize
<1>7. Linking(q, low2)
  BY <1>1, <1>2, <1>3 DEF Linking, CannotSend
<1> QED
  BY <1>1, <1>2, <1>5, <1>6, <1>7 DEF StoredSound, IsStored, Unasked, Settled, q

\* A window that nothing may be sent in may be anywhere.
LEMMA Unlimited ==
  ASSUME NEW r, NEW extra, NEW low, NEW low2, NEW server, StreamSound(r, extra, low, server),
         r.place # "linked" \/ CannotSend(r)
  PROVE  StreamSound(r, extra, low2, server)
BY DEF StreamSound, StoredSound, Linking

\* One WINDOW_UPDATE, or one stream's part of a larger initial window.
LEMMA WindowUpdateSound ==
  ASSUME NEW i, NEW s \in Streams, NEW rest \in Nat, NEW low, NEW low2,
         NEW inc \in Nat, Whole(i, rest, low), IsStored(i.streams[s]),
         low2 \in [Streams -> -MaxWindow .. 0],
         \A t \in Streams : t # s => low2[t] = low[t],
         low2[s] <= low[s] + inc
  PROVE  LET update == StreamWindowUpdate(i, s, inc)
         IN  /\ update.ok \in BOOLEAN
             /\ update.ok => Whole(update.inner, rest, low2)
             /\ ~update.ok => Whole(update.inner, rest, low)
             /\ Carried(i, update.inner) /\ IsStored(update.inner.streams[s])
<1> DEFINE r == i.streams[s]
           extra == Flying(i, rest)
           update == StreamWindowUpdate(i, s, inc)
           q == Raised(r, inc)
           j == [i EXCEPT !.streams[s].flow = IncWindow(@, inc)]
           k == TryAssign(j, s)
<1>1. /\ SoundBut(i, s, extra, low, 0) /\ StoredSound(r, extra[s], low[s], IsServer(i))
      /\ i \in InnerRecord /\ i.streams \in [Streams -> StreamRecord]
      /\ low \in [Streams -> -MaxWindow .. 0] /\ extra \in [Streams -> Nat]
  BY StoredAt, SoundType DEF Whole
<1>2. Scope(extra, low2) /\ \A t \in Streams : t # s => extra[t] = extra[t] /\ low2[t] = low[t]
  BY <1>1 DEF Scope
<1> HIDE DEF extra
<1>3. CASE CannotSend(r)
  <2>1. update = [inner |-> i, ok |-> TRUE]
    BY <1>3 DEF StreamWindowUpdate
  <2>2. \A t \in Streams : StreamSound(i.streams[t], extra[t], low2[t], IsServer(i))
    <3>1. StreamSound(r, extra[s], low2[s], IsServer(i))
      BY <1>1, <1>3, Unlimited DEF StreamSound
    <3>2. ASSUME NEW t \in Streams, t # s
          PROVE  StreamSound(i.streams[t], extra[t], low2[t], IsServer(i))
      BY <1>1, <3>2 DEF SoundBut
    <3> QED
      BY <3>1, <3>2
  <2>3. Sound(i, extra, low2, 0)
    BY <1>1, <1>2, <2>2 DEF Sound, SoundBut
  <2>4. Whole(i, rest, low2) /\ Carried(i, i)
    BY <2>3 DEF Whole, extra, Carried, FlightKept
  <2> QED
    BY <2>1, <2>4
<1>4. CASE ~CannotSend(r) /\ CanIncWindow(r.flow, inc)
  <2>1. update = [inner |-> k, ok |-> TRUE]
    BY <1>4 DEF StreamWindowUpdate
  <2>2. r \in StreamRecord /\ inc \in Int
    BY <1>1
  <2>3. /\ q \in StreamRecord /\ q.place = r.place /\ q.counted = r.counted
        /\ q.flow.available = r.flow.available
    BY <1>4, <2>2, RaisedFields
  <2>4. StoredSound(q, extra[s], low2[s], IsServer(i))
    <3>1. low[s] \in -MaxWindow .. 0 /\ low2[s] \in -MaxWindow .. 0
      BY <1>1
    <3> QED
      BY <1>1, <1>4, <3>1, RaisedSound
  <2>5. j = With(i, s, q)
    BY <1>1 DEF With, Raised, InnerRecord
  <2> HIDE DEF q, j
  <2>6. /\ j \in InnerRecord /\ j.streams[s] = q /\ Elsewhere(i, j, s) /\ SameBooks(i, j)
        /\ j.flow = i.flow /\ j.sendQ = i.sendQ /\ j.capacityQ = i.capacityQ
    BY <1>1, <2>3, <2>5, WithFields
  <2>7. /\ j.peer = i.peer /\ j.openQ = i.openQ /\ j.resetQ = i.resetQ
        /\ j.numStreams = i.numStreams /\ j.numResets = i.numResets
        /\ j.streams[s].place = r.place /\ j.streams[s].counted = r.counted
        /\ j.streams[s].flow.available = r.flow.available /\ IsServer(j) = IsServer(i)
    BY <2>3, <2>6 DEF SameBooks, IsServer
  <2>8. SoundBut(j, s, extra, low2, 0)
    BY <1>1, <1>2, <2>6, <2>7, RecordStep
  <2>9. Sound(j, extra, low2, 0) /\ IsStored(j.streams[s])
    BY <2>4, <2>6, <2>7, <2>8, SoundFrom DEF StoredSound
  <2>10. Sound(k, extra, low2, 0) /\ Steady(j, k)
    BY <2>9, TryAssignSound
  <2> HIDE DEF k
  <2>11. k.inFlight = i.inFlight /\ Carried(i, k)
    BY <2>6, <2>10 DEF Steady, SameBooks, Carried, FlightKept
  <2>12. Whole(k, rest, low2)
    BY <2>10, <2>11, FlyingKept DEF Whole, extra
  <2>13. IsStored(k.streams[s])
    BY <2>9, <2>10 DEF Steady, Alike, IsStored
  <2> QED
    BY <2>1, <2>11, <2>12, <2>13
<1>5. CASE ~CannotSend(r) /\ ~CanIncWindow(r.flow, inc)
  <2>1. update = [inner |-> SendReset(i, s), ok |-> FALSE]
    BY <1>5 DEF StreamWindowUpdate
  <2>2. Whole(SendReset(i, s), rest, low) /\ Handled(i, SendReset(i, s), s)
    BY SendResetSound
  <2> QED
    BY <2>1, <2>2, KeptCarried DEF Handled
<1> QED
  BY <1>3, <1>4, <1>5

LEMMA RecvStreamWindowUpdateKeeps ==
  ASSUME IInv, NEW s \in Streams, NEW inc \in Increments, RecvStreamWindowUpdate(s, inc)
  PROVE  IInv'
<1> DEFINE update == StreamWindowUpdate(inner, s, inc)
<1>1. /\ IsStored(inner.streams[s]) /\ Whole(inner, codec.rest, Low) /\ codec.rest \in Nat
      /\ inc \in Nat /\ Low \in [Streams -> -MaxWindow .. 0]
      /\ Unchanged
      /\ inner' = IF update.ok THEN update.inner ELSE EnqueueResetExpiration(update.inner, s)
  <2>1. inc \in 1 .. MaxWindow
    BY SendAssumption
  <2> QED
    BY <2>1, InvFacts, LowType DEF RecvStreamWindowUpdate, Receives
<1>2. Low[s] <= Low[s] + inc
  BY <1>1, MaxWindowAssumption
<1>3. /\ Whole(update.inner, codec.rest, Low)
      /\ Carried(inner, update.inner) /\ IsStored(update.inner.streams[s])
  BY <1>1, <1>2, WindowUpdateSound
<1> HIDE DEF update
<1> DEFINE j == EnqueueResetExpiration(update.inner, s)
<1>4. /\ Whole(j, codec.rest, Low)
      /\ Carried(inner, j)
  <2>1. /\ Whole(j, codec.rest, Low)
        /\ Handled(update.inner, j, s)
    BY <1>3, EnqueueResetWhole
  <2> HIDE DEF j
  <2> QED
    BY <1>3, <2>1, KeptCarried, CarriedTrans DEF Handled
<1>5. Whole(inner', codec.rest, Low) /\ Carried(inner, inner')
  BY <1>1, <1>3, <1>4
<1> QED
  BY <1>1, <1>5, InnerStep

\* The lower bounds once the first k streams of an order had their update.
Rising(order, k, old, new) ==
  [t \in Streams |-> IF \E m \in 1 .. k : order[m] = t THEN new ELSE old]

Bottom == [t \in Streams |-> -MaxWindow]

Updated(i, acc, rest, low) ==
  /\ acc \in UpdateResult
  /\ Whole(acc.inner, rest, IF acc.ok THEN low ELSE Bottom)
  /\ Carried(i, acc.inner)

LEMMA UpdateNextSound ==
  ASSUME NEW i, NEW acc, NEW s \in Streams, NEW rest \in Nat, NEW low, NEW low2,
         NEW inc \in Nat, Updated(i, acc, rest, low), low \in [Streams -> -MaxWindow .. 0],
         low2 \in [Streams -> -MaxWindow .. 0],
         \A t \in Streams : t # s => low2[t] = low[t],
         low2[s] <= low[s] + inc
  PROVE  Updated(i, UpdateNext(acc, s, inc), rest, low2)
<1> DEFINE next == UpdateNext(acc, s, inc)
           update == StreamWindowUpdate(acc.inner, s, inc)
<1>1. /\ acc \in UpdateResult /\ Carried(i, acc.inner) /\ acc.inner \in InnerRecord
      /\ acc.ok \in BOOLEAN /\ Whole(acc.inner, rest, IF acc.ok THEN low ELSE Bottom)
  BY DEF Updated, UpdateResult
<1>2. CASE ~acc.ok
  BY <1>1, <1>2 DEF UpdateNext, Updated
<1>3. CASE acc.ok /\ acc.inner.streams[s].place # "linked"
  <2>1. next = acc /\ Whole(acc.inner, rest, low)
    BY <1>1, <1>3 DEF UpdateNext, Linked
  <2>2. SoundBut(acc.inner, Nobody, Flying(acc.inner, rest), low, 0)
    BY <2>1 DEF Whole, Sound
  <2>3. \A t \in Streams :
          StreamSound(acc.inner.streams[t], Flying(acc.inner, rest)[t], low2[t], IsServer(acc.inner))
    <3>1. ASSUME NEW t \in Streams
          PROVE  StreamSound(acc.inner.streams[t], Flying(acc.inner, rest)[t], low2[t],
                             IsServer(acc.inner))
      <4>1. StreamSound(acc.inner.streams[t], Flying(acc.inner, rest)[t], low[t],
                        IsServer(acc.inner))
        BY <2>2, StreamsType DEF SoundBut
      <4>2. CASE t = s
        BY <1>3, <4>1, <4>2, Unlimited
      <4>3. CASE t # s
        BY <4>1, <4>3
      <4> QED
        BY <4>2, <4>3
    <3> QED
      BY <3>1
  <2>4. Whole(acc.inner, rest, low2)
    BY <2>2, <2>3 DEF SoundBut, Sound, Whole, Scope
  <2> QED
    BY <1>1, <1>3, <2>1, <2>4 DEF Updated
<1>4. CASE acc.ok /\ acc.inner.streams[s].place = "linked"
  <2>1. next = update /\ Whole(acc.inner, rest, low) /\ IsStored(acc.inner.streams[s])
    BY <1>1, <1>4 DEF UpdateNext, Linked, IsStored
  <2>2. /\ update.ok \in BOOLEAN
        /\ (update.ok => Whole(update.inner, rest, low2))
        /\ (~update.ok => Whole(update.inner, rest, low))
        /\ Carried(acc.inner, update.inner)
    BY <2>1, WindowUpdateSound
  <2>3. update.inner \in InnerRecord
    BY <2>2, SoundType DEF Whole
  <2>4. update \in UpdateResult
    <3>1. \E x, y : update = [inner |-> x, ok |-> y]
      BY DEF StreamWindowUpdate
    <3>2. PICK x, y : update = [inner |-> x, ok |-> y]
      BY <3>1
    <3> HIDE DEF update
    <3> QED
      BY <2>2, <2>3, <3>2 DEF UpdateResult
  <2>5. Whole(update.inner, rest, IF update.ok THEN low2 ELSE Bottom)
    BY <2>2, WholeLower DEF Bottom
  <2>6. Carried(i, update.inner)
    BY <1>1, <2>2, CarriedTrans
  <2> HIDE DEF update, next
  <2> QED
    BY <2>1, <2>4, <2>5, <2>6 DEF Updated, next
<1> QED
  BY <1>1, <1>2, <1>3, <1>4

LEMMA UpdateAllSound ==
  ASSUME NEW i, NEW order \in Orders, NEW rest \in Nat,
         NEW old \in -MaxWindow .. 0, NEW new \in -MaxWindow .. 0, NEW inc \in Nat,
         new = old + inc, Whole(i, rest, [t \in Streams |-> old])
  PROVE  LET updated == UpdateAll(i, order, inc)
         IN  Updated(i, updated, rest, [t \in Streams |-> new])
<1> DEFINE good == [k \in Nat |-> {acc \in UpdateResult :
                                     Updated(i, acc, rest, Rising(order, k, old, new))}]
           step == [k \in Nat |-> [acc \in UpdateResult |-> UpdateNext(acc, order[k], inc)]]
           x == [inner |-> i, ok |-> TRUE]
<1>1. NStreams \in Nat
  BY StreamsType
<1>2. /\ Rising(order, 0, old, new) = [t \in Streams |-> old]
      /\ Rising(order, NStreams, old, new) = [t \in Streams |-> new]
  <2>1. 1 .. 0 = {}
    OBVIOUS
  <2>2. \A s \in Streams : \E k \in 1 .. NStreams : order[k] = s
    BY OrdersType
  <2> QED
    BY <2>1, <2>2 DEF Rising
<1>3. x \in good[0]
  <2>1. i \in InnerRecord
    BY SoundType DEF Whole
  <2>2. x \in UpdateResult
    BY <2>1 DEF UpdateResult
  <2> QED
    BY <1>2, <2>2 DEF Updated, Carried, FlightKept
<1>4. ASSUME NEW k \in 1 .. NStreams, NEW acc \in good[k - 1]
      PROVE  step[k][acc] \in good[k]
  <2> DEFINE s == order[k]
             low == Rising(order, k - 1, old, new)
             low2 == Rising(order, k, old, new)
  <2>1. k \in Nat /\ k - 1 \in Nat /\ s \in Streams
    BY <1>1, OrdersType
  <2>2. acc \in UpdateResult /\ Updated(i, acc, rest, low)
    BY <2>1
  <2>3. step[k][acc] = UpdateNext(acc, s, inc)
    BY <2>1, <2>2
  <2>4. low \in [Streams -> -MaxWindow .. 0] /\ low2 \in [Streams -> -MaxWindow .. 0]
    BY DEF Rising
  <2>5. \A t \in Streams : t # s => low2[t] = low[t]
    <3>1. \A m \in 1 .. k : m \in 1 .. k - 1 \/ m = k
      BY <2>1
    <3>2. \A m \in 1 .. k - 1 : m \in 1 .. k
      BY <2>1
    <3> QED
      BY <3>1, <3>2 DEF Rising
  <2>6. low2[s] <= low[s] + inc
    <3>1. low2[s] = new /\ low[s] \in {old, new}
      <4>1. k \in 1 .. k
        BY <2>1
      <4> QED
        BY <2>1, <4>1 DEF Rising
    <3> QED
      BY <3>1, MaxWindowAssumption
  <2> HIDE DEF low, low2, s, step, good
  <2>7. Updated(i, UpdateNext(acc, s, inc), rest, low2)
    BY <2>1, <2>2, <2>4, <2>5, <2>6, UpdateNextSound
  <2>8. UpdateNext(acc, s, inc) \in UpdateResult
    BY <2>7 DEF Updated
  <2> QED
    BY <2>1, <2>3, <2>7, <2>8 DEF good, low2
<1>5. Leads(step, good, NStreams)
  <2> HIDE DEF step, good
  <2> QED
    BY <1>4 DEF Leads
<1>6. UpdateAll(i, order, inc) = Loop(step, x, NStreams)
  BY DEF UpdateAll
<1> HIDE DEF step, good, x
<1>7. Loop(step, x, NStreams) \in good[NStreams]
  BY <1>1, <1>3, <1>5, LoopLeads
<1> QED
  BY <1>1, <1>2, <1>6, <1>7 DEF good

LEMMA InitWindowStep ==
  ASSUME NEW i, NEW rest, NEW low, NEW w \in 0 .. MaxWindow, Whole(i, rest, low)
  PROVE  LET j == [i EXCEPT !.initWindow = w]
         IN  /\ Whole(j, rest, low) /\ j.peer = i.peer /\ j.inFlight = i.inFlight
             /\ j.initWindow = w
<1> DEFINE j == [i EXCEPT !.initWindow = w]
<1>1. i \in InnerRecord
  BY SoundType DEF Whole
<1>2. /\ j \in InnerRecord
      /\ j.streams = i.streams /\ j.flow = i.flow /\ j.peer = i.peer
      /\ j.openQ = i.openQ /\ j.resetQ = i.resetQ /\ j.sendQ = i.sendQ
      /\ j.capacityQ = i.capacityQ
      /\ j.numStreams = i.numStreams /\ j.numResets = i.numResets
      /\ j.inFlight = i.inFlight /\ j.initWindow = w
  BY <1>1 DEF InnerRecord
<1> HIDE DEF j
<1>3. \A t \in Streams : InQueue(j, t) => InQueue(i, t) \/ IsStored(i.streams[t])
  BY <1>2 DEF InQueue
<1>4. Sound(j, Flying(i, rest), low, 0)
  BY <1>2, <1>3, QueueStep DEF Whole
<1> QED
  BY <1>2, <1>4, FlyingKept DEF Whole, j

LEMMA RecvLargerInitialWindowKeeps ==
  ASSUME IInv, NEW sz \in InitWindows, RecvLargerInitialWindow(sz)
  PROVE  IInv'
<1> DEFINE w == inner.initWindow
           i == [inner EXCEPT !.initWindow = sz]
           old == w - MaxWindow
           new == sz - MaxWindow
<1>1. PICK order \in Orders :
        LET updated == UpdateAll(i, order, sz - w)
        IN  IF updated.ok THEN inner' = updated.inner /\ Unchanged
                          ELSE FailConnection(updated.inner)
  BY DEF RecvLargerInitialWindow
<1> DEFINE updated == UpdateAll(i, order, sz - w)
<1>2. /\ sz \in 0 .. MaxWindow /\ w \in 0 .. MaxWindow /\ sz > w /\ Reading
      /\ Whole(inner, codec.rest, Low) /\ codec.rest \in Nat
  BY InvFacts, SoundType, SendAssumption DEF RecvLargerInitialWindow, Whole, InnerRecord
<1>3. /\ old \in -MaxWindow .. 0 /\ new \in -MaxWindow .. 0 /\ sz - w \in Nat
      /\ new = old + (sz - w)
  BY <1>2, MaxWindowAssumption
<1>4. Low = [t \in Streams |-> old]
  BY <1>2 DEF Low, LowOf
<1>5. /\ Whole(i, codec.rest, Low) /\ i.inFlight = inner.inFlight /\ i.initWindow = sz
  BY <1>2, InitWindowStep
<1>6. Updated(i, updated, codec.rest, [t \in Streams |-> new])
  <2> HIDE DEF i, old, new
  <2>1. Whole(i, codec.rest, [t \in Streams |-> old])
    BY <1>4, <1>5
  <2> QED
    BY <1>2, <1>3, <2>1, UpdateAllSound
<1> HIDE DEF updated
<1>7. FlightKept(inner, updated.inner) /\ updated.inner.initWindow = sz
  BY <1>5, <1>6 DEF Updated, Carried, FlightKept
<1>8. CASE updated.ok
  <2>1. /\ inner' = updated.inner /\ codec' = codec /\ phase' = phase
        /\ Whole(inner', codec.rest, [t \in Streams |-> new])
    BY <1>1, <1>6, <1>8 DEF updated, Unchanged, Updated
  <2>2. Reading' /\ phase' \in Phases
    BY <1>2, <2>1 DEF Reading, Phases
  <2>3. LowOf(inner', Reading') = [t \in Streams |-> new]
    BY <1>7, <2>1, <2>2 DEF LowOf
  <2> QED
    BY <1>7, <2>1, <2>2, <2>3, StepTo
<1>9. CASE ~updated.ok
  <2>1. FailConnection(updated.inner) /\ Whole(updated.inner, codec.rest, Bottom)
    BY <1>1, <1>6, <1>9 DEF updated, Updated
  <2> QED
    BY <1>7, <2>1, FailConnectionKeeps
<1> QED
  BY <1>8, <1>9

LEMMA RecvConnectionWindowUpdateKeeps ==
  ASSUME IInv, NEW inc \in Increments, RecvConnectionWindowUpdate(inc)
  PROVE  IInv'
<1> DEFINE extra == Flying(inner, codec.rest)
           flow == IncWindow(inner.flow, inc)
           j == [inner EXCEPT !.flow = IncWindow(@, inc)]
           k == AssignConnection(j, inc)
<1>1. /\ Sound(inner, extra, Low, 0) /\ CanIncWindow(inner.flow, inc)
      /\ inner' = k /\ Unchanged /\ inc \in Nat
  <2>1. inc \in 1 .. MaxWindow
    BY SendAssumption
  <2> QED
    BY <2>1, InvFacts DEF RecvConnectionWindowUpdate, Whole
<1> HIDE DEF extra
<1>2. /\ inner \in InnerRecord /\ inner.flow \in Flow
      /\ inner.streams \in [Streams -> StreamRecord]
  BY <1>1, SoundType
<1>3. /\ flow \in Flow /\ flow.window = inner.flow.window + inc
      /\ flow.available = inner.flow.available /\ flow.window <= MaxWindow
  <2>1. flow = [inner.flow EXCEPT !.window = inner.flow.window + inc]
        /\ inner.flow.window + inc <= MaxWindow /\ inner.flow.window + inc \in Int
    BY <1>1, <1>2 DEF IncWindow, CanIncWindow, Flow
  <2> DEFINE w == inner.flow.window + inc
  <2> HIDE DEF w, flow
  <2>2. flow = [inner.flow EXCEPT !.window = w] /\ w \in Int /\ w <= MaxWindow
    BY <2>1 DEF w
  <2>3. flow \in Flow /\ flow.window = w /\ flow.available = inner.flow.available
    BY <1>2, <2>2 DEF Flow
  <2> QED
    BY <2>2, <2>3 DEF w
<1>4. j = [inner EXCEPT !.flow = flow]
  OBVIOUS
<1> HIDE DEF flow, j
<1>5. /\ j \in InnerRecord /\ j.flow = flow /\ j.streams = inner.streams /\ SameBooks(inner, j)
      /\ j.sendQ = inner.sendQ /\ j.capacityQ = inner.capacityQ
  BY <1>2, <1>3, <1>4 DEF InnerRecord, SameBooks
<1>6. /\ Scope(extra, Low) /\ Account(inner, 0) /\ Keys(inner) /\ Slots(inner) /\ Resets(inner)
      /\ (IsServer(inner) => inner.openQ = <<>>)
      /\ \A t \in Streams : t # Nobody =>
           StreamSound(inner.streams[t], extra[t], Low[t], IsServer(inner))
  BY <1>1 DEF Sound, SoundBut
<1>7. Account(j, inc)
  <2>1. Shares(inner.streams) \in Int /\ inner.flow.window \in Int /\ inner.flow.available \in Int
    BY <1>2, SharesType DEF Flow
  <2> QED
    BY <1>1, <1>3, <1>5, <1>6, <2>1 DEF Account
<1>8. /\ Keys(j) /\ Slots(j) /\ Resets(j) /\ IsServer(j) = IsServer(inner)
      /\ (IsServer(j) => j.openQ = <<>>)
  BY <1>5, <1>6 DEF Keys, InQueue, Slots, Resets, SameBooks, IsServer
<1>9. Sound(j, extra, Low, inc)
  BY <1>5, <1>6, <1>7, <1>8 DEF Sound, SoundBut
<1>10. Sound(k, extra, Low, 0) /\ Steady(j, k)
  BY <1>9, AssignConnectionSound
<1> HIDE DEF k
<1>11. k.inFlight = inner.inFlight /\ Carried(inner, k)
  BY <1>5, <1>10 DEF Steady, SameBooks, Carried, FlightKept
<1>12. Whole(k, codec.rest, Low)
  BY <1>10, <1>11, FlyingKept DEF Whole, extra
<1> QED
  BY <1>1, <1>11, <1>12, InnerStep

----------------------------------------------------------------------------
(* Windows that shrink, all at once.                                       *)

LEMMA ShrinkFields ==
  ASSUME NEW r \in StreamRecord, NEW dec \in Nat, CanDecSendWindow(r.flow, dec),
         r.flow.available \in 0 .. MaxWindow
  PROVE  LET q == Shrink(r, dec)
         IN  /\ q \in StreamRecord
             /\ q.place = r.place /\ q.state = r.state /\ q.handle = r.handle
             /\ q.counted = r.counted /\ q.buffered = r.buffered
             /\ q.requested = r.requested /\ q.queue = r.queue
             /\ q.flow.window = r.flow.window - dec
             /\ q.flow.available \in 0 .. r.flow.available
             /\ q.flow.available <= WindowSize(q.flow)
<1> DEFINE w == r.flow.window - dec
           dflow == DecSendWindow(r.flow, dec)
           size == AsSize(w)
           a == r.flow.available
           less == ClaimCapacity(dflow, a - size)
           flow == IF a > size THEN less ELSE dflow
           q == [r EXCEPT !.flow = flow]
<1>1. r.flow \in Flow /\ MaxWindow \in Nat
  BY MaxWindowAssumption DEF StreamRecord
<1>2. w \in Int /\ a \in 0 .. MaxWindow /\ size \in Nat
  BY <1>1 DEF Flow, AsSize
<1>3. dflow = [r.flow EXCEPT !.window = w]
  BY DEF DecSendWindow
<1> HIDE DEF w, dflow
<1>4. dflow \in Flow /\ dflow.window = w /\ dflow.available = a
  BY <1>1, <1>2, <1>3 DEF Flow
<1>5. WindowSize(dflow) = size
  BY <1>4 DEF WindowSize
<1> HIDE DEF size
<1>6. q = Shrink(r, dec)
  BY <1>4, <1>5 DEF Shrink, dflow
<1>7. ASSUME a > size
      PROVE  less \in Flow /\ less.window = w /\ less.available = size
  <2> DEFINE b == a - (a - size)
  <2>1. CanClaim(dflow, a - size) /\ b = size /\ b \in Int
    BY <1>1, <1>2, <1>4, <1>7 DEF CanClaim, MinWindow
  <2>2. less = [dflow EXCEPT !.available = b]
    BY <1>4, <2>1 DEF ClaimCapacity
  <2> HIDE DEF b, less
  <2> QED
    BY <1>4, <2>1, <2>2 DEF Flow
<1> HIDE DEF less
<1>8. /\ flow \in Flow /\ flow.window = w /\ flow.available \in 0 .. a
      /\ flow.available <= size
  BY <1>2, <1>4, <1>7
<1> HIDE DEF flow
<1>9. q \in StreamRecord
  BY <1>8 DEF StreamRecord
<1>10. /\ q.place = r.place /\ q.state = r.state /\ q.handle = r.handle
       /\ q.counted = r.counted /\ q.buffered = r.buffered
       /\ q.requested = r.requested /\ q.queue = r.queue /\ q.flow = flow
  BY DEF StreamRecord
<1> HIDE DEF q
<1> QED
  BY <1>6, <1>8, <1>9, <1>10 DEF w, a, size, WindowSize

LEMMA ShrinkSound ==
  ASSUME NEW r, NEW extra, NEW low \in -MaxWindow .. 0, NEW low2 \in -MaxWindow .. 0,
         NEW server, NEW dec \in Nat, StoredSound(r, extra, low, server),
         r.place = "linked", ~CannotSend(r), low2 = low - dec
  PROVE  /\ StoredSound(Shrink(r, dec), extra, low2, server)
         /\ Shrink(r, dec).place = r.place /\ Shrink(r, dec).counted = r.counted
         /\ Shrink(r, dec).flow.available \in 0 .. r.flow.available
<1> DEFINE q == Shrink(r, dec)
<1>1. /\ r \in StreamRecord /\ IsStored(r) /\ InBounds(r) /\ Fits(r) /\ Unasked(r)
      /\ (server => Settled(r)) /\ r.buffered = Octets(r.queue) + extra /\ Linking(r, low)
  BY DEF StoredSound
<1>2. /\ r.flow.window \in -MaxWindow .. MaxWindow /\ r.flow.available \in 0 .. MaxWindow
      /\ MaxWindow \in Nat /\ r.flow.window >= low /\ r.requested \in Int
      /\ r.flow.available <= r.requested
  BY <1>1, MaxWindowAssumption, SendAssumption DEF InBounds, Linking, Fits
<1>3. CanDecSendWindow(r.flow, dec) /\ r.flow.window - dec >= low2
      /\ r.flow.window - dec \in -MaxWindow .. MaxWindow
  BY <1>2 DEF CanDecSendWindow, MinWindow
<1>4. /\ q \in StreamRecord
      /\ q.place = r.place /\ q.state = r.state /\ q.handle = r.handle
      /\ q.counted = r.counted /\ q.buffered = r.buffered
      /\ q.requested = r.requested /\ q.queue = r.queue
      /\ q.flow.window = r.flow.window - dec
      /\ q.flow.available \in 0 .. r.flow.available
      /\ q.flow.available <= WindowSize(q.flow)
  BY <1>1, <1>2, <1>3, ShrinkFields
<1> HIDE DEF q
<1>5. q.flow.available \in 0 .. MaxWindow /\ q.flow.available <= q.requested
  BY <1>2, <1>4
<1>6. InBounds(q)
  BY <1>1, <1>3, <1>4, <1>5 DEF InBounds
<1>7. Fits(q) /\ Unasked(q) /\ IsStored(q) /\ q.buffered = Octets(q.queue) + extra
  BY <1>1, <1>4, <1>5 DEF Fits, Unasked, IsStored
<1>8. ASSUME server PROVE Settled(q)
  <2>1. ASSUME r.flow.available = 0 PROVE q.flow.available = 0
    BY <1>4, <2>1
  <2> QED
    BY <1>1, <1>4, <1>8, <2>1 DEF Settled
<1>9. Linking(q, low2)
  BY <1>1, <1>3, <1>4 DEF Linking
<1> QED
  BY <1>4, <1>6, <1>7, <1>8, <1>9 DEF StoredSound, q

\* What the streams lose is what the connection is given to hand out again.
LEMMA SharesReclaimed ==
  ASSUME NEW strs \in [Streams -> StreamRecord], NEW strs2 \in [Streams -> StreamRecord],
         \A t \in Streams : strs2[t].flow.available <= strs[t].flow.available
  PROVE  LET lost == Total([t \in Streams |-> strs[t].flow.available
                                                - strs2[t].flow.available], NStreams)
         IN  lost \in Nat /\ Shares(strs) = Shares(strs2) + lost
<1> DEFINE f == [t \in Streams |-> strs[t].flow.available]
           g == [t \in Streams |-> strs2[t].flow.available]
           h == [t \in Streams |-> strs[t].flow.available - strs2[t].flow.available]
<1>1. /\ \A t \in Streams : f[t] = strs[t].flow.available /\ f[t] \in Int
      /\ \A t \in Streams : g[t] = strs2[t].flow.available /\ g[t] \in Int
      /\ \A t \in Streams : h[t] = strs[t].flow.available - strs2[t].flow.available
  BY DEF StreamRecord, Flow
<1>2. Shares(strs) = Total(f, NStreams) /\ Shares(strs2) = Total(g, NStreams)
  BY DEF Shares
<1> HIDE DEF f, g, h
<1>3. \A t \in Streams : h[t] \in Nat /\ f[t] = g[t] + h[t]
  BY <1>1
<1>4. Summable(g, NStreams) /\ Summable(h, NStreams) /\ Summable(f, NStreams)
  BY <1>1, <1>3, StreamsType DEF Summable
<1>5. Total(h, NStreams) \in Nat
  <2>1. \A k \in 1 .. NStreams : h[k] \in Nat
    BY <1>3, StreamsType
  <2> QED
    BY <2>1, StreamsType, TotalOfNaturals
<1>6. Total(f, NStreams) = Total(g, NStreams) + Total(h, NStreams)
  <2>1. \A k \in 1 .. NStreams : f[k] = g[k] + h[k]
    BY <1>3, StreamsType
  <2> QED
    BY <1>4, <2>1, StreamsType, TotalOfSums
<1> QED
  BY <1>2, <1>5, <1>6 DEF h

LEMMA RecvSmallerInitialWindowKeeps ==
  ASSUME IInv, NEW sz \in InitWindows, RecvSmallerInitialWindow(sz)
  PROVE  IInv'
<1> DEFINE i == inner
           w == inner.initWindow
           dec == w - sz
           strs == [s \in Streams |->
                      IF s \in Linked(inner) /\ ~CannotSend(inner.streams[s])
                        THEN Shrink(inner.streams[s], inner.initWindow - sz)
                        ELSE inner.streams[s]]
           lost == Total([s \in Streams |-> inner.streams[s].flow.available
                                              - strs[s].flow.available], NStreams)
           j == [inner EXCEPT !.initWindow = sz, !.streams = strs]
           k == AssignConnection(j, lost)
           extra == Flying(inner, codec.rest)
           new == sz - MaxWindow
           low2 == [t \in Streams |-> new]
<1>1. Reading /\ sz < w /\ inner' = k /\ Unchanged
  BY DEF RecvSmallerInitialWindow
<1>2. /\ Sound(inner, extra, Low, 0) /\ Whole(inner, codec.rest, Low)
      /\ inner \in InnerRecord /\ inner.streams \in [Streams -> StreamRecord]
      /\ codec.rest \in Nat
  BY InvFacts, SoundType DEF Whole
<1>3. /\ sz \in 0 .. MaxWindow /\ w \in 0 .. MaxWindow /\ MaxWindow \in Nat
  BY <1>2, SendAssumption, MaxWindowAssumption DEF InnerRecord
<1>4. dec \in Nat /\ w - MaxWindow \in -MaxWindow .. 0 /\ new \in -MaxWindow .. 0
      /\ new = (w - MaxWindow) - dec
  BY <1>1, <1>3
<1>5. \A t \in Streams : Low[t] = w - MaxWindow /\ low2[t] = new
  BY <1>1 DEF Low, LowOf
<1> HIDE DEF extra, new
<1>6. /\ Scope(extra, Low) /\ Account(inner, 0) /\ Keys(inner) /\ Slots(inner) /\ Resets(inner)
      /\ (IsServer(inner) => inner.openQ = <<>>)
      /\ \A t \in Streams : StreamSound(inner.streams[t], extra[t], Low[t], IsServer(inner))
  BY <1>2, StreamsType DEF Sound, SoundBut
<1>7. ASSUME NEW t \in Streams
      PROVE  /\ StreamSound(strs[t], extra[t], low2[t], IsServer(inner))
             /\ strs[t] \in StreamRecord
             /\ strs[t].place = inner.streams[t].place
             /\ strs[t].counted = inner.streams[t].counted
             /\ strs[t].flow.available <= inner.streams[t].flow.available
  <2> DEFINE r == inner.streams[t]
  <2>1. StreamSound(r, extra[t], Low[t], IsServer(inner)) /\ r \in StreamRecord
    BY <1>2, <1>6
  <2>2. CASE t \in Linked(inner) /\ ~CannotSend(r)
    <3>1. r.place = "linked" /\ strs[t] = Shrink(r, dec)
      BY <2>2 DEF Linked
    <3>2. StoredSound(r, extra[t], Low[t], IsServer(inner))
      BY <2>1, <3>1 DEF StreamSound, AbsentSound, NewStream
    <3> DEFINE q == Shrink(r, dec)
               server == IsServer(inner)
               old == Low[t]
    <3>3. old \in -MaxWindow .. 0 /\ new = old - dec
      BY <1>4, <1>5
    <3>7. /\ StoredSound(r, extra[t], old, server) /\ dec \in Nat /\ new \in -MaxWindow .. 0
          /\ r.place = "linked" /\ ~CannotSend(r)
          /\ old \in -MaxWindow .. 0 /\ new = old - dec
      BY <1>4, <2>2, <3>1, <3>2, <3>3
    <3> HIDE DEF dec, server, old, r
    <3>8. /\ StoredSound(Shrink(r, dec), extra[t], new, server)
          /\ Shrink(r, dec).place = r.place /\ Shrink(r, dec).counted = r.counted
          /\ Shrink(r, dec).flow.available \in 0 .. r.flow.available
      BY <3>7, ShrinkSound
    <3>4. /\ StoredSound(q, extra[t], new, server)
          /\ q.place = r.place /\ q.counted = r.counted
          /\ q.flow.available \in 0 .. r.flow.available
      BY <3>8
    <3>5. q \in StreamRecord /\ q.flow.available \in Int /\ r.flow.available \in Int
      BY <2>1, <3>4 DEF StoredSound, StreamRecord, Flow
    <3>6. q.flow.available <= r.flow.available
      BY <3>4, <3>5
    <3> HIDE DEF q, strs
    <3> QED
      BY <1>5, <3>1, <3>4, <3>5, <3>6 DEF StreamSound, server, q, r
  <2>3. CASE ~(t \in Linked(inner) /\ ~CannotSend(r))
    <3>1. strs[t] = r
      BY <2>3
    <3>2. r.place # "linked" \/ CannotSend(r)
      BY <2>3 DEF Linked
    <3>3. StreamSound(r, extra[t], low2[t], IsServer(inner))
      BY <2>1, <3>2, Unlimited
    <3>4. r.flow.available \in Int
      BY <2>1 DEF StreamRecord, Flow
    <3> QED
      BY <2>1, <3>1, <3>3, <3>4
  <2> QED
    BY <2>2, <2>3
<1>8. strs \in [Streams -> StreamRecord]
  BY <1>7
<1>9. lost \in Nat /\ Shares(inner.streams) = Shares(strs) + lost
  <2> HIDE DEF strs
  <2> QED
    BY <1>2, <1>7, <1>8, SharesReclaimed
<1> HIDE DEF strs, lost
<1>10. /\ j \in InnerRecord
       /\ j.streams = strs /\ j.flow = i.flow /\ j.peer = i.peer
       /\ j.openQ = i.openQ /\ j.resetQ = i.resetQ /\ j.sendQ = i.sendQ
       /\ j.capacityQ = i.capacityQ
       /\ j.numStreams = i.numStreams /\ j.numResets = i.numResets
       /\ j.inFlight = i.inFlight /\ j.initWindow = sz
  BY <1>2, <1>3, <1>8 DEF InnerRecord
<1> HIDE DEF j
<1>11. Account(j, lost)
  <2>1. /\ Shares(inner.streams) \in Int /\ Shares(strs) \in Int
        /\ inner.flow.window \in Int /\ inner.flow.available \in Int
    BY <1>2, <1>8, SharesType DEF InnerRecord, Flow
  <2> QED
    BY <1>6, <1>9, <1>10, <2>1 DEF Account
<1>12. Keys(j)
  BY <1>6, <1>7, <1>10 DEF Keys, InQueue, IsStored
<1>13. Slots(j)
  <2>1. Taken(strs) = Taken(inner.streams)
    <3>1. \A t \in Streams : Takes(strs[t]) = Takes(inner.streams[t])
      BY <1>7 DEF Takes
    <3> QED
      BY <3>1 DEF Taken
  <2>2. Untaken(strs, inner.openQ) = Untaken(inner.streams, inner.openQ)
    <3>1. \A t \in Streams : (IF strs[t].place = "new" \/ Contains(inner.openQ, t) THEN 1 ELSE 0)
               = (IF inner.streams[t].place = "new" \/ Contains(inner.openQ, t) THEN 1 ELSE 0)
      BY <1>7
    <3> QED
      BY <3>1 DEF Untaken
  <2> QED
    BY <1>6, <1>10, <2>1, <2>2 DEF Slots
<1>14. Resets(j) /\ IsServer(j) = IsServer(inner) /\ (IsServer(j) => j.openQ = <<>>)
  BY <1>6, <1>10 DEF Resets, IsServer
<1>15. Scope(extra, low2)
  BY <1>4, <1>6 DEF Scope
<1>16. \A t \in Streams : StreamSound(j.streams[t], extra[t], low2[t], IsServer(j))
  BY <1>7, <1>10, <1>14
<1> HIDE DEF low2
<1>17. Sound(j, extra, low2, lost)
  BY <1>10, <1>11, <1>12, <1>13, <1>14, <1>15, <1>16 DEF Sound, SoundBut
<1>18. Sound(k, extra, low2, 0) /\ Steady(j, k)
  BY <1>17, AssignConnectionSound
<1> HIDE DEF k
<1>19. k.inFlight = i.inFlight /\ k.initWindow = sz /\ FlightKept(inner, k)
  BY <1>10, <1>18 DEF Steady, SameBooks, FlightKept
<1>20. Whole(k, codec.rest, low2)
  BY <1>18, <1>19, FlyingKept DEF Whole, extra
<1>21. /\ codec' = codec /\ phase' = phase /\ Reading' /\ phase' \in Phases
  BY <1>1 DEF Unchanged, Reading, IInv
<1>22. LowOf(inner', Reading') = low2
  BY <1>1, <1>19, <1>21 DEF LowOf, low2, new
<1> QED
  BY <1>1, <1>19, <1>20, <1>21, <1>22, StepTo

----------------------------------------------------------------------------
(* The invariant holds at first, and every step keeps it.                  *)

LEMMA InitKeeps ==
  ASSUME Init
  PROVE  IInv
<1> DEFINE fresh == NewStream("new", "waiting", 0)
           strs == [s \in Streams |-> fresh]
           zero == [window |-> 0, available |-> 0]
           flow == NewFlow(DefaultWindow)
           none == Behind(Nothing, 0)
<1>1. PICK peer \in Peers :
        inner = [peer |-> peer, flow |-> flow,
                 initWindow |-> DefaultWindow, maxStreams |-> NStreams,
                 numStreams |-> 0, numResets |-> 0, maxStreamId |-> NStreams,
                 sendQ |-> <<>>, capacityQ |-> <<>>, openQ |-> <<>>,
                 resetQ |-> <<>>, inFlight |-> Nothing, streams |-> strs]
  BY DEF Init
<1>2. codec = NoFrame /\ codec.rest = 0 /\ phase = "running"
  BY DEF Init, NoFrame
<1>3. /\ DefaultWindow \in 0 .. MaxWindow /\ MaxWindow \in Nat /\ NStreams \in Nat
      /\ MaxResets \in Nat /\ MaxBuffered \in Nat /\ Peers \subseteq {"client", "server"}
  BY SendAssumption, MaxWindowAssumption
<1>4. flow \in Flow /\ flow.window = DefaultWindow /\ flow.available = DefaultWindow
  BY <1>3 DEF NewFlow, Flow
<1> HIDE DEF flow
<1>5. zero \in Flow /\ zero.window = 0 /\ zero.available = 0
  BY DEF Flow
<1>6. /\ fresh \in StreamRecord /\ fresh.place = "new" /\ fresh.flow = zero
      /\ fresh.requested = 0 /\ fresh.buffered = 0 /\ fresh.counted = FALSE
  <2> DEFINE place == "new"
             idle == Idle
             off == FALSE
             queue == <<>>
             handle == "waiting"
  <2>1. fresh = [place |-> place, state |-> idle, handle |-> handle, flow |-> zero,
                 requested |-> 0, buffered |-> 0, queue |-> queue, counted |-> off]
    BY DEF NewStream
  <2>2. place \in Place /\ idle \in States /\ handle \in Handle /\ off \in BOOLEAN
        /\ queue \in Seq(Frames)
    BY DEF Place, Handle, States
  <2> HIDE DEF place, idle, off, queue, handle, zero, fresh
  <2>3. /\ fresh \in StreamRecord /\ fresh.place = place /\ fresh.flow = zero
        /\ fresh.requested = 0 /\ fresh.buffered = 0 /\ fresh.counted = off
    BY <1>5, <2>1, <2>2 DEF StreamRecord
  <2> QED
    BY <2>3 DEF place, off, fresh, zero
<1>7. InBounds(fresh)
  <2> HIDE DEF fresh, zero
  <2>1. 0 \in -MaxWindow .. MaxWindow /\ 0 \in 0 .. MaxWindow
        /\ 0 \in 0 .. MaxWindow + MaxBuffered /\ 0 \in 0 .. MaxBuffered
    BY <1>3
  <2> QED
    BY <1>5, <1>6, <2>1 DEF InBounds
<1>8. AbsentSound(fresh, 0, IsServer(inner))
  <2>1. fresh \in StreamRecord
    BY <1>6
  <2> QED
    BY <1>7, <2>1 DEF AbsentSound
<1> HIDE DEF fresh, zero
<1>9. strs \in [Streams -> StreamRecord] /\ \A s \in Streams : strs[s] = fresh
  BY <1>6
<1> HIDE DEF strs
<1>10. /\ inner.peer \in {"client", "server"} /\ inner.flow = flow
       /\ inner.initWindow = DefaultWindow /\ inner.maxStreams = NStreams
       /\ inner.numStreams = 0 /\ inner.numResets = 0 /\ inner.maxStreamId = NStreams
       /\ inner.sendQ = <<>> /\ inner.capacityQ = <<>> /\ inner.openQ = <<>>
       /\ inner.resetQ = <<>> /\ inner.inFlight = Nothing /\ inner.streams = strs
  BY <1>1, <1>3
<1>11. inner \in InnerRecord
  <2> DEFINE q == <<>>
             nothing == Nothing
  <2>1. q \in Seq(Streams) /\ nothing \in Streams \cup {Nothing, Drop}
    OBVIOUS
  <2>2. inner = [peer |-> inner.peer, flow |-> flow,
                 initWindow |-> DefaultWindow, maxStreams |-> NStreams,
                 numStreams |-> 0, numResets |-> 0, maxStreamId |-> NStreams,
                 sendQ |-> q, capacityQ |-> q, openQ |-> q,
                 resetQ |-> q, inFlight |-> nothing, streams |-> strs]
    BY <1>1, <1>10
  <2> DEFINE p == inner.peer
  <2>3. p \in {"client", "server"}
    BY <1>10
  <2> HIDE DEF q, nothing, p
  <2> QED
    BY <1>3, <1>4, <1>9, <2>1, <2>2, <2>3 DEF InnerRecord, p
<1>12. none \in [Streams -> Nat] /\ \A s \in Streams : none[s] = 0
  BY StreamsType DEF Behind
<1>13. Scope(none, Low)
  <2>1. DefaultWindow - MaxWindow \in -MaxWindow .. 0 /\ -MaxWindow \in -MaxWindow .. 0
    BY <1>3
  <2> QED
    BY <1>10, <1>12, <2>1 DEF Scope, Low, LowOf
<1>14. \A s \in Streams : StreamSound(inner.streams[s], none[s], Low[s], IsServer(inner))
  BY <1>8, <1>9, <1>10, <1>12 DEF StreamSound
<1>15. Account(inner, 0)
  <2> DEFINE f == [s \in Streams |-> inner.streams[s].flow.available]
  <2>1. \A k \in 1 .. NStreams : f[k] = 0
    BY <1>5, <1>6, <1>9, <1>10, StreamsType
  <2> HIDE DEF f
  <2>2. Total(f, NStreams) = 0
    BY <1>3, <2>1, TotalOfZeros
  <2>3. Shares(inner.streams) = 0
    BY <2>2 DEF Shares, f
  <2> QED
    BY <1>3, <1>4, <1>10, <2>3 DEF Account
<1>16. Keys(inner)
  BY <1>10, EmptyQueue DEF Keys, InQueue
<1>17. Slots(inner)
  <2> DEFINE f == [s \in Streams |-> Takes(inner.streams[s])]
             g == [s \in Streams |-> IF inner.streams[s].place = "new"
                                          \/ Contains(inner.openQ, s) THEN 1 ELSE 0]
  <2>1. \A k \in 1 .. NStreams : f[k] = 0 /\ g[k] \in {0, 1}
    BY <1>6, <1>9, <1>10, StreamsType DEF Takes
  <2> HIDE DEF f, g
  <2>2. Total(f, NStreams) = 0
    BY <1>3, <2>1, TotalOfZeros
  <2>3. Total(g, NStreams) \in 0 .. NStreams
    BY <1>3, <2>1, TotalOfBits
  <2>4. Taken(inner.streams) = 0 /\ Untaken(inner.streams, inner.openQ) \in 0 .. NStreams
    BY <2>2, <2>3 DEF Taken, Untaken, f, g
  <2>5. Distinct(inner.openQ)
    BY <1>10 DEF Distinct
  <2> QED
    BY <1>3, <1>10, <2>4, <2>5 DEF Slots
<1>18. Resets(inner)
  BY <1>3, <1>10, EmptyQueue DEF Resets
<1>19. Sound(inner, none, Low, 0)
  BY <1>10, <1>11, <1>13, <1>14, <1>15, <1>16, <1>17, <1>18 DEF Sound, SoundBut
<1>20. Whole(inner, codec.rest, Low)
  BY <1>2, <1>10, <1>19, NoRest DEF Whole
<1> QED
  BY <1>2, <1>10, <1>20 DEF IInv, CodecSound, Phases

LEMMA StepKeeps ==
  ASSUME IInv, [Next]_vars
  PROVE  IInv'
<1>1. ASSUME NEW s \in Streams, User(s) PROVE IInv'
  <2>1. ASSUME NEW eos \in BOOLEAN, SendRequest(s, eos) PROVE IInv'
    BY <2>1, SendRequestKeeps
  <2>2. ASSUME NEW eos \in BOOLEAN, SendResponse(s, eos) PROVE IInv'
    BY <2>2, SendResponseKeeps
  <2>3. ASSUME NEW sz \in Sizes, NEW eos \in BOOLEAN, SendDataFrame(s, sz, eos) PROVE IInv'
    BY <2>3, SendDataFrameKeeps
  <2>4. ASSUME NEW capacity \in Reservations, Reserve(s, capacity) PROVE IInv'
    BY <2>4, ReserveKeeps
  <2>5. ASSUME Accept(s) PROVE IInv'
    BY <2>5, AcceptKeeps
  <2>6. ASSUME SendInformational(s) PROVE IInv'
    BY <2>6, SendInformationalKeeps
  <2>7. ASSUME SendTrailersFrame(s) PROVE IInv'
    BY <2>7, SendTrailersFrameKeeps
  <2>8. ASSUME UserReset(s) PROVE IInv'
    BY <2>8, UserResetKeeps
  <2>9. ASSUME DropStreamRef(s) PROVE IInv'
    BY <2>9, DropStreamRefKeeps
  <2> QED
    BY <1>1, <2>1, <2>2, <2>3, <2>4, <2>5, <2>6, <2>7, <2>8, <2>9 DEF User
<1>2. ASSUME NEW s \in Streams, Receive(s) PROVE IInv'
  <2>1. ASSUME NEW eos \in BOOLEAN, NEW handle \in {"waiting", "dropped"},
               RecvRequest(s, eos, handle)
        PROVE  IInv'
    BY <2>1, RecvRequestKeeps
  <2>2. ASSUME NEW eos \in BOOLEAN, RecvResponse(s, eos) PROVE IInv'
    BY <2>2, RecvResponseKeeps
  <2>3. ASSUME NEW inc \in Increments, RecvStreamWindowUpdate(s, inc) PROVE IInv'
    BY <2>3, RecvStreamWindowUpdateKeeps
  <2>4. ASSUME RecvEndStream(s) PROVE IInv'
    BY <2>4, RecvEndStreamKeeps
  <2>5. ASSUME RecvStreamError(s) PROVE IInv'
    BY <2>5, RecvStreamErrorKeeps
  <2>6. ASSUME RecvRstStream(s) PROVE IInv'
    BY <2>6, RecvRstStreamKeeps
  <2> QED
    BY <1>2, <2>1, <2>2, <2>3, <2>4, <2>5, <2>6 DEF Receive
<1>3. ASSUME Write PROVE IInv'
  <2>1. CASE BufferPending
    BY <2>1, BufferPendingKeeps
  <2>2. CASE ReclaimFrame
    BY <2>2, ReclaimFrameKeeps
  <2> QED
    BY <1>3, <2>1, <2>2 DEF Write
<1>4. ASSUME ExpireReset PROVE IInv'
  BY <1>4, ExpireResetKeeps
<1>5. ASSUME ConnectionError PROVE IInv'
  BY <1>5, ConnectionErrorKeeps
<1>6. ASSUME NEW inc \in Increments, RecvConnectionWindowUpdate(inc) PROVE IInv'
  BY <1>6, RecvConnectionWindowUpdateKeeps
<1>7. ASSUME NEW sz \in InitWindows, RecvSmallerInitialWindow(sz) PROVE IInv'
  BY <1>7, RecvSmallerInitialWindowKeeps
<1>8. ASSUME NEW sz \in InitWindows, RecvLargerInitialWindow(sz) PROVE IInv'
  BY <1>8, RecvLargerInitialWindowKeeps
<1>9. ASSUME NEW limit \in Limits, RecvMaxConcurrentStreams(limit) PROVE IInv'
  BY <1>9, RecvMaxConcurrentStreamsKeeps
<1>10. ASSUME NEW last \in LastStreams, RecvGoAway(last) PROVE IInv'
  BY <1>10, RecvGoAwayKeeps
<1>11. ASSUME NEW dropped \in BOOLEAN, RecvEof(dropped) PROVE IInv'
  BY <1>11, RecvEofKeeps
<1>12. ASSUME UNCHANGED vars PROVE IInv'
  BY <1>12 DEF vars, IInv, CodecSound, Low, Reading
<1> QED
  BY <1>1, <1>2, <1>3, <1>4, <1>5, <1>6, <1>7, <1>8, <1>9, <1>10, <1>11, <1>12 DEF Next

----------------------------------------------------------------------------
(* What the invariant says.                                                *)

\* Every reachable state satisfies the inductive invariant IInv.
THEOREM Invariance == Spec => []IInv
<1>1. Init => IInv
  BY InitKeeps
<1>2. IInv /\ [Next]_vars => IInv'
  BY StepKeeps
<1> QED
  BY <1>1, <1>2, PTL DEF Spec

LEMMA InvStreams ==
  ASSUME IInv, NEW s \in Streams
  PROVE  /\ StreamSound(inner.streams[s], Flying(inner, codec.rest)[s], Low[s], IsServer(inner))
         /\ inner.streams[s] \in StreamRecord /\ InBounds(inner.streams[s])
         /\ s \in Stored(inner) <=> IsStored(inner.streams[s])
         /\ IsStored(inner.streams[s]) =>
              StoredSound(inner.streams[s], Flying(inner, codec.rest)[s], Low[s], IsServer(inner))
<1>1. Sound(inner, Flying(inner, codec.rest), Low, 0)
  BY DEF IInv, Whole
<1>2. StreamSound(inner.streams[s], Flying(inner, codec.rest)[s], Low[s], IsServer(inner))
  BY <1>1, SoundAt
<1>3. inner.streams[s] \in StreamRecord /\ InBounds(inner.streams[s])
  BY <1>2 DEF StreamSound, StoredSound, AbsentSound
<1>4. s \in Stored(inner) <=> IsStored(inner.streams[s])
  BY DEF Stored, IsStored
<1>5. IsStored(inner.streams[s]) =>
        StoredSound(inner.streams[s], Flying(inner, codec.rest)[s], Low[s], IsServer(inner))
  BY <1>1, StoredAt
<1> QED
  BY <1>2, <1>3, <1>4, <1>5

\* The type invariant, with the bounds it claims: no stream's window leaves
\* the range dec_send_window checks, the concurrency count stays within the
\* streams there are, and the resets that are remembered within their limit.
THEOREM SendTypes == Spec => []TypeOK
<1>1. ASSUME IInv PROVE TypeOK
  <2>1. /\ Sound(inner, Flying(inner, codec.rest), Low, 0) /\ phase \in Phases
        /\ inner \in InnerRecord /\ Slots(inner) /\ Resets(inner) /\ Account(inner, 0)
    BY <1>1 DEF IInv, Whole, Sound, SoundBut
  <2>2. /\ NStreams \in Nat \ {0} /\ MaxWindow \in Nat /\ 1 \in Streams
    BY SendAssumption, MaxWindowAssumption DEF Streams
  <2>3. inner.flow.window \in 0 .. MaxWindow /\ inner.flow.available \in 0 .. MaxWindow
    BY <2>1, <2>2, AccountBounds
  <2>4. inner.flow \in FlowControls
    <3>1. inner.flow \in Flow
      BY <2>1 DEF InnerRecord
    <3>2. inner.flow.window \in Window /\ inner.flow.available \in Window
      BY <2>2, <2>3 DEF Window, MinWindow
    <3> QED
      BY <3>1, <3>2 DEF Flow, FlowControls
  <2>5. ASSUME NEW s \in Streams
        PROVE  LET stream == inner.streams[s]
               IN  /\ stream.place \in Place /\ stream.handle \in Handle
                   /\ stream.state \in States
                   /\ stream.flow.window \in -MaxWindow .. MaxWindow
                   /\ stream.flow.available \in 0 .. MaxWindow
                   /\ stream.requested \in 0 .. MaxWindow + MaxBuffered
                   /\ stream.buffered \in 0 .. MaxBuffered
                   /\ \A f \in ToSet(stream.queue) : f \in Frames
    <3> DEFINE r == inner.streams[s]
    <3>1. r \in StreamRecord /\ InBounds(r)
      BY <1>1, InvStreams
    <3> HIDE DEF r
    <3>2. r.place \in Place /\ r.handle \in Handle /\ r.state \in States /\ r.queue \in Seq(Frames)
      BY <3>1 DEF StreamRecord
    <3>3. \A f \in ToSet(r.queue) : f \in Frames
      BY <3>2 DEF ToSet
    <3> QED
      BY <3>1, <3>2, <3>3 DEF InBounds, r
  <2>6. inner.numStreams \in 0 .. NStreams
    <3>1. Taken(inner.streams) \in Nat /\ Untaken(inner.streams, inner.openQ) \in Nat
      BY <2>2, TakenChange, UntakenChange
    <3>2. inner.numStreams \in Int
      BY <2>1 DEF InnerRecord
    <3> QED
      BY <2>1, <2>2, <3>1, <3>2 DEF Slots
  <2>7. inner.numResets \in 0 .. MaxResets
    <3>1. Len(inner.resetQ) \in Nat /\ inner.numResets \in Int /\ MaxResets \in Nat
      BY <2>1, SendAssumption DEF InnerRecord
    <3> QED
      BY <2>1, <3>1 DEF Resets
  <2>8. inner.inFlight \in Streams \cup {Nothing, Drop}
    BY <2>1 DEF InnerRecord
  <2> QED
    BY <2>1, <2>4, <2>5, <2>6, <2>7, <2>8 DEF TypeOK, Phases
<1> QED
  BY <1>1, Invariance, PTL

\* The capacity of the connection is divided between the connection and the
\* streams without loss or gain, through every path that assigns, reclaims,
\* spends or returns it.
THEOREM CapacityIsConserved == Spec => []CapacityConserved
<1>1. ASSUME IInv PROVE CapacityConserved
  <2>1. Account(inner, 0) /\ inner \in InnerRecord
    BY <1>1 DEF IInv, Whole, Sound, SoundBut
  <2>2. Shares(inner.streams) = Assigned
    BY DEF Shares, Assigned
  <2>3. Assigned \in Int /\ inner.flow.available \in Int
    BY <2>1, <2>2, SharesType DEF InnerRecord, Flow
  <2> QED
    BY <2>1, <2>2, <2>3 DEF Account, CapacityConserved
<1> QED
  BY <1>1, Invariance, PTL

\* No stream is assigned more than it asked for or than its window allows:
\* the unsigned subtractions of try_assign_capacity never wrap.
THEOREM AssignmentsFit == Spec => []AssignmentFits
<1>1. ASSUME IInv PROVE AssignmentFits
  <2>1. ASSUME NEW s \in Stored(inner) PROVE Fits(inner.streams[s])
    <3>1. s \in Streams
      BY DEF Stored
    <3> QED
      BY <1>1, <3>1, InvStreams DEF StoredSound
  <2> QED
    BY <2>1 DEF AssignmentFits, Fits
<1> QED
  BY <1>1, Invariance, PTL

\* buffered_send_data counts exactly the DATA in the queue and the rest of the
\* frame that is in the codec.
THEOREM BufferedIsExact == Spec => []BufferedExact
<1>1. ASSUME IInv PROVE BufferedExact
  <2>1. ASSUME NEW s \in Stored(inner)
        PROVE  inner.streams[s].buffered =
                 Octets(inner.streams[s].queue) + IF inner.inFlight = s THEN codec.rest ELSE 0
    <3>1. s \in Streams
      BY DEF Stored
    <3>2. Flying(inner, codec.rest)[s] = IF inner.inFlight = s THEN codec.rest ELSE 0
      BY <3>1 DEF Flying
    <3> QED
      BY <1>1, <3>1, <3>2, InvStreams DEF StoredSound
  <2> QED
    BY <2>1 DEF BufferedExact
<1> QED
  BY <1>1, Invariance, PTL

\* Every key in a queue of streams, and the key of the frame that will come
\* back from the codec, resolves: the store never panics on one.
THEOREM KeysResolve == Spec => []NoDanglingKeys
<1>1. ASSUME IInv PROVE NoDanglingKeys
  <2>1. /\ Keys(inner) /\ CodecSound /\ inner \in InnerRecord
        /\ inner.sendQ \in Seq(Streams) /\ inner.capacityQ \in Seq(Streams)
        /\ inner.openQ \in Seq(Streams) /\ inner.resetQ \in Seq(Streams)
    BY <1>1 DEF IInv, Whole, Sound, SoundBut, InnerRecord
  <2>2. ASSUME NEW q \in {inner.sendQ, inner.capacityQ, inner.openQ, inner.resetQ},
               NEW s \in ToSet(q)
        PROVE  s \in Stored(inner)
    <3>1. q \in Seq(Streams)
      BY <2>1
    <3>2. s \in Streams /\ Contains(q, s)
      <4>1. PICK k \in DOMAIN q : s = q[k]
        BY DEF ToSet
      <4>2. k \in 1 .. Len(q)
        BY <3>1, <4>1
      <4> QED
        BY <3>1, <4>1, <4>2 DEF Contains
    <3>3. IsStored(inner.streams[s])
      BY <2>1, <3>2 DEF Keys, InQueue
    <3> QED
      BY <1>1, <3>2, <3>3, InvStreams
  <2>3. ASSUME codec.rest > 0, inner.inFlight # Drop PROVE codec.stream \in Stored(inner)
    <3>1. codec \in HeldFrames /\ codec.stream = inner.inFlight
      BY <2>1, <2>3 DEF CodecSound, NoFrame
    <3>2. codec.stream \in Streams /\ codec.rest \in Int
      BY <3>1, MaxWindowAssumption DEF HeldFrames
    <3>3. Flying(inner, codec.rest)[codec.stream] # 0
      BY <2>3, <3>1, <3>2 DEF Flying
    <3>4. IsStored(inner.streams[codec.stream])
      BY <1>1, <3>2, <3>3, InvStreams DEF StreamSound, AbsentSound, StoredSound
    <3> QED
      BY <1>1, <3>2, <3>4, InvStreams
  <2> QED
    BY <2>2, <2>3 DEF NoDanglingKeys
<1> QED
  BY <1>1, Invariance, PTL

\* A stream of a server that has left the store took no capacity with it.
THEOREM NothingIsKept == Spec => []NothingKept
<1>1. ASSUME IInv PROVE NothingKept
  <2>1. ASSUME NEW s \in Streams, inner.peer = "server", inner.streams[s].place = "removed"
        PROVE  inner.streams[s].flow.available = 0
    <3>1. ~IsStored(inner.streams[s]) /\ inner.streams[s].place # "new"
      BY <2>1 DEF IsStored
    <3>2. NewStream("new", "waiting", 0).place = "new"
      BY DEF NewStream
    <3> QED
      BY <1>1, <2>1, <3>1, <3>2, InvStreams DEF StreamSound, AbsentSound, StoredSound, IsServer
  <2> QED
    BY <2>1 DEF NothingKept
<1> QED
  BY <1>1, Invariance, PTL

=============================================================================
