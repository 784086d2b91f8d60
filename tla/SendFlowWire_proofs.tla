------------------------ MODULE SendFlowWire_proofs ------------------------
(***************************************************************************)
(* Theorems about what SendFlow writes: the frames of a stream are legal,  *)
(* a client's streams are opened in order and within the peer's limit, and *)
(* the streams a client counts are those that have a slot.                 *)
(*                                                                         *)
(* The invariant is TInv.  While the connection reads, the voice of every  *)
(* stream is legal (Talking).  Once it has ended nothing is written any    *)
(* more, what was written stays as it was, and no HEADERS are queued that  *)
(* were not (Hush).                                                        *)
(***************************************************************************)
EXTENDS SendFlowFrames_proofs

----------------------------------------------------------------------------
(* What is invariant while the connection reads.                           *)

Talking(i, w, c) ==
  w \in [Streams -> Views] /\ Lawful(i, w, c.rest, c.eos, i.maxStreamId)

LEMMA ViewsOf ==
  ASSUME NEW i, NEW w, NEW holder, NEW last \in BOOLEAN, NEW bound, NEW opening,
         Legal(i, w, holder, last, bound, opening), NEW s \in Streams
  PROVE  w[s] \in Views /\ (w[s] = "unopened" => bound < s)
<1>1. Utters(i, w[s], holder, last, bound, opening, s)
  BY LegalAt
<1> DEFINE v == w[s]
           r == i.streams[s]
<1>2. \E more, waits, pending, due, server :
        Voice(r, v, more, last, waits, pending, due, server, Past(bound, s))
  BY <1>1 DEF Utters
<1> HIDE DEF v, r
<1>3. PICK more, waits, pending, due, server :
        Voice(r, v, more, last, waits, pending, due, server, Past(bound, s))
  BY <1>2
<1>4. v \in Views
  BY <1>3 DEF Voice, Says, Silent
<1>5. v = "unopened" => Past(bound, s)
  BY <1>3 DEF Voice
<1> QED
  BY <1>4, <1>5 DEF v, Past

LEMMA HolderStored ==
  ASSUME NEW i, NEW extra, NEW low, NEW s \in Streams, Sound(i, extra, low, 0),
         extra[s] \in Nat, extra[s] > 0
  PROVE  /\ IsStored(i.streams[s]) /\ i.streams[s].place # "unlinked"
         /\ i.streams[s].buffered # 0
<1> DEFINE r == i.streams[s]
<1>1. StreamSound(r, extra[s], low[s], IsServer(i))
  BY SoundAt
<1>2. StoredSound(r, extra[s], low[s], IsServer(i))
  BY <1>1 DEF StreamSound, AbsentSound
<1> HIDE DEF r
<1>3. r.queue \in Seq(Frames) /\ Octets(r.queue) \in Nat
  BY <1>2, OctetsType DEF StoredSound, StreamRecord
<1>4. IsStored(r) /\ r.buffered = Octets(r.queue) + extra[s] /\ Linking(r, low[s])
  BY <1>2 DEF StoredSound
<1>5. r.buffered # 0
  BY <1>3, <1>4
<1> QED
  BY <1>4, <1>5 DEF Linking, r

\* What a turn of the loop of buffer_pending writes.
LEMMA PoppedLegal ==
  ASSUME IInv, Talking(inner, wire, codec), codec = NoFrame
  PROVE  LET p == PopFrame(PopPendingOpen(inner))
         IN  /\ Spoken(inner, wire, p, inner.maxStreamId)
             /\ Result(inner, p, Low)
             /\ \E opening : /\ Opener(inner, wire, p, opening)
                             /\ opening # 0 => inner.numStreams < inner.maxStreams
<1> DEFINE i == PopPendingOpen(inner)
           p == PopFrame(i)
           none == Behind(Nothing, 0)
           bound == inner.maxStreamId
<1>1. codec.rest = 0 /\ inner.inFlight = Nothing /\ codec.eos = Never
  <2>1. NoFrame \notin HeldFrames
    BY StreamsType DEF HeldFrames, NoFrame, Nothing, Nobody
  <2> QED
    BY <2>1 DEF IInv, CodecSound, NoFrame, Never
<1>2. Sound(inner, none, Low, 0)
  BY <1>1, NoRest DEF IInv, Whole
<1>3. /\ Sound(i, none, Low, 0) /\ i.inFlight = Nothing
      /\ i.peer = inner.peer /\ i.initWindow = inner.initWindow
  BY <1>1, <1>2, PopPendingOpenSound
<1>4. wire \in [Streams -> Views] /\ Legal(inner, wire, Nothing, Never, bound, 0)
      /\ Never \in BOOLEAN
  BY <1>1, Certainties DEF Talking, Lawful, HolderOf
<1>5. PICK opening : /\ i.maxStreamId = inner.maxStreamId
                     /\ Opened(inner, i, opening)
                     /\ Legal(i, wire, Nothing, Never, bound, opening)
  <2> HIDE DEF bound, none
  <2> QED
    BY <1>2, <1>4, PopPendingOpenLegal
<1> HIDE DEF i, none, bound
<1>6. opening = 0 \/ (i.sendQ # <<>> /\ opening = Head(i.sendQ))
  BY <1>5 DEF Opened
<1>7. /\ Spoken(i, wire, p, bound) /\ Result(i, p, Low)
      /\ Opener(i, wire, p, opening)
  BY <1>3, <1>4, <1>5, <1>6, PopFrameLegal DEF none
<1> HIDE DEF p
<1>8. Spoken(inner, wire, p, bound) /\ Result(inner, p, Low) /\ Opener(inner, wire, p, opening)
  BY <1>3, <1>5, <1>7 DEF Spoken, Result, Opener, IsServer
<1>9. opening # 0 => inner.numStreams < inner.maxStreams
  BY <1>5 DEF Opened
<1> QED
  BY <1>8, <1>9 DEF i, p, bound

LEMMA BufferPendingTalks ==
  ASSUME IInv, Talking(inner, wire, codec), BufferPending, Reading
  PROVE  /\ Talking(inner', wire', codec')
         /\ \A s \in Streams :
              inner.peer = "client" /\ wire[s] = "idle" /\ wire'[s] = "open" =>
                inner.numStreams < inner.maxStreams
<1> DEFINE p == PopFrame(PopPendingOpen(inner))
           bound == inner.maxStreamId
           chained == p.frame.kind = "data" /\ p.frame.sz >= ChainThreshold
           w2 == Voiced(wire, p, inner.peer)
<1>1. codec = NoFrame
  BY DEF BufferPending
<1>2. /\ Spoken(inner, wire, p, bound) /\ Result(inner, p, Low)
      /\ \E opening : /\ Opener(inner, wire, p, opening)
                      /\ opening # 0 => inner.numStreams < inner.maxStreams
  BY <1>1, PoppedLegal
<1>3. /\ wire' = w2
      /\ IF p.stream # Nothing /\ chained
        THEN /\ codec' = [stream |-> p.stream, rest |-> p.rest, eos |-> p.eos]
             /\ inner' = [p.inner EXCEPT !.inFlight = p.stream]
        ELSE /\ codec' = codec
             /\ inner' = IF p.rest > 0 THEN PushBackFrame(p.inner, p.stream, p.rest, p.eos)
                                       ELSE p.inner
  BY DEF BufferPending, Reading, Voiced
<1> HIDE DEF p, chained
<1>4. /\ Legal(p.inner, w2, Rests(p), p.eos, bound, 0) /\ p.inner.maxStreamId = bound
      /\ Sound(p.inner, Behind(p.stream, p.rest), Low, 0)
      /\ p.rest \in 0 .. MaxWindow /\ (p.stream = Nothing => p.rest = 0)
      /\ p.stream \in Streams \cup {Nothing} /\ p.eos \in BOOLEAN
      /\ p.inner.inFlight = Nothing
  BY <1>2 DEF Spoken, Result, PopResult
<1>5. wire \in [Streams -> Views]
  BY DEF Talking
<1>6. w2 \in [Streams -> Views]
  <2>1. \A s \in Streams : w2[s] \in Views
    BY <1>4, ViewsOf
  <2>2. w2 = [s \in Streams |-> w2[s]]
    BY <1>5 DEF Voiced
  <2> QED
    BY <2>1, <2>2
<1>7. Nothing \notin Streams
  BY StreamsType DEF Nothing
<1>8. /\ Lawful(inner', w2, codec'.rest, codec'.eos, bound) /\ inner'.maxStreamId = bound
  <2> HIDE DEF bound, w2
  <2>1. CASE p.stream # Nothing /\ chained
    <3>1. /\ codec'.rest = p.rest /\ codec'.eos = p.eos
          /\ inner' = [p.inner EXCEPT !.inFlight = p.stream]
      BY <1>3, <2>1
    <3>2. /\ Legal(inner', w2, Rests(p), p.eos, bound, 0) /\ inner'.maxStreamId = bound
          /\ inner'.inFlight = p.stream
      BY <1>4, <3>1, FlightLegal
    <3>3. HolderOf(inner', codec'.rest) = Rests(p)
      BY <3>1, <3>2 DEF HolderOf, Rests
    <3> QED
      BY <3>1, <3>2, <3>3 DEF Lawful
  <2>2. CASE ~(p.stream # Nothing /\ chained) /\ p.rest > 0
    <3> DEFINE s == p.stream
               f == Frame("data", p.rest, p.eos)
               j == p.inner
    <3>1. s \in Streams /\ p.rest \in Nat /\ Behind(s, p.rest)[s] = p.rest /\ Rests(p) = s
      BY <1>4, <2>2, MaxWindowAssumption DEF Behind, Rests
    <3>2. IsStored(j.streams[s]) /\ j.streams[s].place # "unlinked" /\ j.streams[s].buffered # 0
      <4> HIDE DEF j, s
      <4>1. Sound(j, Behind(s, p.rest), Low, 0)
        BY <1>4 DEF j, s
      <4>2. Behind(s, p.rest)[s] \in Nat /\ Behind(s, p.rest)[s] > 0
        BY <2>2, <3>1
      <4> QED
        BY <3>1, <4>1, <4>2, HolderStored
    <3>3. Returned(j, inner', s, f) /\ f.kind = "data" /\ f.eos = p.eos
      <4>1. inner' = PushBackFrame(j, s, p.rest, p.eos)
        BY <1>3, <2>2
      <4>2. j \in InnerRecord
        BY <1>4 DEF Legal
      <4>3. f.kind = "data" /\ f.eos = p.eos
        BY DEF Frame
      <4> QED
        BY <1>4, <3>1, <4>1, <4>2, <4>3, ReturnedFields
    <3>4. codec'.rest = 0 /\ codec'.eos = Never
      BY <1>1, <1>3, <2>2 DEF NoFrame, Never
    <3>5. Legal(j, w2, s, p.eos, bound, 0) /\ p.eos \in BOOLEAN
      BY <1>4, <3>1
    <3> HIDE DEF s, f
    <3>6. j.maxStreamId = bound
      BY <1>4
    <3> HIDE DEF j
    <3>7. Legal(inner', w2, Nothing, Never, bound, 0) /\ inner'.maxStreamId = j.maxStreamId
      BY <3>1, <3>2, <3>3, <3>5, Certainties, FrontLegal
    <3> QED
      BY <3>4, <3>6, <3>7 DEF Lawful, HolderOf
  <2>3. CASE ~(p.stream # Nothing /\ chained) /\ ~(p.rest > 0)
    <3>1. codec'.rest = 0 /\ codec'.eos = Never /\ inner' = p.inner
      BY <1>1, <1>3, <2>3 DEF NoFrame, Never
    <3>2. Rests(p) = Nothing
      BY <2>3 DEF Rests
    <3>3. Legal(p.inner, w2, Nothing, Never, bound, 0)
      BY <1>4, <3>2, Certainties, RestlessLegal
    <3> QED
      BY <1>4, <3>1, <3>3 DEF Lawful, HolderOf
  <2> QED
    BY <2>1, <2>2, <2>3
<1>9. ASSUME NEW s \in Streams, inner.peer = "client", wire[s] = "idle", wire'[s] = "open"
      PROVE  inner.numStreams < inner.maxStreams
  <2>1. PICK opening : /\ Opener(inner, wire, p, opening)
                       /\ opening # 0 => inner.numStreams < inner.maxStreams
    BY <1>2
  <2>2. p.stream = s /\ AfterFrame("idle", p.frame, inner.peer) = "open"
    BY <1>3, <1>4, <1>5, <1>9 DEF Voiced
  <2>3. ~IsServer(inner) /\ s # 0 /\ s # Nothing
    BY <1>7, <1>9, StreamsType DEF IsServer
  <2> QED
    BY <1>9, <2>1, <2>2, <2>3 DEF Opener
<1> QED
  BY <1>3, <1>6, <1>8, <1>9 DEF Talking

LEMMA ReclaimFrameTalks ==
  ASSUME IInv, Talking(inner, wire, codec), ReclaimFrame
  PROVE  Talking(inner', wire', codec')
<1> DEFINE s == codec.stream
           rest == codec.rest
           last == codec.eos
           j == [inner EXCEPT !.inFlight = Nothing]
           bound == inner.maxStreamId
           f == Frame("data", rest, last)
           extra == Flying(inner, rest)
<1>1. /\ codec \in HeldFrames /\ inner.inFlight \in {s, Drop}
      /\ codec'.rest = 0 /\ codec'.eos = Never /\ wire' = wire
  BY DEF IInv, CodecSound, ReclaimFrame, NoFrame, Never
<1>2. s \in Streams /\ rest \in 0 .. MaxWindow /\ last \in BOOLEAN
  BY <1>1 DEF HeldFrames
<1>3. inner' = IF inner.inFlight # Drop /\ rest > 0 THEN PushBackFrame(j, s, rest, last) ELSE j
  BY DEF ReclaimFrame
<1>4. Sound(inner, extra, Low, 0)
  BY DEF IInv, Whole
<1>5. wire \in [Streams -> Views] /\ Legal(inner, wire, HolderOf(inner, rest), last, bound, 0)
  BY DEF Talking, Lawful
<1> HIDE DEF extra, s, rest, last, bound
<1>6. /\ Legal(j, wire, HolderOf(inner, rest), last, bound, 0)
      /\ j.inFlight = Nothing /\ j.maxStreamId = inner.maxStreamId
  BY <1>2, <1>5, FlightLegal
<1>7. j.streams = inner.streams /\ j \in InnerRecord
  BY <1>5, <1>6, LegalTypes
<1> HIDE DEF j
<1>8. Drop \notin Streams /\ Nothing \notin Streams
  BY StreamsType DEF Drop, Nothing
<1>9. Legal(inner', wire, Nothing, Never, bound, 0) /\ inner'.maxStreamId = bound
  <2>1. CASE inner.inFlight # Drop /\ rest > 0
    <3>1. HolderOf(inner, rest) = s /\ extra[s] = rest /\ rest \in Nat
      BY <1>1, <1>2, <2>1, MaxWindowAssumption DEF HolderOf, extra, Flying
    <3>2. IsStored(j.streams[s]) /\ j.streams[s].place # "unlinked" /\ j.streams[s].buffered # 0
      BY <1>2, <1>4, <1>7, <2>1, <3>1, HolderStored
    <3>3. Returned(j, inner', s, f) /\ f.kind = "data" /\ f.eos = last
      <4>1. inner' = PushBackFrame(j, s, rest, last)
        BY <1>3, <2>1
      <4>2. f.kind = "data" /\ f.eos = last
        BY DEF Frame
      <4> QED
        BY <1>2, <1>7, <4>1, <4>2, ReturnedFields
    <3>4. Legal(j, wire, s, last, bound, 0)
      BY <1>6, <3>1
    <3> HIDE DEF f
    <3>5. Legal(inner', wire, Nothing, Never, bound, 0) /\ inner'.maxStreamId = j.maxStreamId
      BY <1>2, <3>2, <3>3, <3>4, Certainties, FrontLegal
    <3> QED
      BY <1>6, <3>5 DEF bound
  <2>2. CASE ~(inner.inFlight # Drop /\ rest > 0)
    <3>1. inner' = j
      BY <1>3, <2>2
    <3>2. Legal(j, wire, Nothing, Never, bound, 0)
      <4> DEFINE holder == HolderOf(inner, rest)
      <4>1. holder \notin Streams
        BY <1>8, <2>2 DEF HolderOf
      <4>2. Legal(j, wire, holder, last, bound, 0)
        BY <1>6
      <4> HIDE DEF holder
      <4>3. ASSUME NEW t \in Streams
            PROVE  Utters(j, wire[t], Nothing, Never, bound, 0, t) /\ Apart(j, t)
        <5>1. Utters(j, wire[t], holder, last, bound, 0, t) /\ Apart(j, t)
          BY <1>2, <4>2, LegalAt
        <5>2. ~Has(Nothing, t)
          BY <1>8 DEF Has
        <5>3. Utters(j, wire[t], Nothing, Never, bound, 0, t)
          BY <1>2, <5>1, <5>2, Certainties, UttersOn, SameRefl
        <5> QED
          BY <5>1, <5>3
      <4>4. ~IsServer(j) => InOrder(j, wire, 0) /\ Balanced(j)
        BY <4>2 DEF Legal
      <4> QED
        BY <1>7, <4>3, <4>4, Certainties, LegalFrom
    <3> QED
      BY <1>6, <3>1, <3>2 DEF bound
  <2> QED
    BY <2>1, <2>2
<1>10. Talking(inner', wire, codec')
  BY <1>1, <1>5, <1>9 DEF Talking, Lawful, HolderOf, bound
<1> QED
  BY <1>1, <1>10


----------------------------------------------------------------------------
(* Actions on one stream.                                                  *)

Speakers == inner.peer = "client" \/ ~InformationalAnytime

LEMMA TalkTypes ==
  ASSUME IInv, Talking(inner, wire, codec)
  PROVE  /\ codec.rest \in Nat /\ codec.eos \in BOOLEAN /\ inner \in InnerRecord
         /\ inner.maxStreamId \in Nat /\ wire \in [Streams -> Views]
         /\ Lawful(inner, wire, codec.rest, codec.eos, inner.maxStreamId)
         /\ \A s \in Streams : IsServer(inner) => ~Waiting(inner, s)
<1>1. codec.rest \in Nat /\ codec.eos \in BOOLEAN
  <2>1. codec = NoFrame \/ codec \in HeldFrames
    BY DEF IInv, CodecSound
  <2>2. NoFrame.eos = Never
    BY DEF NoFrame, Never
  <2>3. codec \in HeldFrames => codec.eos \in BOOLEAN
    BY DEF HeldFrames
  <2>4. codec.eos \in BOOLEAN
    BY <2>1, <2>2, <2>3, Certainties
  <2> QED
    BY <2>4, CodecRest DEF IInv
<1>2. Lawful(inner, wire, codec.rest, codec.eos, inner.maxStreamId) /\ wire \in [Streams -> Views]
  BY DEF Talking
<1>3. inner \in InnerRecord /\ inner.maxStreamId \in Nat
  BY <1>2, LegalTypes DEF Lawful
<1>4. IsServer(inner) => inner.openQ = <<>>
  BY DEF IInv, Whole, Sound, SoundBut
<1>5. \A s \in Streams : IsServer(inner) => ~Waiting(inner, s)
  BY <1>4 DEF Waiting, Contains
<1> QED
  BY <1>1, <1>2, <1>3, <1>5

LEMMA StoredFacts ==
  \A s : /\ s \in Stored(inner) <=> s \in Streams /\ IsStored(inner.streams[s])
         /\ s \in Linked(inner) => s \in Streams /\ IsStored(inner.streams[s])
BY DEF Stored, Linked, IsStored

\* Nothing but what the streams say may have changed.
Carries(j) ==
  /\ Lawful(j, wire, codec.rest, codec.eos, inner.maxStreamId)
  /\ j.maxStreamId = inner.maxStreamId

LEMMA TalksOn ==
  ASSUME Talking(inner, wire, codec), Unchanged, Carries(inner')
  PROVE  Talking(inner', wire', codec')
BY DEF Talking, Unchanged, Carries

LEMMA TalksThrough ==
  ASSUME IInv, Talking(inner, wire, codec), Unchanged, NEW s \in Streams, NEW j,
         Carries(j), IsStored(j.streams[s]), inner' = Transition(inner, j, s)
  PROVE  Talking(inner', wire', codec')
<1> DEFINE bound == inner.maxStreamId
           rest == codec.rest
           last == codec.eos
<1>1. rest \in Nat /\ last \in BOOLEAN /\ bound \in Nat
  BY TalkTypes
<1>2. Lawful(j, wire, rest, last, bound) /\ j.maxStreamId = bound
  BY DEF Carries
<1>3. inner' = TransitionAfter(j, s, IsPendingReset(inner, s)) /\ IsPendingReset(inner, s) \in BOOLEAN
  BY DEF Transition, IsPendingReset, Contains
<1> HIDE DEF rest, last, bound
<1>4. Lawful(inner', wire, rest, last, bound) /\ inner'.maxStreamId = j.maxStreamId
  BY <1>1, <1>2, <1>3, TransitionLawful
<1>5. Carries(inner')
  BY <1>2, <1>4 DEF Carries, rest, last, bound
<1> QED
  BY <1>5, TalksOn

LEMMA QuietCarries ==
  ASSUME IInv, Talking(inner, wire, codec), NEW j, Quiet(inner, j)
  PROVE  Carries(j)
<1> DEFINE bound == inner.maxStreamId
           rest == codec.rest
           last == codec.eos
<1>1. rest \in Nat /\ last \in BOOLEAN /\ bound \in Nat /\ Lawful(inner, wire, rest, last, bound)
  BY TalkTypes
<1> HIDE DEF rest, last, bound
<1>2. Lawful(j, wire, rest, last, bound)
  BY <1>1, QuietLawful
<1> QED
  BY <1>2 DEF Carries, Quiet, rest, last, bound

LEMMA HandleQuiet ==
  ASSUME NEW i \in InnerRecord, NEW s \in Streams, NEW handle \in Handle
  PROVE  LET j == [i EXCEPT !.streams[s].handle = handle]
         IN  /\ Quiet(i, j) /\ j \in InnerRecord
             /\ IsStored(i.streams[s]) => IsStored(j.streams[s])
<1> DEFINE r == i.streams[s]
           q == [r EXCEPT !.handle = handle]
           j == [i EXCEPT !.streams[s].handle = handle]
<1>1. i.streams \in [Streams -> StreamRecord] /\ r \in StreamRecord
  BY DEF InnerRecord
<1>2. j = With(i, s, q)
  BY <1>1 DEF With, InnerRecord
<1> HIDE DEF j, r
<1>3. q \in StreamRecord /\ q.place = r.place /\ Same(r, q)
  BY <1>1 DEF StreamRecord, Same
<1> HIDE DEF q
<1>4. Quiet(i, j) /\ j.streams[s] = q
  BY <1>2, <1>3, WithAround DEF r
<1>5. IsStored(r) => IsStored(j.streams[s])
  BY <1>3, <1>4 DEF IsStored
<1> QED
  BY <1>4, <1>5 DEF j, r, Quiet

LEMMA AcceptTalks ==
  ASSUME IInv, Talking(inner, wire, codec), NEW s \in Streams, Accept(s)
  PROVE  Talking(inner', wire', codec')
<1>1. inner' = [inner EXCEPT !.streams[s].handle = "held"] /\ Unchanged /\ "held" \in Handle
  BY DEF Accept, Handle
<1>2. Quiet(inner, inner')
  BY <1>1, TalkTypes, HandleQuiet
<1> QED
  BY <1>1, <1>2, QuietCarries, TalksOn

LEMMA ReserveTalks ==
  ASSUME IInv, Talking(inner, wire, codec), NEW s \in Streams, NEW capacity \in Reservations,
         Reserve(s, capacity)
  PROVE  Talking(inner', wire', codec')
<1>1. inner' = ReserveCapacity(inner, s, capacity) /\ Unchanged /\ capacity \in Int
  BY SendAssumption, MaxWindowAssumption DEF Reserve
<1>2. Quiet(inner, inner')
  BY <1>1, TalkTypes, ReserveQuiet
<1> QED
  BY <1>1, <1>2, QuietCarries, TalksOn

LEMMA SendResponseTalks ==
  ASSUME IInv, Talking(inner, wire, codec), NEW s \in Streams, NEW eos \in BOOLEAN,
         SendResponse(s, eos)
  PROVE  Talking(inner', wire', codec')
<1> DEFINE j == SendHeaders(inner, s, eos)
<1>1. /\ IsStored(inner.streams[s]) /\ IsServer(inner) /\ CanSendOpen(inner.streams[s].state)
      /\ inner' = Transition(inner, j, s) /\ Unchanged
  BY StoredFacts DEF SendResponse, Held, IsServer
<1> HIDE DEF j
<1>2. Lawful(j, wire, codec.rest, codec.eos, inner.maxStreamId) /\ IsStored(j.streams[s])
  BY <1>1, TalkTypes, HeadersLawful DEF j
<1>3. Around(inner, j, s)
  BY <1>1, TalkTypes, SendHeadersAround DEF j
<1>4. Carries(j)
  BY <1>2, <1>3 DEF Carries, Around
<1> QED
  BY <1>1, <1>2, <1>4, TalksThrough

LEMMA SendInformationalTalks ==
  ASSUME IInv, Talking(inner, wire, codec), Speakers, NEW s \in Streams, SendInformational(s)
  PROVE  Talking(inner', wire', codec')
<1> DEFINE f == Frame("informational", 0, FALSE)
           j == QueueFrame(inner, s, f)
<1>1. /\ IsStored(inner.streams[s]) /\ IsServer(inner) /\ CanSendOpen(inner.streams[s].state)
      /\ inner' = Transition(inner, j, s) /\ Unchanged
  BY StoredFacts DEF SendInformational, Held, IsServer, Speakers
<1>2. f \in Frames
  BY FrameIn, WindowType DEF Kinds
<1>3. Lawful(j, wire, codec.rest, codec.eos, inner.maxStreamId) /\ IsStored(j.streams[s])
  BY <1>1, TalkTypes, InformationalLawful
<1> HIDE DEF f
<1>4. Around(inner, j, s)
  BY <1>2, TalkTypes, QueueFrameAround
<1> HIDE DEF j
<1>5. Carries(j)
  BY <1>3, <1>4 DEF Carries, Around
<1> QED
  BY <1>1, <1>3, <1>5, TalksThrough

LEMMA SendDataFrameTalks ==
  ASSUME IInv, Talking(inner, wire, codec), NEW s \in Streams, NEW sz \in Sizes,
         NEW eos \in BOOLEAN, SendDataFrame(s, sz, eos)
  PROVE  Talking(inner', wire', codec')
<1> DEFINE j == SendChunk(inner, s, sz, eos)
<1>1. /\ IsStored(inner.streams[s]) /\ IsSendStreaming(inner.streams[s].state)
      /\ inner' = Transition(inner, j, s) /\ Unchanged /\ sz \in 0 .. MaxWindow
  BY StoredFacts, SendAssumption DEF SendDataFrame, Held
<1> HIDE DEF j
<1>2. Lawful(j, wire, codec.rest, codec.eos, inner.maxStreamId) /\ IsStored(j.streams[s])
  BY <1>1, TalkTypes, ChunkLawful DEF j
<1>3. Around(inner, j, s)
  BY <1>1, TalkTypes, SendChunkAround DEF j
<1>4. Carries(j)
  BY <1>2, <1>3 DEF Carries, Around
<1> QED
  BY <1>1, <1>2, <1>4, TalksThrough

LEMMA SendTrailersFrameTalks ==
  ASSUME IInv, Talking(inner, wire, codec), NEW s \in Streams, SendTrailersFrame(s)
  PROVE  Talking(inner', wire', codec')
<1> DEFINE j == SendTrailers(inner, s)
<1>1. /\ IsStored(inner.streams[s]) /\ IsSendStreaming(inner.streams[s].state)
      /\ inner' = Transition(inner, j, s) /\ Unchanged
  BY StoredFacts DEF SendTrailersFrame, Held
<1> HIDE DEF j
<1>2. Lawful(j, wire, codec.rest, codec.eos, inner.maxStreamId) /\ IsStored(j.streams[s])
  BY <1>1, TalkTypes, TrailersLawful DEF j
<1>3. Around(inner, j, s)
  BY <1>1, TalkTypes, SendTrailersAround DEF j
<1>4. Carries(j)
  BY <1>2, <1>3 DEF Carries, Around
<1> QED
  BY <1>1, <1>2, <1>4, TalksThrough

LEMMA ResetMaxStreamId ==
  ASSUME NEW i, NEW j, NEW s, Resets3(i, j, s)
  PROVE  j.maxStreamId = i.maxStreamId
BY DEF Resets3, Quiet, Around

LEMMA ResetTalks ==
  ASSUME IInv, Talking(inner, wire, codec), NEW s \in Streams, Unchanged,
         IsStored(inner.streams[s]), inner' = Transition(inner, ResetStream(inner, s), s)
  PROVE  Talking(inner', wire', codec')
<1> DEFINE j == ResetStream(inner, s)
<1>1. inner' = Transition(inner, j, s)
  OBVIOUS
<1> HIDE DEF j
<1>2. Lawful(j, wire, codec.rest, codec.eos, inner.maxStreamId) /\ IsStored(j.streams[s])
  BY TalkTypes, ResetStreamLawful DEF j
<1>3. Resets3(inner, j, s)
  BY TalkTypes, ResetStreamAround DEF j
<1>4. Carries(j)
  BY <1>2, <1>3, ResetMaxStreamId DEF Carries
<1> QED
  BY <1>1, <1>2, <1>4, TalksThrough

LEMMA UserResetTalks ==
  ASSUME IInv, Talking(inner, wire, codec), NEW s \in Streams, UserReset(s)
  PROVE  Talking(inner', wire', codec')
<1>1. /\ IsStored(inner.streams[s]) /\ Unchanged
      /\ inner' = Transition(inner, ResetStream(inner, s), s)
  BY StoredFacts DEF UserReset, Held
<1> QED
  BY <1>1, ResetTalks

LEMMA RecvStreamErrorTalks ==
  ASSUME IInv, Talking(inner, wire, codec), NEW s \in Streams, RecvStreamError(s)
  PROVE  Talking(inner', wire', codec')
<1>1. /\ IsStored(inner.streams[s]) /\ Unchanged
      /\ inner' = Transition(inner, ResetStream(inner, s), s)
  BY StoredFacts DEF RecvStreamError, Receives
<1> QED
  BY <1>1, ResetTalks

LEMMA DropStreamRefTalks ==
  ASSUME IInv, Talking(inner, wire, codec), NEW s \in Streams, DropStreamRef(s)
  PROVE  Talking(inner', wire', codec')
<1> DEFINE d == [inner EXCEPT !.streams[s].handle = "dropped"]
           j == MaybeCancel(d, s)
           bound == inner.maxStreamId
           rest == codec.rest
           last == codec.eos
<1>1. /\ IsStored(inner.streams[s]) /\ Unchanged /\ inner' = Transition(inner, j, s)
      /\ "dropped" \in Handle
  BY StoredFacts DEF DropStreamRef, Held, Handle
<1>2. Quiet(inner, d) /\ d \in InnerRecord /\ IsStored(d.streams[s])
  BY <1>1, TalkTypes, HandleQuiet
<1> HIDE DEF d
<1>3. rest \in Nat /\ last \in BOOLEAN /\ bound \in Nat
  BY TalkTypes
<1>4. Lawful(d, wire, rest, last, bound) /\ d.maxStreamId = bound
  BY <1>2, QuietCarries DEF Carries
<1> HIDE DEF rest, last, bound
<1>5. Lawful(j, wire, rest, last, bound) /\ IsStored(j.streams[s])
  BY <1>2, <1>3, <1>4, CancelLawful
<1>6. j.maxStreamId = d.maxStreamId
  BY <1>2, MaybeCancelAround DEF Schedules3, Quiet, Around
<1>7. Carries(j)
  BY <1>4, <1>5, <1>6 DEF Carries, rest, last, bound
<1> HIDE DEF j
<1> QED
  BY <1>1, <1>5, <1>7, TalksThrough

\* Frames of the peer that end its half of a stream or all of it.
LEMMA TurnTalks ==
  ASSUME IInv, Talking(inner, wire, codec), NEW s \in Streams, Unchanged,
         IsStored(inner.streams[s]), NEW st2, Calmer(inner.streams[s].state, st2),
         Waiting(inner, s) => Unanswered(st2) \/ IsReset(st2),
         inner' = Transition(inner, [inner EXCEPT !.streams[s].state = st2], s)
  PROVE  Talking(inner', wire', codec')
<1> DEFINE j == [inner EXCEPT !.streams[s].state = st2]
<1>1. inner' = Transition(inner, j, s)
  OBVIOUS
<1>2. Lawful(j, wire, codec.rest, codec.eos, inner.maxStreamId) /\ IsStored(j.streams[s])
  BY TalkTypes, TurnLawful
<1>3. Around(inner, j, s)
  BY TalkTypes, StateAround DEF Calmer, Firmer
<1> HIDE DEF j
<1>4. Carries(j)
  BY <1>2, <1>3 DEF Carries, Around
<1> QED
  BY <1>1, <1>2, <1>4, TalksThrough

LEMMA StateOf ==
  ASSUME IInv, Talking(inner, wire, codec), NEW s \in Streams
  PROVE  inner.streams[s].state \in States
<1>1. inner \in InnerRecord
  BY TalkTypes
<1> QED
  BY <1>1, OwnFacts

LEMMA RecvResponseTalks ==
  ASSUME IInv, Talking(inner, wire, codec), NEW s \in Streams, NEW eos \in BOOLEAN,
         RecvResponse(s, eos)
  PROVE  Talking(inner', wire', codec')
<1> DEFINE st == inner.streams[s].state
           st2 == RecvOpen(st, eos, FALSE)
<1>1. /\ IsStored(inner.streams[s]) /\ Unchanged /\ ~Waiting(inner, s)
      /\ inner' = Transition(inner, [inner EXCEPT !.streams[s].state = st2], s)
  BY StoredFacts DEF RecvResponse, Receives, IsPendingOpen, Waiting
<1>2. Calmer(st, st2)
  BY StateOf, ReceivingSpeech
<1> HIDE DEF st2
<1> QED
  BY <1>1, <1>2, TurnTalks

LEMMA RecvEndStreamTalks ==
  ASSUME IInv, Talking(inner, wire, codec), NEW s \in Streams, RecvEndStream(s)
  PROVE  Talking(inner', wire', codec')
<1> DEFINE st == inner.streams[s].state
           st2 == RecvClose(st)
<1>1. /\ IsStored(inner.streams[s]) /\ Unchanged /\ IsRecvStreaming(st)
      /\ inner' = Transition(inner, [inner EXCEPT !.streams[s].state = RecvClose(@)], s)
  BY StoredFacts DEF RecvEndStream, Receives
<1>2. [inner EXCEPT !.streams[s].state = RecvClose(@)] = [inner EXCEPT !.streams[s].state = st2]
  BY TalkTypes DEF InnerRecord
<1>3. Calmer(st, st2) /\ ~Unanswered(st) /\ ~IsReset(st)
  <2>1. TRUE \in BOOLEAN
    OBVIOUS
  <2> QED
    BY <1>1, <2>1, StateOf, ReceivingSpeech
<1>4. ~Waiting(inner, s)
  <2>1. CASE IsServer(inner)
    BY <2>1, TalkTypes
  <2>2. CASE ~IsServer(inner)
    <3>1. Speaks(inner, wire, codec.rest, codec.eos, inner.maxStreamId, s)
      BY TalkTypes, VoiceHere
    <3> QED
      BY <1>1, <1>3, <2>2, <3>1 DEF Speaks, Voice, Opens
  <2> QED
    BY <2>1, <2>2
<1> HIDE DEF st2
<1> QED
  BY <1>1, <1>2, <1>3, <1>4, TurnTalks

LEMMA RecvRstStreamTalks ==
  ASSUME IInv, Talking(inner, wire, codec), NEW s \in Streams, RecvRstStream(s)
  PROVE  Talking(inner', wire', codec')
<1> DEFINE st == inner.streams[s].state
           st2 == RecvReset(st, Contains(inner.sendQ, s))
           d == [inner EXCEPT !.streams[s].state = st2]
           j == FailSending(d, s)
<1>1. /\ IsStored(inner.streams[s]) /\ Unchanged /\ ~Waiting(inner, s)
      /\ inner' = Transition(inner, FailSending([inner EXCEPT
                     !.streams[s].state = RecvReset(@, Contains(inner.sendQ, s))], s), s)
  BY StoredFacts DEF RecvRstStream, Receives, IsPendingOpen, Waiting
<1>2. [inner EXCEPT !.streams[s].state = RecvReset(@, Contains(inner.sendQ, s))] = d
  BY TalkTypes DEF InnerRecord
<1>3. Calmer(st, st2) /\ IsClosed(st2)
  <2>1. Contains(inner.sendQ, s) \in BOOLEAN
    BY DEF Contains
  <2>2. "Io" \in Errors
    BY DEF Errors, LocalErrors
  <2> QED
    BY <2>1, <2>2, StateOf, EndingSpeech
<1> HIDE DEF st2
<1>4. Lawful(j, wire, codec.rest, codec.eos, inner.maxStreamId) /\ IsStored(j.streams[s])
  BY <1>1, <1>3, TalkTypes, FailLawful
<1>5. Around(inner, d, s)
  BY <1>3, TalkTypes, StateAround DEF Calmer, Firmer
<1> HIDE DEF d
<1>6. Around(d, j, s)
  BY <1>5, FailSendingAround DEF Around
<1>7. Carries(j) /\ inner' = Transition(inner, j, s)
  BY <1>1, <1>2, <1>4, <1>5, <1>6 DEF Carries, Around
<1> HIDE DEF j
<1> QED
  BY <1>1, <1>4, <1>7, TalksThrough

LEMMA RecvStreamWindowUpdateTalks ==
  ASSUME IInv, Talking(inner, wire, codec), NEW s \in Streams, NEW inc \in Increments,
         RecvStreamWindowUpdate(s, inc)
  PROVE  Talking(inner', wire', codec')
<1> DEFINE update == StreamWindowUpdate(inner, s, inc)
           u == update.inner
           rest == codec.rest
           last == codec.eos
           bound == inner.maxStreamId
<1>1. /\ IsStored(inner.streams[s]) /\ Unchanged
      /\ inner' = IF update.ok THEN u ELSE EnqueueResetExpiration(u, s)
  BY StoredFacts DEF RecvStreamWindowUpdate, Receives
<1>2. /\ update \in UpdateResult
      /\ update.ok => Quiet(inner, u)
      /\ ~update.ok => Resets3(inner, u, s)
  <2>1. inc \in Nat
    BY SendAssumption, MaxWindowAssumption
  <2> QED
    BY <2>1, TalkTypes, WindowUpdateAround
<1> HIDE DEF update
<1>3. u \in InnerRecord
  BY <1>2 DEF UpdateResult
<1>4. CASE update.ok
  BY <1>1, <1>2, <1>4, QuietCarries, TalksOn
<1>5. CASE ~update.ok
  <2> HIDE DEF u
  <2>1. Resets3(inner, u, s)
    BY <1>2, <1>5
  <2>2. /\ rest \in Nat /\ last \in BOOLEAN /\ bound \in Nat
        /\ Lawful(inner, wire, rest, last, bound)
    BY TalkTypes
  <2>3. inner' = EnqueueResetExpiration(u, s)
    BY <1>1, <1>5
  <2>4. Quiet(u, inner')
    BY <1>3, <2>3, EnqueueResetQuiet
  <2> HIDE DEF rest, last, bound
  <2>5. Lawful(u, wire, rest, last, bound)
    BY <1>1, <2>1, <2>2, ResetLawful
  <2>6. Lawful(inner', wire, rest, last, bound)
    BY <2>2, <2>4, <2>5, QuietLawful
  <2>7. u.maxStreamId = inner.maxStreamId /\ inner'.maxStreamId = u.maxStreamId
    BY <2>1, <2>4, ResetMaxStreamId DEF Quiet
  <2>8. Carries(inner')
    BY <2>6, <2>7 DEF Carries, rest, last, bound
  <2> QED
    BY <1>1, <2>8, TalksOn
<1> QED
  BY <1>4, <1>5


----------------------------------------------------------------------------
(* Actions on the connection and on every stream.                          *)

LEMMA RecvConnectionWindowUpdateQuiet ==
  ASSUME inner \in InnerRecord, NEW inc \in Increments,
         RecvConnectionWindowUpdate(inc)
  PROVE  Quiet(inner, inner') /\ Unchanged
<1> DEFINE flow == IncWindow(inner.flow, inc)
           j == [inner EXCEPT !.flow = IncWindow(@, inc)]
<1>1. inner' = AssignConnection(j, inc) /\ Unchanged /\ inc \in Int
  BY SendAssumption, MaxWindowAssumption DEF RecvConnectionWindowUpdate
<1>2. inner \in InnerRecord /\ inner.flow \in Flow
  BY DEF InnerRecord
<1>3. flow \in Flow /\ j = [inner EXCEPT !.flow = flow]
  BY <1>1, <1>2 DEF IncWindow, Flow
<1> HIDE DEF flow, j
<1>4. /\ j \in InnerRecord /\ j.streams = inner.streams /\ j.sendQ = inner.sendQ
      /\ j.openQ = inner.openQ /\ j.inFlight = inner.inFlight /\ j.peer = inner.peer
      /\ j.numStreams = inner.numStreams /\ j.maxStreamId = inner.maxStreamId
  BY <1>2, <1>3 DEF InnerRecord
<1>5. Quiet(inner, j)
  BY <1>4, SameStreamsQuiet
<1>6. Quiet(inner, inner')
  BY <1>1, <1>4, <1>5, AssignConnectionQuiet, QuietTrans
<1> QED
  BY <1>1, <1>6

LEMMA RecvConnectionWindowUpdateTalks ==
  ASSUME IInv, Talking(inner, wire, codec), NEW inc \in Increments,
         RecvConnectionWindowUpdate(inc)
  PROVE  Talking(inner', wire', codec')
<1>1. Quiet(inner, inner') /\ Unchanged
  BY TalkTypes, RecvConnectionWindowUpdateQuiet
<1> QED
  BY <1>1, QuietCarries, TalksOn

LEMMA ShrinkSame ==
  ASSUME NEW r \in StreamRecord, NEW dec \in Int
  PROVE  Shrink(r, dec) \in StreamRecord /\ Same(r, Shrink(r, dec))
         /\ Shrink(r, dec).flow \in Flow
<1> DEFINE fc == DecSendWindow(r.flow, dec)
           fc2 == IF fc.available > WindowSize(fc)
                    THEN ClaimCapacity(fc, fc.available - WindowSize(fc)) ELSE fc
           q == [r EXCEPT !.flow = fc2]
<1>1. r.flow \in Flow
  BY DEF StreamRecord
<1>2. fc \in Flow
  BY <1>1 DEF DecSendWindow, Flow
<1> HIDE DEF fc
<1>3. fc.available - WindowSize(fc) \in Int
  BY <1>2 DEF Flow, WindowSize, AsSize
<1>4. fc2 \in Flow
  BY <1>2, <1>3, CapacityTypes
<1>5. Shrink(r, dec) = q
  BY DEF Shrink, fc
<1> HIDE DEF fc2
<1>6. q \in StreamRecord /\ q.flow = fc2 /\ Same(r, q)
  BY <1>4 DEF StreamRecord, Same
<1> QED
  BY <1>4, <1>5, <1>6

LEMMA RecvSmallerInitialWindowQuiet ==
  ASSUME inner \in InnerRecord, NEW sz \in InitWindows,
         RecvSmallerInitialWindow(sz)
  PROVE  Quiet(inner, inner') /\ Unchanged
<1> DEFINE strs == [s \in Streams |->
                      IF s \in Linked(inner) /\ ~CannotSend(inner.streams[s])
                        THEN Shrink(inner.streams[s], inner.initWindow - sz)
                        ELSE inner.streams[s]]
           f == [s \in Streams |-> inner.streams[s].flow.available - strs[s].flow.available]
           lost == Total(f, NStreams)
           j == [inner EXCEPT !.initWindow = sz, !.streams = strs]
<1>1. inner' = AssignConnection(j, lost) /\ Unchanged /\ sz \in 0 .. MaxWindow
  BY SendAssumption DEF RecvSmallerInitialWindow
<1>2. inner \in InnerRecord /\ inner.streams \in [Streams -> StreamRecord] /\ inner.initWindow \in Int
  BY MaxWindowAssumption DEF InnerRecord
<1>3. inner.initWindow - sz \in Int
  BY <1>1, <1>2, MaxWindowAssumption
<1>4. ASSUME NEW t \in Streams
      PROVE  strs[t] \in StreamRecord /\ Same(inner.streams[t], strs[t]) /\ f[t] \in Int
  <2> DEFINE r == inner.streams[t]
  <2>1. r \in StreamRecord
    BY <1>2
  <2>2. strs[t] \in {Shrink(r, inner.initWindow - sz), r}
    OBVIOUS
  <2>3. strs[t] \in StreamRecord /\ Same(r, strs[t])
    <3> HIDE DEF strs, r
    <3> QED
      BY <1>3, <2>1, <2>2, ShrinkSame, SameRefl
  <2>4. f[t] = r.flow.available - strs[t].flow.available
    OBVIOUS
  <2> HIDE DEF strs, r, f
  <2>5. r.flow.available \in Int /\ strs[t].flow.available \in Int
    BY <2>1, <2>3 DEF StreamRecord, Flow
  <2> QED
    BY <2>3, <2>4, <2>5 DEF r
<1>5. strs \in [Streams -> StreamRecord]
  BY <1>4
<1>6. lost \in Int
  <2> HIDE DEF f, strs
  <2>1. Summable(f, NStreams)
    BY <1>4, StreamsType DEF Summable
  <2>2. PICK sum \in [0 .. NStreams -> Int] : Total(f, NStreams) = sum[NStreams]
    BY <2>1, StreamsType, TotalIsPartialSum
  <2>3. NStreams \in 0 .. NStreams
    BY StreamsType
  <2>4. sum[NStreams] \in Int
    BY <2>3
  <2> QED
    BY <2>2, <2>4
<1> HIDE DEF strs, lost
<1>7. /\ j \in InnerRecord /\ j.streams = strs /\ j.sendQ = inner.sendQ
      /\ j.openQ = inner.openQ /\ j.inFlight = inner.inFlight /\ j.peer = inner.peer
      /\ j.numStreams = inner.numStreams /\ j.maxStreamId = inner.maxStreamId
  BY <1>1, <1>2, <1>5 DEF InnerRecord
<1> HIDE DEF j
<1>8. Schedules(inner, j)
  BY <1>7 DEF Schedules
<1>9. Quiet(inner, j)
  BY <1>4, <1>7, <1>8 DEF Quiet
<1>10. Quiet(inner, inner')
  BY <1>1, <1>6, <1>7, <1>9, AssignConnectionQuiet, QuietTrans
<1> QED
  BY <1>1, <1>10

LEMMA RecvSmallerInitialWindowTalks ==
  ASSUME IInv, Talking(inner, wire, codec), NEW sz \in InitWindows,
         RecvSmallerInitialWindow(sz)
  PROVE  Talking(inner', wire', codec')
<1>1. Quiet(inner, inner') /\ Unchanged
  BY TalkTypes, RecvSmallerInitialWindowQuiet
<1> QED
  BY <1>1, QuietCarries, TalksOn

LEMMA RecvMaxConcurrentStreamsQuiet ==
  ASSUME inner \in InnerRecord, NEW limit \in Limits,
         RecvMaxConcurrentStreams(limit)
  PROVE  Quiet(inner, inner') /\ Unchanged
<1>1. inner' = [inner EXCEPT !.maxStreams = limit] /\ Unchanged /\ limit \in Nat
  BY SendAssumption DEF RecvMaxConcurrentStreams
<1>2. inner \in InnerRecord
  OBVIOUS
<1> DEFINE j == [inner EXCEPT !.maxStreams = limit]
<1>3. /\ j \in InnerRecord /\ j.streams = inner.streams /\ j.sendQ = inner.sendQ
      /\ j.openQ = inner.openQ /\ j.inFlight = inner.inFlight /\ j.peer = inner.peer
      /\ j.numStreams = inner.numStreams /\ j.maxStreamId = inner.maxStreamId
  BY <1>1, <1>2 DEF InnerRecord
<1>4. inner' = j
  BY <1>1
<1> HIDE DEF j
<1>5. Quiet(inner, inner')
  BY <1>3, <1>4, SameStreamsQuiet
<1> QED
  BY <1>1, <1>5

LEMMA RecvMaxConcurrentStreamsTalks ==
  ASSUME IInv, Talking(inner, wire, codec), NEW limit \in Limits,
         RecvMaxConcurrentStreams(limit)
  PROVE  Talking(inner', wire', codec')
<1>1. Quiet(inner, inner') /\ Unchanged
  BY TalkTypes, RecvMaxConcurrentStreamsQuiet
<1> QED
  BY <1>1, QuietCarries, TalksOn

\* The stream at the head of pending_reset_expired.
IsFirstReset(i, s) == i.resetQ # <<>> /\ s = Head(i.resetQ)

LEMMA FirstResetStored ==
  ASSUME IInv, NEW s, IsFirstReset(inner, s)
  PROVE  s \in Streams /\ IsStored(inner.streams[s])
<1>1. Whole(inner, codec.rest, Low)
  BY InvFacts
<1>2. Keys(inner) /\ inner \in InnerRecord
  BY <1>1, SoundType DEF Whole, Sound, SoundBut
<1>3. inner.resetQ \in Seq(Streams)
  BY <1>2 DEF InnerRecord
<1>4. s \in Streams /\ Contains(inner.resetQ, s)
  <2>1. SUFFICES ASSUME s = Head(inner.resetQ), inner.resetQ # <<>>
                 PROVE  s \in Streams /\ Contains(inner.resetQ, s)
    BY DEF IsFirstReset
  <2>2. Len(inner.resetQ) \in Nat \ {0} /\ inner.resetQ[1] \in Streams
    BY <1>3, <2>1
  <2> QED
    BY <1>3, <2>1, <2>2 DEF Contains
<1> QED
  BY <1>2, <1>4 DEF Keys, InQueue

LEMMA ExpireTalks ==
  ASSUME IInv, Talking(inner, wire, codec), ExpireReset
  PROVE  Talking(inner', wire', codec')
<1> DEFINE s == Head(inner.resetQ)
           j == [inner EXCEPT !.resetQ = Tail(@)]
           rest == codec.rest
           last == codec.eos
           bound == inner.maxStreamId
<1>1. inner' = TransitionAfter(j, s, TRUE) /\ Unchanged /\ inner.resetQ # <<>>
      /\ IsFirstReset(inner, s)
  BY DEF ExpireReset, Expire, IsFirstReset
<1>2. inner \in InnerRecord /\ inner.resetQ \in Seq(Streams)
  BY TalkTypes DEF InnerRecord
<1>3. /\ j \in InnerRecord /\ j.streams = inner.streams /\ j.sendQ = inner.sendQ
      /\ j.openQ = inner.openQ /\ j.inFlight = inner.inFlight /\ j.peer = inner.peer
      /\ j.numStreams = inner.numStreams /\ j.maxStreamId = inner.maxStreamId
  <2> DEFINE q == Tail(inner.resetQ)
  <2>1. q \in Seq(Streams)
    BY <1>1, <1>2
  <2> HIDE DEF q
  <2>2. j = [inner EXCEPT !.resetQ = q]
    BY DEF q
  <2> QED
    BY <1>2, <2>1, <2>2 DEF InnerRecord
<1> HIDE DEF s, j
<1>4. s \in Streams /\ IsStored(inner.streams[s])
  BY <1>1, FirstResetStored
<1>5. Quiet(inner, j)
  BY <1>3, SameStreamsQuiet
<1>6. Carries(j)
  BY <1>5, QuietCarries
<1>7. rest \in Nat /\ last \in BOOLEAN /\ bound \in Nat /\ IsStored(j.streams[s])
  BY <1>3, <1>4, TalkTypes
<1>8. Lawful(j, wire, rest, last, bound) /\ j.maxStreamId = bound
  BY <1>6 DEF Carries
<1> HIDE DEF rest, last, bound
<1>9. Lawful(inner', wire, rest, last, bound) /\ inner'.maxStreamId = j.maxStreamId
  <2> DEFINE yes == TRUE
  <2>1. yes \in BOOLEAN /\ inner' = TransitionAfter(j, s, yes)
    BY <1>1
  <2> HIDE DEF yes
  <2> QED
    BY <1>4, <1>7, <1>8, <2>1, TransitionLawful
<1>10. Carries(inner')
  BY <1>8, <1>9 DEF Carries, rest, last, bound
<1> QED
  BY <1>1, <1>10, TalksOn


----------------------------------------------------------------------------
(* Settings and GOAWAY, which touch the streams one after another.         *)

LEMMA UpdateNextLawful ==
  ASSUME NEW acc \in UpdateResult, NEW w, NEW s \in Streams, NEW inc \in Nat,
         NEW rest \in Nat, NEW last \in BOOLEAN, NEW bound \in Nat,
         Lawful(acc.inner, w, rest, last, bound)
  PROVE  LET next == UpdateNext(acc, s, inc)
         IN  /\ next \in UpdateResult /\ Lawful(next.inner, w, rest, last, bound)
             /\ next.inner.maxStreamId = acc.inner.maxStreamId
             /\ next.inner.peer = acc.inner.peer
<1> DEFINE i == acc.inner
           update == StreamWindowUpdate(i, s, inc)
           u == update.inner
<1>1. i \in InnerRecord
  BY DEF UpdateResult
<1>2. CASE acc.ok /\ s \in Linked(i)
  <2>1. UpdateNext(acc, s, inc) = update /\ IsStored(i.streams[s])
    BY <1>2 DEF UpdateNext, Linked, IsStored
  <2> HIDE DEF i
  <2>2. /\ update \in UpdateResult
        /\ update.ok => Quiet(i, u)
        /\ ~update.ok => Resets3(i, u, s)
    BY <1>1, WindowUpdateAround
  <2> HIDE DEF update
  <2>3. Lawful(i, w, rest, last, bound)
    BY DEF i
  <2>4. CASE update.ok
    <3>1. Quiet(i, u)
      BY <2>2, <2>4
    <3> HIDE DEF u
    <3>2. Lawful(u, w, rest, last, bound)
      BY <2>3, <3>1, QuietLawful
    <3>3. u.maxStreamId = i.maxStreamId /\ u.peer = i.peer
      BY <3>1 DEF Quiet
    <3> QED
      BY <2>1, <2>2, <3>2, <3>3 DEF u, i
  <2>5. CASE ~update.ok
    <3>1. Resets3(i, u, s)
      BY <2>2, <2>5
    <3> HIDE DEF u
    <3>2. Lawful(u, w, rest, last, bound)
      BY <2>1, <2>3, <3>1, ResetLawful
    <3>3. u.maxStreamId = i.maxStreamId /\ u.peer = i.peer
      BY <3>1 DEF Resets3, Quiet, Around
    <3> QED
      BY <2>1, <2>2, <3>2, <3>3 DEF u, i
  <2> QED
    BY <2>4, <2>5
<1>3. CASE ~(acc.ok /\ s \in Linked(i))
  <2>1. UpdateNext(acc, s, inc) = acc
    BY <1>3 DEF UpdateNext
  <2> QED
    BY <2>1
<1> QED
  BY <1>2, <1>3

LEMMA UpdateAllLawful ==
  ASSUME NEW i, NEW w, NEW order \in Orders, NEW inc \in Nat, NEW rest \in Nat,
         NEW last \in BOOLEAN, NEW bound \in Nat, Lawful(i, w, rest, last, bound)
  PROVE  LET updated == UpdateAll(i, order, inc)
         IN  /\ updated \in UpdateResult /\ Lawful(updated.inner, w, rest, last, bound)
             /\ updated.inner.maxStreamId = i.maxStreamId
             /\ updated.inner.peer = i.peer
<1> DEFINE S == {acc \in UpdateResult : /\ Lawful(acc.inner, w, rest, last, bound)
                                        /\ acc.inner.maxStreamId = i.maxStreamId
                                        /\ acc.inner.peer = i.peer}
           step == [k \in Nat |-> [acc \in UpdateResult |-> UpdateNext(acc, order[k], inc)]]
           x == [inner |-> i, ok |-> TRUE]
<1>1. x \in S /\ NStreams \in Nat
  <2>1. i \in InnerRecord
    BY LegalTypes DEF Lawful
  <2>2. x \in UpdateResult /\ x.inner = i
    BY <2>1 DEF UpdateResult
  <2> HIDE DEF x
  <2> QED
    BY <2>2, StreamsType
<1>2. ASSUME NEW k \in 1 .. NStreams, NEW acc \in S
      PROVE  step[k][acc] \in S
  <2> DEFINE s == order[k]
             next == UpdateNext(acc, s, inc)
  <2>1. k \in Nat /\ s \in Streams /\ step[k][acc] = next
    BY <1>1, OrdersType
  <2>2. /\ acc \in UpdateResult /\ Lawful(acc.inner, w, rest, last, bound)
        /\ acc.inner.maxStreamId = i.maxStreamId /\ acc.inner.peer = i.peer
    OBVIOUS
  <2> HIDE DEF s
  <2>3. /\ next \in UpdateResult /\ Lawful(next.inner, w, rest, last, bound)
        /\ next.inner.maxStreamId = acc.inner.maxStreamId
        /\ next.inner.peer = acc.inner.peer
    BY <2>1, <2>2, UpdateNextLawful
  <2> HIDE DEF next, step
  <2> QED
    BY <2>1, <2>2, <2>3
<1>3. UpdateAll(i, order, inc) = Loop(step, x, NStreams)
  BY DEF UpdateAll
<1> HIDE DEF step, x
<1>4. Loop(step, x, NStreams) \in S
  <2> HIDE DEF S
  <2> QED
    BY <1>1, <1>2, LoopStays
<1> QED
  BY <1>3, <1>4

LEMMA LargerWindowFrom ==
  ASSUME IInv, Talking(inner, wire, codec), NEW sz \in InitWindows, sz > inner.initWindow,
         NEW order \in Orders
  PROVE  LET updated == UpdateAll([inner EXCEPT !.initWindow = sz], order, sz - inner.initWindow)
         IN  /\ Carries(updated.inner) /\ updated.inner.peer = inner.peer
             /\ updated.inner \in InnerRecord
<1> DEFINE i == [inner EXCEPT !.initWindow = sz]
           inc == sz - inner.initWindow
           updated == UpdateAll(i, order, inc)
           rest == codec.rest
           last == codec.eos
           bound == inner.maxStreamId
<1>1. inner \in InnerRecord /\ sz \in 0 .. MaxWindow /\ inner.initWindow \in 0 .. MaxWindow
  BY TalkTypes, SendAssumption DEF InnerRecord
<1>2. inc \in Nat
  BY <1>1, MaxWindowAssumption
<1>3. /\ i \in InnerRecord /\ i.streams = inner.streams /\ i.sendQ = inner.sendQ
      /\ i.openQ = inner.openQ /\ i.inFlight = inner.inFlight /\ i.peer = inner.peer
      /\ i.numStreams = inner.numStreams /\ i.maxStreamId = inner.maxStreamId
  BY <1>1 DEF InnerRecord
<1> HIDE DEF i, inc
<1>4. Quiet(inner, i)
  BY <1>3, SameStreamsQuiet
<1>5. Carries(i)
  BY <1>4, QuietCarries
<1>6. rest \in Nat /\ last \in BOOLEAN /\ bound \in Nat
  BY TalkTypes
<1>7. Lawful(i, wire, rest, last, bound) /\ i.maxStreamId = bound
  BY <1>5 DEF Carries
<1> HIDE DEF rest, last, bound
<1>8. /\ updated \in UpdateResult /\ Lawful(updated.inner, wire, rest, last, bound)
      /\ updated.inner.maxStreamId = i.maxStreamId
      /\ updated.inner.peer = i.peer
  BY <1>2, <1>6, <1>7, UpdateAllLawful
<1> HIDE DEF updated
<1>9. Carries(updated.inner) /\ updated.inner.peer = inner.peer
      /\ updated.inner \in InnerRecord
  BY <1>3, <1>7, <1>8 DEF Carries, rest, last, bound, UpdateResult
<1> QED
  BY <1>9 DEF updated, i, inc

LEMMA RecvLargerInitialWindowTalks ==
  ASSUME IInv, Talking(inner, wire, codec), NEW sz \in InitWindows,
         RecvLargerInitialWindow(sz), Reading'
  PROVE  Talking(inner', wire', codec')
<1> DEFINE u(order) == UpdateAll([inner EXCEPT !.initWindow = sz], order, sz - inner.initWindow)
<1>1. PICK order \in Orders :
        IF u(order).ok THEN inner' = u(order).inner /\ Unchanged ELSE FailConnection(u(order).inner)
  BY DEF RecvLargerInitialWindow
<1>2. ~FailConnection(u(order).inner)
  BY DEF FailConnection, Reading
<1>3. inner' = u(order).inner /\ Unchanged
  BY <1>1, <1>2
<1>4. Carries(u(order).inner)
  BY LargerWindowFrom DEF RecvLargerInitialWindow
<1> QED
  BY <1>3, <1>4, TalksOn

\* A smaller bound only weakens what is asked of a stream.
LEMMA BoundLowered ==
  ASSUME NEW i, NEW w, NEW rest \in Nat, NEW last \in BOOLEAN, NEW bound \in Nat,
         Lawful(i, w, rest, last, bound), NEW lower \in Nat, lower <= bound
  PROVE  Lawful(i, w, rest, last, lower)
<1>1. i \in InnerRecord /\ (~IsServer(i) => InOrder(i, w, 0) /\ Balanced(i))
  <2>1. 1 \in Streams
    BY StreamsType, SendAssumption DEF Streams
  <2> QED
    BY <2>1, VoiceHere
<1>2. ASSUME NEW t \in Streams
      PROVE  Speaks(i, w, rest, last, lower, t) /\ Apart(i, t)
  <2>1. Speaks(i, w, rest, last, bound, t) /\ Apart(i, t)
    BY VoiceHere
  <2>2. Past(bound, t) => Past(lower, t)
    BY DEF Past, Streams
  <2> QED
    BY <2>1, <2>2, VoiceAs DEF Speaks
<1> QED
  BY <1>1, <1>2, LawfulFrom

LEMMA FailNextLawful ==
  ASSUME NEW i, NEW w, NEW s \in Streams, NEW rest \in Nat, NEW last \in BOOLEAN,
         NEW bound \in Nat, NEW error \in Errors, Lawful(i, w, rest, last, bound), ~IsServer(i)
  PROVE  LET j == FailNext(i, s, bound, error)
         IN  /\ Lawful(j, w, rest, last, bound) /\ ~IsServer(j)
             /\ j.maxStreamId = i.maxStreamId
<1> DEFINE st == i.streams[s].state
           st2 == HandleError(st, error)
           d == [i EXCEPT !.streams[s].state = st2]
           k == FailSending(d, s)
           j == FailNext(i, s, bound, error)
           was == IsPendingReset(i, s)
<1>1. i \in InnerRecord /\ st \in States
  BY LegalTypes, OwnFacts DEF Lawful
<1>2. CASE ~(s \in Linked(i) /\ s > bound)
  BY <1>2 DEF FailNext
<1>3. CASE s \in Linked(i) /\ s > bound
  <2>1. IsStored(i.streams[s]) /\ Past(bound, s) /\ j = FailStream(i, s, error)
    BY <1>3 DEF FailNext, Linked, IsStored, Past, Streams
  <2>2. j = TransitionAfter(k, s, was) /\ was \in BOOLEAN
    <3>1. [i EXCEPT !.streams[s].state = HandleError(@, error)] = d
      BY <1>1 DEF InnerRecord
    <3> QED
      BY <2>1, <3>1 DEF FailStream, Transition, IsPendingReset, Contains
  <2>3. Calmer(st, st2) /\ IsClosed(st2) /\ (Unanswered(st) \/ IsReset(st) => IsReset(st2))
    <3>1. TRUE \in BOOLEAN
      OBVIOUS
    <3> QED
      BY <1>1, <3>1, EndingSpeech
  <2>4. Waiting(i, s) => Unanswered(st) \/ IsReset(st)
    <3>1. Speaks(i, w, rest, last, bound, s)
      BY VoiceHere
    <3> QED
      BY <2>1, <3>1 DEF Speaks, Voice, Opens
  <2>5. Around(i, d, s)
    BY <1>1, <2>3, StateAround DEF Calmer, Firmer
  <2> HIDE DEF st2, j, was
  <2>6. Lawful(k, w, rest, last, bound) /\ IsStored(k.streams[s])
    BY <2>1, <2>3, <2>4, FailLawful
  <2> HIDE DEF d
  <2>7. Around(d, k, s)
    BY <2>5, FailSendingAround DEF Around
  <2> HIDE DEF k
  <2>8. Lawful(j, w, rest, last, bound) /\ j.maxStreamId = k.maxStreamId
    BY <2>2, <2>6, TransitionLawful
  <2>9. j.peer = k.peer
    <3> DEFINE holder == HolderOf(k, rest)
    <3>1. Legal(k, w, holder, last, bound, 0)
      BY <2>6 DEF Lawful
    <3> HIDE DEF holder
    <3> QED
      BY <2>2, <2>6, <3>1, TransitionLegal
  <2> QED
    BY <2>5, <2>7, <2>8, <2>9 DEF Around, IsServer, j
<1> QED
  BY <1>2, <1>3

LEMMA FailAfterLawful ==
  ASSUME NEW i, NEW w, NEW order \in Orders, NEW rest \in Nat, NEW last \in BOOLEAN,
         NEW bound \in Nat, NEW error \in Errors, Lawful(i, w, rest, last, bound), ~IsServer(i)
  PROVE  LET j == FailAfter(i, order, bound, error)
         IN  Lawful(j, w, rest, last, bound) /\ ~IsServer(j)
<1> DEFINE S == {j \in InnerRecord : Lawful(j, w, rest, last, bound) /\ ~IsServer(j)}
           step == [k \in Nat |-> [j \in InnerRecord |-> FailNext(j, order[k], bound, error)]]
<1>1. i \in S /\ NStreams \in Nat
  BY LegalTypes, StreamsType DEF Lawful
<1>2. ASSUME NEW k \in 1 .. NStreams, NEW j \in S
      PROVE  step[k][j] \in S
  <2> DEFINE s == order[k]
             next == FailNext(j, s, bound, error)
  <2>1. k \in Nat /\ s \in Streams /\ step[k][j] = next
    BY <1>1, OrdersType
  <2> HIDE DEF s
  <2>2. Lawful(next, w, rest, last, bound) /\ ~IsServer(next)
    BY <2>1, FailNextLawful
  <2> HIDE DEF next, step
  <2>3. next \in InnerRecord
    BY <2>2, LegalTypes DEF Lawful
  <2> QED
    BY <2>1, <2>2, <2>3
<1>3. FailAfter(i, order, bound, error) = Loop(step, i, NStreams)
  BY DEF FailAfter
<1> HIDE DEF step
<1>4. Loop(step, i, NStreams) \in S
  <2> HIDE DEF S
  <2> QED
    BY <1>1, <1>2, LoopStays
<1> QED
  BY <1>3, <1>4

LEMMA RecvGoAwayTalks ==
  ASSUME IInv, Talking(inner, wire, codec), NEW goodbye \in LastStreams, RecvGoAway(goodbye)
  PROVE  Talking(inner', wire', codec')
<1> DEFINE f(order) == IF inner.peer = "client"
                         THEN FailAfter(inner, order, goodbye, "RemoteGoAway") ELSE inner
           rest == codec.rest
           last == codec.eos
<1>1. PICK order \in Orders : inner' = [f(order) EXCEPT !.maxStreamId = goodbye]
  BY DEF RecvGoAway
<1> DEFINE k == f(order)
<1>2. goodbye \in Nat /\ goodbye <= inner.maxStreamId /\ codec' = codec /\ wire' = wire
  BY SendAssumption DEF RecvGoAway
<1>3. rest \in Nat /\ last \in BOOLEAN /\ inner.maxStreamId \in Nat
      /\ Lawful(inner, wire, rest, last, inner.maxStreamId)
  BY TalkTypes
<1> HIDE DEF rest, last
<1>4. Lawful(inner, wire, rest, last, goodbye)
  BY <1>2, <1>3, BoundLowered
<1>5. Lawful(k, wire, rest, last, goodbye)
  <2>1. CASE inner.peer = "client"
    <3>1. ~IsServer(inner) /\ "RemoteGoAway" \in Errors
      BY <2>1 DEF IsServer, Errors, RemoteErrors
    <3>2. k = FailAfter(inner, order, goodbye, "RemoteGoAway")
      BY <2>1
    <3> HIDE DEF k
    <3> QED
      BY <1>2, <1>3, <1>4, <3>1, <3>2, FailAfterLawful
  <2>2. CASE inner.peer # "client"
    BY <1>4, <2>2
  <2> QED
    BY <2>1, <2>2
<1>6. inner' = [k EXCEPT !.maxStreamId = goodbye]
  BY <1>1
<1> HIDE DEF k, f
<1> DEFINE j == [k EXCEPT !.maxStreamId = goodbye]
<1>7. k \in InnerRecord
  BY <1>5, LegalTypes DEF Lawful
<1>8. /\ j \in InnerRecord /\ j.streams = k.streams /\ j.sendQ = k.sendQ
      /\ j.openQ = k.openQ /\ j.inFlight = k.inFlight /\ j.peer = k.peer
      /\ j.numStreams = k.numStreams /\ j.maxStreamId = goodbye
  BY <1>2, <1>7 DEF InnerRecord
<1> HIDE DEF j
<1>9. Lawful(j, wire, rest, last, goodbye)
  <2>1. HolderOf(j, rest) = HolderOf(k, rest)
    BY <1>8 DEF HolderOf
  <2>2. Legal(j, wire, HolderOf(k, rest), last, goodbye, 0)
    <3>1. \A t \in Streams : VoiceAt(k, t, wire[t], HolderOf(k, rest), last, goodbye, 0)
      BY <1>5 DEF Lawful, Legal
    <3>2. \A t \in Streams : VoiceAt(j, t, wire[t], HolderOf(k, rest), last, goodbye, 0)
      BY <1>8, <3>1 DEF VoiceAt, IsServer
    <3>3. ~IsServer(k) => InOrder(k, wire, 0) /\ Balanced(k)
      BY <1>5 DEF Lawful, Legal
    <3>4. ~IsServer(j) => InOrder(j, wire, 0) /\ Balanced(j)
      BY <1>8, <3>3 DEF IsServer, InOrder, Balanced
    <3> QED
      BY <1>8, <3>2, <3>4 DEF Legal
  <2> QED
    BY <2>1, <2>2 DEF Lawful
<1> QED
  BY <1>2, <1>6, <1>8, <1>9 DEF Talking, j, rest, last


----------------------------------------------------------------------------
(* New streams.                                                            *)

\* j has stream s where i has none of that identifier.
Creates(i, j, s) ==
  /\ j \in InnerRecord
  /\ j.peer = i.peer /\ j.sendQ = i.sendQ /\ j.inFlight = i.inFlight
  /\ j.maxStreamId = i.maxStreamId
  /\ \A t \in Streams : t # s => j.streams[t] = i.streams[t]
  /\ i.streams[s].place = "new" /\ j.streams[s].place = "linked"

\* Nothing points at a stream that is not created yet.
LEMMA NewAlone ==
  ASSUME IInv, Talking(inner, wire, codec), NEW s \in Streams, inner.streams[s].place = "new"
  PROVE  /\ ~Contains(inner.sendQ, s) /\ ~Contains(inner.openQ, s)
         /\ ~Holds(inner, codec.rest, s)
         /\ wire[s] = "idle" /\ ~inner.streams[s].counted
<1>1. ~IsStored(inner.streams[s])
  BY DEF IsStored
<1>2. Whole(inner, codec.rest, Low) /\ codec.rest \in Nat
  BY InvFacts
<1>3. Sound(inner, Flying(inner, codec.rest), Low, 0)
  BY <1>2 DEF Whole
<1>4. ~Contains(inner.sendQ, s) /\ ~Contains(inner.openQ, s)
  BY <1>1, <1>3, StoredInQueue DEF InQueue
<1>5. Silent(inner.streams[s], wire[s])
  <2>1. Speaks(inner, wire, codec.rest, codec.eos, inner.maxStreamId, s)
    BY TalkTypes, VoiceHere
  <2> QED
    BY <1>1, <2>1 DEF Speaks, Voice
<1>6. ~Holds(inner, codec.rest, s)
  <2>1. SUFFICES ASSUME Holds(inner, codec.rest, s) PROVE FALSE
    OBVIOUS
  <2>2. codec.rest > 0 /\ inner.inFlight = s
    BY <2>1, StreamsType DEF Holds, HolderOf, Streams, Nothing
  <2> DEFINE extra == Flying(inner, codec.rest)
  <2>3. extra[s] = codec.rest
    BY <2>2 DEF Flying, Behind
  <2> HIDE DEF extra
  <2>4. Sound(inner, extra, Low, 0)
    BY <1>3 DEF extra
  <2> QED
    BY <1>1, <1>2, <2>2, <2>3, <2>4, HolderStored
<1> QED
  BY <1>4, <1>5, <1>6 DEF Silent

LEMMA CreatedLawful ==
  ASSUME IInv, Talking(inner, wire, codec), NEW s \in Streams, NEW j, Creates(inner, j, s),
         \A t \in Streams : t # s => (Contains(j.openQ, t) <=> Contains(inner.openQ, t)),
         NEW waits \in BOOLEAN, Waiting(j, s) <=> waits,
         NEW due, due => Due(j, s),
         Voice(j.streams[s], "idle", Never, codec.eos, waits, waits, due,
               IsServer(inner), Past(inner.maxStreamId, s)),
         ~IsServer(j) => InOrder(j, wire, 0) /\ Balanced(j)
  PROVE  Carries(j)
<1> DEFINE bound == inner.maxStreamId
           rest == codec.rest
           last == codec.eos
           i == inner
<1>1. rest \in Nat /\ last \in BOOLEAN /\ bound \in Nat /\ Lawful(i, wire, rest, last, bound)
  BY TalkTypes
<1>2. /\ ~Contains(i.sendQ, s) /\ ~Contains(i.openQ, s) /\ ~Holds(i, rest, s)
      /\ wire[s] = "idle"
  BY NewAlone DEF Creates
<1>3. Voice(j.streams[s], "idle", Never, last, waits, waits, due, IsServer(i), Past(bound, s))
  OBVIOUS
<1>4. HolderOf(j, rest) = HolderOf(i, rest) /\ IsServer(j) = IsServer(i) /\ j \in InnerRecord
      /\ j.maxStreamId = bound
  BY DEF HolderOf, Creates, IsServer
<1> HIDE DEF rest, last, bound, i
<1>5. ASSUME NEW t \in Streams
      PROVE  Speaks(j, wire, rest, last, bound, t) /\ Apart(j, t)
  <2>1. CASE t # s
    <3>1. Speaks(i, wire, rest, last, bound, t) /\ Apart(i, t)
      BY <1>1, VoiceHere
    <3>2. /\ j.streams[t] = i.streams[t] /\ (Waiting(j, t) <=> Waiting(i, t))
          /\ (Due(j, t) <=> Due(i, t)) /\ (Holds(j, rest, t) <=> Holds(i, rest, t))
          /\ (Apart(j, t) <=> Apart(i, t))
      BY <1>4, <2>1 DEF Creates, i, Waiting, Due, Holds, Apart
    <3> QED
      BY <1>4, <3>1, <3>2, VoiceAs DEF Speaks
  <2>2. CASE t = s
    <3>1. ~Holds(j, rest, s) /\ ~Contains(j.sendQ, s)
      BY <1>2, <1>4 DEF Holds, Creates, i
    <3>2. Voice(j.streams[s], wire[s], Holds(j, rest, s), last, Waiting(j, s), Waiting(j, s),
                Due(j, s), IsServer(j), Past(bound, s))
      BY <1>2, <1>3, <1>4, <3>1, VoiceAs
    <3> QED
      BY <2>2, <3>1, <3>2 DEF Speaks, Apart
  <2> QED
    BY <2>1, <2>2
<1>6. Lawful(j, wire, rest, last, bound)
  BY <1>1, <1>4, <1>5, LawfulFrom
<1> QED
  BY <1>4, <1>6 DEF Carries, rest, last, bound, i

\* What the record of a request is, and where it waits.
LEMMA RequestFields ==
  ASSUME IInv, NEW s \in Streams, NEW eos \in BOOLEAN, SendRequest(s, eos)
  PROVE  LET q == inner'.streams[s]
             frame == Frame("headers", 0, eos)
         IN  /\ Creates(inner, inner', s) /\ inner'.openQ = Push(inner.openQ, s)
             /\ inner'.numStreams = inner.numStreams
             /\ q.place = "linked" /\ q.state = SendOpen(Idle, eos) /\ ~q.counted
             /\ q.queue = Append(<<>>, frame) /\ frame \in Frames
<1> DEFINE w == inner.initWindow
           new == NewStream("linked", "held", w)
           st == SendOpen(Idle, eos)
           frame == Frame("headers", 0, eos)
           fresh == WithState(new, st)
           q == Queued(fresh, frame)
           o == Push(inner.openQ, s)
           i == [inner EXCEPT !.streams[s] = new]
           strs == [inner.streams EXCEPT ![s] = q]
           j == [inner EXCEPT !.streams = strs, !.openQ = o]
<1>1. /\ inner.peer = "client" /\ inner.streams[s].place = "new" /\ Unchanged
      /\ inner' = SendHeaders(i, s, eos)
  BY DEF SendRequest, IsNext
<1>2. /\ Sound(inner, Flying(inner, codec.rest), Low, 0) /\ inner \in InnerRecord
      /\ inner.streams \in [Streams -> StreamRecord] /\ inner.openQ \in Seq(Streams)
      /\ w \in 0 .. MaxWindow /\ Low \in [Streams -> -MaxWindow .. 0]
  BY InvFacts, LowType, SoundType DEF Whole, InnerRecord
<1>3. /\ Idle \in States /\ st \in States /\ "held" \in Handle
      /\ frame \in Frames /\ Low[s] \in -MaxWindow .. 0
  <2>1. Idle \in States
    BY DEF States
  <2> HIDE DEF st
  <2>2. st \in States
    BY <2>1, SendOpenState DEF Ensues, st
  <2> QED
    BY <1>2, <2>1, <2>2, MaxWindowAssumption DEF Handle, Frames, Frame, Kinds
<1>4. /\ o \in Seq(Streams) /\ Contains(o, s)
  BY <1>2, PushQueue
<1> HIDE DEF st, frame
<1>5. /\ fresh \in StreamRecord /\ fresh.place = "linked" /\ fresh.counted = FALSE
      /\ fresh.state = st
      /\ new \in StreamRecord /\ new.state = Idle
  <2> HIDE DEF w
  <2>1. w \in 0 .. MaxWindow
    BY <1>2
  <2> QED
    BY <1>3, <2>1, FreshSound, ZenonT(60)
<1>6. fresh.queue = <<>>
  <2>1. new.queue = <<>>
    BY DEF NewStream
  <2> HIDE DEF new
  <2> QED
    BY <1>5, <2>1 DEF WithState, StreamRecord
<1>7. fresh = WithState(new, st)
  OBVIOUS
<1> HIDE DEF fresh, new
<1>8. /\ q \in StreamRecord /\ q.place = "linked" /\ q.counted = FALSE
      /\ q.state = st /\ q.queue = Append(<<>>, frame)
  <2>1. q \in StreamRecord
    BY <1>3, <1>5, RecordTypes
  <2> QED
    BY <1>5, <1>6, <2>1 DEF Queued, StreamRecord
<1> HIDE DEF w, o
<1>9. inner' = j
  <2> DEFINE opened == [i EXCEPT !.streams[s].state = SendOpen(@, eos)]
             queued == [opened EXCEPT !.openQ = Push(@, s)]
             full == Buffer(queued, s, frame)
  <2>1. /\ i.streams = [inner.streams EXCEPT ![s] = new] /\ i.peer = "client"
        /\ i.streams[s] = new
    BY <1>1, <1>2 DEF InnerRecord
  <2>2. inner' = ScheduleSend(full, s)
    BY <1>1, <2>1 DEF SendHeaders, QueueFrame, frame
  <2>3. opened = [inner EXCEPT !.streams = [inner.streams EXCEPT ![s] = fresh]]
    BY <1>2, <1>5, <1>7, <2>1 DEF InnerRecord, WithState, st
  <2> HIDE DEF opened
  <2>4. queued = [inner EXCEPT !.streams = [inner.streams EXCEPT ![s] = fresh], !.openQ = o]
    BY <1>2, <2>3 DEF InnerRecord, o
  <2> HIDE DEF queued
  <2>5. /\ queued.streams = [inner.streams EXCEPT ![s] = fresh] /\ queued.streams[s] = fresh
    BY <1>2, <2>4 DEF InnerRecord
  <2>6. full = [queued EXCEPT !.streams = [queued.streams EXCEPT ![s] = q]]
    BY <2>5 DEF Buffer, Queued
  <2>7. [queued.streams EXCEPT ![s] = q] = strs
    BY <1>2, <2>5
  <2> HIDE DEF full, strs, q
  <2>8. full = [inner EXCEPT !.streams = strs, !.openQ = o]
    BY <1>2, <2>4, <2>6, <2>7 DEF InnerRecord
  <2>9. full.openQ = o
    BY <1>2, <2>8 DEF InnerRecord
  <2>10. ScheduleSend(full, s) = full
    BY <1>4, <2>9 DEF ScheduleSend, IsPendingOpen
  <2> QED
    BY <2>2, <2>8, <2>10
<1>10. strs \in [Streams -> StreamRecord] /\ strs[s] = q
       /\ \A t \in Streams : t # s => strs[t] = inner.streams[t]
  BY <1>2, <1>8
<1> HIDE DEF q, strs
<1>11. /\ j \in InnerRecord /\ j.streams = strs /\ j.openQ = o
       /\ j.peer = inner.peer /\ j.sendQ = inner.sendQ
       /\ j.numStreams = inner.numStreams /\ j.inFlight = inner.inFlight
       /\ j.maxStreamId = inner.maxStreamId
  BY <1>2, <1>4, <1>10 DEF InnerRecord
<1> HIDE DEF j
<1>12. Creates(inner, inner', s) /\ inner'.streams[s] = q
  BY <1>1, <1>8, <1>9, <1>10, <1>11 DEF Creates
<1> QED
  BY <1>3, <1>8, <1>9, <1>11, <1>12 DEF o, frame, st


\* The stream a request creates is the last one that waits to be opened.
LEMMA RequestOrder ==
  ASSUME NEW i, NEW j, NEW w, NEW s \in Streams, InOrder(i, w, 0), i.openQ \in Seq(Streams),
         \A t \in Streams : i.streams[t].place = "new" => w[t] = "idle" /\ ~Contains(i.openQ, t),
         \A t \in 1 .. s - 1 : i.streams[t].place # "new",
         Creates(i, j, s), j.openQ = Push(i.openQ, s)
  PROVE  InOrder(j, w, 0)
<1> DEFINE o == i.openQ
           p == Append(o, s)
<1>1. i.streams[s].place = "new" /\ ~Contains(o, s)
  BY DEF Creates
<1>2. j.openQ = p /\ p \in Seq(Streams) /\ Len(p) = Len(o) + 1 /\ Len(o) \in Nat /\ p[Len(p)] = s
      /\ \A k \in 1 .. Len(o) : p[k] = o[k] /\ o[k] \in Streams
  BY <1>1 DEF Push
<1> HIDE DEF p
<1>3. \A t \in Streams : t >= s => i.streams[t].place = "new"
  BY <1>1 DEF InOrder, Streams
<1>4. \A t \in Streams : (w[t] # "idle" => t < s) /\ (Contains(o, t) => t < s)
  <2>1. ASSUME NEW t \in Streams
        PROVE  (w[t] # "idle" => t < s) /\ (Contains(o, t) => t < s)
    <3>1. t < s \/ t >= s
      BY DEF Streams
    <3>2. CASE t >= s
      <4>1. i.streams[t].place = "new"
        BY <1>3, <3>2
      <4> QED
        BY <4>1
    <3> QED
      BY <3>1, <3>2
  <2> QED
    BY <2>1
<1>5. \A t \in Streams : Contains(j.openQ, t) => Contains(o, t) \/ t = s
  <2>1. j.openQ = Push(o, s) /\ o \in Seq(Streams)
    OBVIOUS
  <2> HIDE DEF o
  <2> QED
    BY <2>1, PushQueue
<1>6. \A x, t \in Streams : Contains(j.openQ, x) \/ 0 = x => (w[t] # "idle" => t < x)
  <2>1. \A x, t \in Streams : Contains(o, x) => (w[t] # "idle" => t < x)
    BY DEF InOrder
  <2> QED
    BY <1>4, <1>5, <2>1 DEF Streams
<1>7. \A k, l \in 1 .. Len(j.openQ) : k < l => j.openQ[k] < j.openQ[l]
  <2>1. ASSUME NEW k \in 1 .. Len(p), NEW l \in 1 .. Len(p), k < l
        PROVE  p[k] < p[l]
    <3>1. k \in 1 .. Len(o) /\ p[k] = o[k] /\ o[k] \in Streams /\ Contains(o, o[k])
      BY <1>2, <2>1 DEF Contains
    <3>2. CASE l = Len(p)
      BY <1>2, <1>4, <3>1, <3>2
    <3>3. CASE l # Len(p)
      <4>1. l \in 1 .. Len(o) /\ p[l] = o[l]
        BY <1>2, <3>3
      <4> QED
        BY <2>1, <3>1, <4>1 DEF InOrder
    <3> QED
      BY <3>2, <3>3
  <2> QED
    BY <1>2, <2>1
<1>8. \A x, t \in Streams : x < t /\ j.streams[x].place = "new" => j.streams[t].place = "new"
  <2>1. ASSUME NEW x \in Streams, NEW t \in Streams, x < t, j.streams[x].place = "new"
        PROVE  j.streams[t].place = "new"
    <3>1. x # s /\ i.streams[x].place = "new"
      BY <2>1 DEF Creates
    <3>2. ~(x < s)
      <4>1. x < s => x \in 1 .. s - 1
        BY DEF Streams
      <4> QED
        BY <3>1, <4>1
    <3>3. t # s
      BY <2>1, <3>2
    <3>4. i.streams[t].place = "new"
      BY <2>1, <3>1 DEF InOrder
    <3> QED
      BY <3>3, <3>4 DEF Creates
  <2> QED
    BY <2>1
<1>9. \A x, t \in Streams : 0 = x /\ Contains(j.openQ, t) => x < t
  BY DEF Streams
<1> QED
  BY <1>6, <1>7, <1>8, <1>9 DEF InOrder

LEMMA SendRequestTalks ==
  ASSUME IInv, Talking(inner, wire, codec), NEW s \in Streams, NEW eos \in BOOLEAN,
         SendRequest(s, eos)
  PROVE  Talking(inner', wire', codec')
<1> DEFINE frame == Frame("headers", 0, eos)
           q == inner'.streams[s]
           bound == inner.maxStreamId
           refused == Past(bound, s)
           due == Due(inner', s)
           server == IsServer(inner)
           last == codec.eos
<1>1. /\ Creates(inner, inner', s) /\ inner'.openQ = Push(inner.openQ, s)
      /\ inner'.numStreams = inner.numStreams
      /\ q.place = "linked" /\ q.state = SendOpen(Idle, eos) /\ ~q.counted
      /\ q.queue = Append(<<>>, frame) /\ frame \in Frames
  BY RequestFields
<1>2. /\ inner.openQ \in Seq(Streams) /\ InOrder(inner, wire, 0) /\ Balanced(inner)
      /\ ~IsServer(inner) /\ Unchanged
      /\ \A t \in 1 .. s - 1 : inner.streams[t].place # "new"
  <2>1. ~IsServer(inner) /\ Unchanged /\ \A t \in 1 .. s - 1 : inner.streams[t].place # "new"
    BY DEF SendRequest, IsServer, IsNext
  <2>2. inner \in InnerRecord
    BY TalkTypes
  <2>3. InOrder(inner, wire, 0) /\ Balanced(inner)
    BY <2>1, TalkTypes, VoiceHere
  <2> QED
    BY <2>1, <2>2, <2>3 DEF InnerRecord
<1>3. \A t \in Streams : inner.streams[t].place = "new" =>
                           wire[t] = "idle" /\ ~Contains(inner.openQ, t)
  BY NewAlone
<1>4. InOrder(inner', wire, 0)
  BY <1>1, <1>2, <1>3, RequestOrder
<1>5. Balanced(inner')
  <2>1. \A t \in Streams : inner'.streams[t].counted = inner.streams[t].counted
    <3>1. ~inner.streams[s].counted /\ inner.streams[s].counted \in BOOLEAN
          /\ inner'.streams[s].counted \in BOOLEAN
      <4>1. inner \in InnerRecord /\ inner' \in InnerRecord
        BY <1>1, TalkTypes DEF Creates
      <4> QED
        BY <1>1, <4>1, NewAlone, OwnFacts DEF Creates
    <3> QED
      BY <1>1, <3>1 DEF Creates
  <2> QED
    BY <1>1, <1>2, <2>1, BalanceKept
<1>6. Voice(q, "idle", Never, last, Always, Always, due, server, refused)
  <2> HIDE DEF q, frame, due, server, refused, last
  <2> QED
    BY <1>1, VoiceRequest DEF frame
<1>7. /\ \A t \in Streams : t # s => (Contains(inner'.openQ, t) <=> Contains(inner.openQ, t))
      /\ Waiting(inner', s)
  BY SMTT(60), <1>1, <1>2, PushQueue DEF Waiting
<1>8. /\ Voice(inner'.streams[s], "idle", Never, codec.eos, Always, Always, due,
               IsServer(inner), Past(inner.maxStreamId, s))
      /\ (due => Due(inner', s)) /\ Always \in BOOLEAN /\ (Waiting(inner', s) <=> Always)
  BY <1>6, <1>7, Certainties
<1> HIDE DEF due
<1>9. Carries(inner')
  BY <1>1, <1>4, <1>5, <1>7, <1>8, CreatedLawful
<1> QED
  BY <1>2, <1>9, TalksOn

\* A stream that a request of the peer has opened.
OpenedBy(handle, eos, s) ==
  [inner EXCEPT !.streams[s] = Requested(handle, inner.initWindow, RecvOpen(Idle, eos, FALSE)),
                !.numStreams = @ + 1]

LEMMA OpenedTalks ==
  ASSUME IInv, Talking(inner, wire, codec), NEW s \in Streams, NEW eos \in BOOLEAN,
         NEW handle \in Handle, IsServer(inner), inner.streams[s].place = "new"
  PROVE  LET j == OpenedBy(handle, eos, s)
         IN  /\ Carries(j) /\ IsServer(j) /\ j \in InnerRecord
             /\ IsStored(j.streams[s]) /\ CanSendOpen(j.streams[s].state)
<1> DEFINE st == RecvOpen(Idle, eos, FALSE)
           w == inner.initWindow
           q == Requested(handle, w, st)
           n == inner.numStreams + 1
           j == OpenedBy(handle, eos, s)
           refused == Past(inner.maxStreamId, s)
           last == codec.eos
<1>1. /\ inner \in InnerRecord /\ inner.streams \in [Streams -> StreamRecord]
      /\ inner.numStreams \in Int /\ w \in 0 .. MaxWindow /\ Low[s] \in -MaxWindow .. 0
  BY InvFacts, LowType, SoundType DEF Whole, InnerRecord
<1>2. /\ IsServer(j) /\ IsStored(j.streams[s]) /\ CanSendOpen(j.streams[s].state)
      /\ j \in InnerRecord
  <2>1. Whole(j, codec.rest, Low) /\ IsServer(j) /\ IsStored(j.streams[s])
        /\ CanSendOpen(j.streams[s].state)
    BY RequestOpens DEF OpenedBy
  <2> HIDE DEF j
  <2> QED
    BY <2>1, SoundType DEF Whole
<1>3. st \in States
  BY HeadersFromRequest
<1> HIDE DEF w
<1>4. q \in StreamRecord /\ q.place = "linked" /\ q.state = st
  <2> HIDE DEF st
  <2> QED
    BY <1>1, <1>3, RequestedSound, ZenonT(60)
<1>5. q.queue = <<>>
  <2> DEFINE new == NewStream("linked", handle, w)
  <2>1. new.queue = <<>> /\ q = [new EXCEPT !.state = st, !.counted = TRUE]
    BY DEF NewStream, Requested
  <2>2. new \in StreamRecord
    <3> HIDE DEF st
    <3> QED
      BY <1>1, <1>3, FreshSound, ZenonT(60)
  <2> HIDE DEF new, q, st
  <2> QED
    BY <2>1, <2>2 DEF StreamRecord
<1>6. j = [inner EXCEPT !.streams[s] = q, !.numStreams = n]
  BY <1>1 DEF OpenedBy, InnerRecord, w
<1> HIDE DEF q, j, n
<1>7. /\ j.streams = [inner.streams EXCEPT ![s] = q] /\ j.openQ = inner.openQ
      /\ j.peer = inner.peer /\ j.sendQ = inner.sendQ /\ j.inFlight = inner.inFlight
      /\ j.maxStreamId = inner.maxStreamId
  BY <1>1, <1>6 DEF InnerRecord
<1>8. j.streams[s] = q /\ Creates(inner, j, s)
  BY <1>1, <1>2, <1>4, <1>7 DEF Creates
<1>9. Voice(q, "idle", Never, last, Never, Never, Never, Always, refused)
  <2> HIDE DEF refused, last
  <2>1. q.state = RecvOpen(Idle, eos, FALSE)
    BY <1>4
  <2> QED
    BY <1>4, <1>5, <2>1, Certainties, VoiceReceived
<1>10. ~Waiting(j, s)
  BY <1>7, <1>8, NewAlone DEF Waiting
<1>11. Voice(j.streams[s], "idle", Never, codec.eos, Never, Never, Never,
             IsServer(inner), Past(inner.maxStreamId, s))
  <2>1. IsServer(inner) = Always
    BY Certainties DEF IsServer
  <2> QED
    BY <1>8, <1>9, <2>1
<1>12. Carries(j)
  <2>1. /\ Never \in BOOLEAN /\ (Waiting(j, s) <=> Never) /\ (Never => Due(j, s))
        /\ \A t \in Streams : t # s => (Contains(j.openQ, t) <=> Contains(inner.openQ, t))
    BY <1>7, <1>10, Certainties
  <2> QED
    BY <1>2, <1>8, <1>11, <2>1, CreatedLawful
<1> QED
  BY <1>2, <1>12 DEF j

LEMMA RecvRequestTalks ==
  ASSUME IInv, Talking(inner, wire, codec), NEW s \in Streams, NEW eos \in BOOLEAN,
         NEW handle \in {"waiting", "dropped"}, RecvRequest(s, eos, handle)
  PROVE  Talking(inner', wire', codec')
<1> DEFINE opened == OpenedBy(handle, eos, s)
           reset == ResetStream(opened, s)
           yes == TRUE
           headed == SendHeaders(opened, s, yes)
           scheduled == ScheduleImplicitReset(headed, s, "PROTOCOL_ERROR")
           refused == EnqueueResetExpiration(scheduled, s)
           was == IsPendingReset(opened, s)
           rest == codec.rest
           last == codec.eos
           bound == inner.maxStreamId
<1>1. NewStream("linked", handle, inner.initWindow).state = Idle
  BY DEF NewStream
<1>2. /\ inner.peer = "server" /\ inner.streams[s].place = "new" /\ Unchanged
      /\ \/ inner' = opened
         \/ inner' = Transition(opened, reset, s)
         \/ inner' = Transition(opened, refused, s)
  BY <1>1 DEF RecvRequest, IsNext, Requested, OpenedBy
<1>3. /\ handle \in Handle /\ IsServer(inner) /\ yes \in BOOLEAN
      /\ "PROTOCOL_ERROR" \in Reasons /\ was \in BOOLEAN
  BY <1>2 DEF Handle, IsServer, Reasons, IsPendingReset, Contains
<1>4. /\ Carries(opened) /\ IsServer(opened) /\ opened \in InnerRecord
      /\ IsStored(opened.streams[s]) /\ CanSendOpen(opened.streams[s].state)
  BY <1>2, <1>3, OpenedTalks
<1>5. rest \in Nat /\ last \in BOOLEAN /\ bound \in Nat
  BY TalkTypes
<1>6. Lawful(opened, wire, rest, last, bound) /\ opened.maxStreamId = bound
  BY <1>4 DEF Carries
<1> HIDE DEF opened, yes, rest, last, bound, was
<1>7. CASE inner' = opened
  BY <1>2, <1>4, <1>7, TalksOn
<1>8. CASE inner' = Transition(opened, reset, s)
  <2>1. Lawful(reset, wire, rest, last, bound) /\ IsStored(reset.streams[s])
    BY <1>4, <1>5, <1>6, ResetStreamLawful
  <2>2. reset.maxStreamId = opened.maxStreamId
    BY <1>4, ResetStreamAround, ResetMaxStreamId
  <2>3. inner' = TransitionAfter(reset, s, was)
    BY <1>8 DEF Transition, was
  <2> HIDE DEF reset
  <2>4. Lawful(inner', wire, rest, last, bound) /\ inner'.maxStreamId = reset.maxStreamId
    BY <1>3, <1>5, <2>1, <2>3, TransitionLawful
  <2>5. Carries(inner')
    BY <1>6, <2>2, <2>4 DEF Carries, rest, last, bound
  <2> QED
    BY <1>2, <2>5, TalksOn
<1>9. CASE inner' = Transition(opened, refused, s)
  <2>1. /\ Lawful(headed, wire, rest, last, bound) /\ IsStored(headed.streams[s])
        /\ headed \in InnerRecord /\ IsServer(headed)
    BY <1>3, <1>4, <1>5, <1>6, HeadersLawful
  <2>2. headed.maxStreamId = opened.maxStreamId
    BY <1>3, <1>4, SendHeadersAround DEF Around
  <2> HIDE DEF headed
  <2>3. Schedules3(headed, scheduled, s, "PROTOCOL_ERROR")
    BY <1>3, <2>1, ScheduleImplicitResetAround
  <2> HIDE DEF scheduled
  <2>4. Lawful(scheduled, wire, rest, last, bound) /\ IsStored(scheduled.streams[s])
    BY <1>3, <1>5, <2>1, <2>3, ScheduledLawful
  <2>5. scheduled.maxStreamId = headed.maxStreamId /\ scheduled \in InnerRecord
    BY <2>3 DEF Schedules3, Quiet, Around
  <2>6. Quiet(scheduled, refused) /\ refused.streams = scheduled.streams
    BY <2>5, EnqueueResetQuiet
  <2>7. inner' = TransitionAfter(refused, s, was)
    BY <1>9 DEF Transition, was
  <2> HIDE DEF refused
  <2>8. Lawful(refused, wire, rest, last, bound) /\ IsStored(refused.streams[s])
        /\ refused.maxStreamId = scheduled.maxStreamId
    BY <1>5, <2>4, <2>6, QuietLawful DEF Quiet
  <2>9. Lawful(inner', wire, rest, last, bound) /\ inner'.maxStreamId = refused.maxStreamId
    BY <1>3, <1>5, <2>7, <2>8, TransitionLawful
  <2>10. Carries(inner')
    BY <1>6, <2>2, <2>5, <2>8, <2>9 DEF Carries, rest, last, bound
  <2> QED
    BY <1>2, <2>10, TalksOn
<1> QED
  BY <1>2, <1>7, <1>8, <1>9


----------------------------------------------------------------------------
(* Steps that queue no HEADERS.                                            *)

\* No HEADERS join a queue, and what the peer's GOAWAY said stays.
Hush(i, j) ==
  /\ j \in InnerRecord
  /\ j.peer = i.peer /\ j.maxStreamId = i.maxStreamId
  /\ \A t \in Streams : Heads(j.streams[t].queue) => Heads(i.streams[t].queue)

LEMMA HushTrans ==
  ASSUME NEW i, NEW j, NEW k, Hush(i, j), Hush(j, k)
  PROVE  Hush(i, k)
BY DEF Hush

LEMMA HushRefl ==
  ASSUME NEW i \in InnerRecord
  PROVE  Hush(i, i)
BY DEF Hush

LEMMA HushQuiet ==
  ASSUME NEW i, NEW j, Quiet(i, j)
  PROVE  Hush(i, j)
BY DEF Hush, Quiet, Same

LEMMA HushAround ==
  ASSUME NEW i, NEW j, NEW s \in Streams, Around(i, j, s),
         Heads(j.streams[s].queue) => Heads(i.streams[s].queue)
  PROVE  Hush(i, j)
<1>1. \A t \in Streams : Heads(j.streams[t].queue) => Heads(i.streams[t].queue)
  BY DEF Around, Same
<1> QED
  BY <1>1 DEF Around, Hush

\* Only queues and counters change.
LEMMA HushSame ==
  ASSUME NEW i, NEW j \in InnerRecord, j.streams = i.streams, j.peer = i.peer,
         j.maxStreamId = i.maxStreamId
  PROVE  Hush(i, j)
BY DEF Hush

LEMMA NoHeadsInNothing == ~Heads(<<>>)
BY DEF Heads

LEMMA HushState ==
  ASSUME NEW i \in InnerRecord, NEW s \in Streams, NEW st \in States
  PROVE  Hush(i, [i EXCEPT !.streams[s].state = st])
<1> DEFINE j == [i EXCEPT !.streams[s].state = st]
           r == i.streams[s]
<1>1. Around(i, j, s) /\ j.streams[s] = WithState(r, st) /\ r \in StreamRecord
  BY StateAround DEF InnerRecord
<1> HIDE DEF j, r
<1>2. j.streams[s].queue = r.queue
  BY <1>1 DEF WithState, StreamRecord
<1> QED
  BY <1>1, <1>2, HushAround DEF j, r

LEMMA HushFailSending ==
  ASSUME NEW i \in InnerRecord, NEW s \in Streams
  PROVE  /\ Hush(i, FailSending(i, s)) /\ ~Heads(FailSending(i, s).streams[s].queue)
         /\ Around(i, FailSending(i, s), s)
<1> DEFINE j == FailSending(i, s)
           r == i.streams[s]
<1>1. Around(i, j, s) /\ Same(Cleared(r), j.streams[s]) /\ r \in StreamRecord
  BY FailSendingAround DEF InnerRecord
<1> HIDE DEF j, r
<1>2. j.streams[s].queue = <<>>
  BY <1>1 DEF Same, Cleared, StreamRecord
<1>3. ~Heads(j.streams[s].queue)
  BY <1>2, NoHeadsInNothing
<1> QED
  BY <1>1, <1>3, HushAround DEF j

\* Counts::transition_after
LEMMA HushTransition ==
  ASSUME NEW i \in InnerRecord, NEW s \in Streams, NEW wasReset \in BOOLEAN
  PROVE  LET j == TransitionAfter(i, s, wasReset)
         IN  /\ Hush(i, j) /\ Elsewhere(i, j, s)
             /\ j.sendQ = i.sendQ /\ j.capacityQ = i.capacityQ
             /\ j.openQ = i.openQ /\ j.resetQ = i.resetQ
<1> DEFINE r == i.streams[s]
           uncounts == GivesSlotBack(r)
           unlinks == IsFlushed(r) /\ ~IsPendingReset(i, s)
           place == IF unlinks THEN "unlinked" ELSE r.place
           counted == r.counted /\ ~uncounts
           num == IF uncounts THEN i.numStreams - 1 ELSE i.numStreams
           resets == IF unlinks /\ wasReset THEN i.numResets - 1 ELSE i.numResets
           r2 == [[r EXCEPT !.place = place] EXCEPT !.counted = counted]
           j == [i EXCEPT
              !.streams[s].place = IF unlinks THEN "unlinked" ELSE @,
              !.streams[s].counted = @ /\ ~uncounts,
              !.numStreams = IF uncounts THEN @ - 1 ELSE @,
              !.numResets = IF unlinks /\ wasReset THEN @ - 1 ELSE @]
           k == [j EXCEPT !.streams[s] = Removed(@)]
<1>1. /\ r \in StreamRecord /\ i.streams \in [Streams -> StreamRecord]
      /\ i.numStreams \in Int /\ i.numResets \in Int
  BY DEF InnerRecord
<1>2. /\ place \in Place /\ counted \in BOOLEAN /\ num \in Int /\ resets \in Int
  <2>1. r.place \in Place /\ r.counted \in BOOLEAN /\ "unlinked" \in Place
    BY <1>1 DEF StreamRecord, Place
  <2> HIDE DEF r, unlinks, uncounts
  <2> QED
    BY <1>1, <2>1
<1>3. TransitionAfter(i, s, wasReset) = IF IsReleased(j, s) THEN k ELSE j
  BY DEF TransitionAfter
<1>4. /\ j.streams = [i.streams EXCEPT ![s] = r2]
      /\ j.flow = i.flow /\ j.sendQ = i.sendQ /\ j.capacityQ = i.capacityQ
      /\ j.openQ = i.openQ /\ j.resetQ = i.resetQ
      /\ j.peer = i.peer /\ j.initWindow = i.initWindow
      /\ j.maxStreams = i.maxStreams /\ j.maxStreamId = i.maxStreamId
      /\ j.inFlight = i.inFlight /\ j.numStreams = num /\ j.numResets = resets
  <2> HIDE DEF uncounts, unlinks
  <2> QED
    BY <1>1 DEF InnerRecord, StreamRecord
<1>5. r2 \in StreamRecord /\ r2.queue = r.queue
  <2> HIDE DEF place, counted, r
  <2> QED
    BY <1>1, <1>2 DEF StreamRecord
<1> HIDE DEF r2, num, resets
<1>6. j \in InnerRecord
  <2>1. j.numStreams \in Int /\ j.numResets \in Int /\ j.streams \in [Streams -> StreamRecord]
    BY <1>1, <1>2, <1>4, <1>5
  <2> HIDE DEF j
  <2>2. j = [i EXCEPT !.streams = j.streams, !.numStreams = j.numStreams,
                      !.numResets = j.numResets]
    BY ZenonT(60), <1>1 DEF j, InnerRecord
  <2> QED
    BY <2>1, <2>2 DEF InnerRecord
<1> HIDE DEF j
<1>7. Hush(i, j) /\ Elsewhere(i, j, s)
  BY <1>1, <1>4, <1>5, <1>6 DEF Hush, Elsewhere
<1>8. Removed(r2) \in StreamRecord /\ Removed(r2).queue = <<>>
  <2>1. Idle \in States /\ <<>> \in Seq(Frames) /\ "removed" \in Place /\ "dropped" \in Handle
    BY DEF States, Place, Handle
  <2>2. r2.flow.available \in Int
    BY <1>5 DEF StreamRecord, Flow
  <2> DEFINE n == NewStream("removed", "dropped", 0)
  <2>3. n \in StreamRecord /\ n.queue = <<>>
    BY <2>1 DEF NewStream, StreamRecord, Flow
  <2>4. n.flow = [window |-> 0, available |-> 0]
    BY DEF NewStream
  <2>5. Removed(r2) = [n EXCEPT !.flow = [n.flow EXCEPT !.available = r2.flow.available]]
    BY DEF Removed
  <2>6. [n.flow EXCEPT !.available = r2.flow.available] \in Flow
    BY <2>2, <2>4 DEF Flow
  <2> HIDE DEF n
  <2> QED
    BY <2>3, <2>5, <2>6 DEF StreamRecord
<1>9. k = With(j, s, Removed(r2))
  BY <1>1, <1>4 DEF With
<1> HIDE DEF k
<1>10. k \in InnerRecord /\ k.streams[s] = Removed(r2) /\ Elsewhere(j, k, s) /\ SameBooks(j, k)
       /\ k.sendQ = j.sendQ /\ k.capacityQ = j.capacityQ
  BY <1>6, <1>8, <1>9, WithFields
<1>11. /\ k.peer = j.peer /\ k.maxStreamId = j.maxStreamId
       /\ k.openQ = j.openQ /\ k.resetQ = j.resetQ
  BY <1>10 DEF SameBooks
<1>12. ~Heads(k.streams[s].queue)
  BY <1>8, <1>10, NoHeadsInNothing
<1>13. Hush(j, k)
  <2>1. \A t \in Streams : Heads(k.streams[t].queue) => Heads(j.streams[t].queue)
    BY <1>10, <1>12 DEF Elsewhere
  <2> QED
    BY <1>10, <1>11, <2>1 DEF Hush
<1>14. Hush(i, k)
  BY <1>7, <1>13, HushTrans
<1>15. Elsewhere(i, k, s)
  BY <1>7, <1>10 DEF Elsewhere
<1> QED
  BY <1>3, <1>4, <1>7, <1>10, <1>11, <1>14, <1>15

LEMMA PendingResetType == \A i, s : IsPendingReset(i, s) \in BOOLEAN
BY DEF IsPendingReset, Contains

\* Counts::transition around a step.
LEMMA HushThrough ==
  ASSUME NEW i, NEW j, NEW s \in Streams, Hush(i, j)
  PROVE  Hush(i, Transition(i, j, s))
<1>1. j \in InnerRecord
  BY DEF Hush
<1>2. Hush(j, TransitionAfter(j, s, IsPendingReset(i, s)))
  BY <1>1, PendingResetType, HushTransition
<1> QED
  BY <1>2, HushTrans DEF Transition

LEMMA HushLeave ==
  ASSUME NEW i \in InnerRecord, NEW s \in Streams
  PROVE  LET j == Leave(i, s)
         IN  /\ Hush(i, j) /\ Elsewhere(i, j, s)
             /\ j.sendQ = i.sendQ /\ j.capacityQ = i.capacityQ
             /\ j.openQ = i.openQ /\ j.resetQ = i.resetQ
BY PendingResetType, HushTransition DEF Leave

\* A frame that is not HEADERS joins the queue.
LEMMA HushAppend ==
  ASSUME NEW i \in InnerRecord, NEW j, NEW s \in Streams, NEW f \in Frames,
         Around(i, j, s), j.streams[s].queue = Append(i.streams[s].queue, f),
         f.kind # "headers"
  PROVE  Hush(i, j)
<1> DEFINE q == i.streams[s].queue
<1>1. q \in Seq(Frames)
  BY DEF InnerRecord, StreamRecord
<1>2. j.streams[s].queue = Append(q, f)
  OBVIOUS
<1> HIDE DEF q
<1>3. Heads(Append(q, f)) => Heads(q)
  BY <1>1, AppendKinds
<1> QED
  BY <1>2, <1>3, HushAround DEF q

LEMMA HushResets ==
  ASSUME NEW i \in InnerRecord, NEW j, NEW s \in Streams, Resets3(i, j, s)
  PROVE  Hush(i, j)
<1> DEFINE r == i.streams[s]
           r2 == WithState(r, SetReset("LocalReset"))
           q == r.queue
<1>1. r \in StreamRecord /\ q \in Seq(Frames)
  BY DEF InnerRecord, StreamRecord
<1> HIDE DEF r
<1>2. r2.queue = q /\ Queued(r2, ResetFrame).queue = Append(q, ResetFrame)
      /\ Queued(Cleared(r2), ResetFrame).queue = Append(<<>>, ResetFrame)
  BY <1>1 DEF WithState, Queued, Cleared, StreamRecord
<1>3. ResetFrame \in Frames /\ ResetFrame.kind # "headers" /\ <<>> \in Seq(Frames)
  BY ResetFrameIn DEF ResetFrame, Frame
<1> HIDE DEF q
<1>4. /\ Heads(Append(q, ResetFrame)) => Heads(q)
      /\ Heads(Append(<<>>, ResetFrame)) => Heads(q)
  BY <1>1, <1>3, AppendKinds, NoHeadsInNothing
<1> HIDE DEF r2
<1>5. \/ Quiet(i, j)
      \/ Around(i, j, s) /\ Same(r2, j.streams[s])
      \/ Around(i, j, s) /\ Same(Queued(r2, ResetFrame), j.streams[s])
      \/ Around(i, j, s) /\ Same(Queued(Cleared(r2), ResetFrame), j.streams[s])
  BY DEF Resets3, r2, r
<1>6. Quiet(i, j) \/ (Around(i, j, s) /\ (Heads(j.streams[s].queue) => Heads(q)))
  BY <1>2, <1>4, <1>5 DEF Same
<1> QED
  BY <1>6, HushQuiet, HushAround DEF q, r

LEMMA HushSchedules ==
  ASSUME NEW i \in InnerRecord, NEW j, NEW s \in Streams, NEW reason, Schedules3(i, j, s, reason)
  PROVE  Hush(i, j)
<1> DEFINE r == i.streams[s]
           r2 == WithState(r, SetScheduledReset(reason))
<1>1. r \in StreamRecord
  BY DEF InnerRecord
<1> HIDE DEF r
<1>2. r2.queue = r.queue
  BY <1>1 DEF WithState, StreamRecord
<1> HIDE DEF r2
<1>3. Quiet(i, j) \/ (Around(i, j, s) /\ Same(r2, j.streams[s]))
  BY DEF Schedules3, r2, r
<1>4. Quiet(i, j) \/ (Around(i, j, s) /\ (Heads(j.streams[s].queue) => Heads(r.queue)))
  BY <1>2, <1>3 DEF Same
<1> QED
  BY <1>4, HushQuiet, HushAround DEF r


----------------------------------------------------------------------------
(* ... among them pop_frame, and all that fails or clears streams.         *)

\* A loop of such steps.
LEMMA HushLoop ==
  ASSUME NEW i \in InnerRecord, NEW step, NEW n \in Nat,
         \A k \in 1 .. n : \A j \in InnerRecord : Hush(j, step[k][j])
  PROVE  Hush(i, Loop(step, i, n))
<1> DEFINE S == {j \in InnerRecord : Hush(i, j)}
<1>1. i \in S
  BY HushRefl
<1>2. \A k \in 1 .. n : \A j \in S : step[k][j] \in S
  BY HushTrans DEF Hush
<1>3. Loop(step, i, n) \in S
  <2> HIDE DEF S
  <2> QED
    BY <1>1, <1>2, LoopStays
<1> QED
  BY <1>3

\* A loop that takes something out of a queue at every turn.
LEMMA HushDrain ==
  ASSUME NEW i \in InnerRecord, NEW step, NEW size, size[i] \in Nat,
         \A k \in 1 .. size[i] : \A j \in InnerRecord :
           size[j] > 0 => Hush(j, step[k][j]) /\ size[step[k][j]] = size[j] - 1
  PROVE  Hush(i, Loop(step, i, size[i]))
<1> DEFINE n == size[i]
           good == [k \in Nat |-> {j \in InnerRecord : Hush(i, j) /\ size[j] = n - k}]
<1>1. i \in good[0] /\ n \in Nat
  BY HushRefl
<1>2. Leads(step, good, n)
  <2>1. ASSUME NEW k \in 1 .. n, NEW j \in good[k - 1]
        PROVE  step[k][j] \in good[k]
    <3>1. k \in Nat /\ k - 1 \in Nat
      BY <1>1
    <3>2. j \in InnerRecord /\ Hush(i, j) /\ size[j] = n - (k - 1)
      BY <2>1, <3>1
    <3>3. size[j] > 0 /\ size[j] - 1 = n - k
      BY <1>1, <3>1, <3>2
    <3>4. Hush(j, step[k][j]) /\ size[step[k][j]] = n - k
      BY <1>1, <3>2, <3>3
    <3>5. Hush(i, step[k][j]) /\ step[k][j] \in InnerRecord
      BY <3>2, <3>4, HushTrans DEF Hush
    <3> HIDE DEF n
    <3> QED
      BY <3>1, <3>4, <3>5
  <2> HIDE DEF good, n
  <2> QED
    BY <2>1 DEF Leads
<1> HIDE DEF good
<1>3. Loop(step, i, n) \in good[n]
  <2> HIDE DEF n
  <2> QED
    BY <1>1, <1>2, LoopLeads
<1> QED
  BY <1>1, <1>3 DEF good

LEMMA HushExpire ==
  ASSUME NEW i \in InnerRecord, i.resetQ # <<>>
  PROVE  Hush(i, Expire(i)) /\ Len(Expire(i).resetQ) = Len(i.resetQ) - 1
<1> DEFINE s == Head(i.resetQ)
           q == Tail(i.resetQ)
           c == [i EXCEPT !.resetQ = Tail(@)]
           yes == TRUE
<1>1. s \in Streams /\ q \in Seq(Streams) /\ Len(q) = Len(i.resetQ) - 1
  BY TailQueue DEF InnerRecord
<1>2. c = [i EXCEPT !.resetQ = q] /\ yes \in BOOLEAN
  OBVIOUS
<1>3. Expire(i) = TransitionAfter(c, s, yes)
  BY DEF Expire
<1> HIDE DEF s, q, c, yes
<1>4. /\ c \in InnerRecord /\ c.streams = i.streams /\ c.peer = i.peer
      /\ c.maxStreamId = i.maxStreamId /\ c.resetQ = q
  BY <1>1, <1>2 DEF InnerRecord
<1>5. Hush(i, c)
  BY <1>4, HushSame
<1> DEFINE j == TransitionAfter(c, s, yes)
<1>6. yes \in BOOLEAN
  BY <1>2
<1>7. Hush(c, j) /\ j.resetQ = c.resetQ
  BY <1>1, <1>4, <1>6, HushTransition
<1> HIDE DEF j
<1>8. Hush(c, Expire(i)) /\ Expire(i).resetQ = c.resetQ
  BY <1>3, <1>7 DEF j
<1> QED
  BY <1>1, <1>4, <1>5, <1>8, HushTrans

LEMMA HushLeaveCapacity ==
  ASSUME NEW i \in InnerRecord, i.capacityQ # <<>>
  PROVE  Hush(i, LeaveCapacity(i)) /\ Len(LeaveCapacity(i).capacityQ) = Len(i.capacityQ) - 1
<1> DEFINE s == Head(i.capacityQ)
           q == Tail(i.capacityQ)
           c == [i EXCEPT !.capacityQ = Tail(@)]
<1>1. s \in Streams /\ q \in Seq(Streams) /\ Len(q) = Len(i.capacityQ) - 1
  BY TailQueue DEF InnerRecord
<1>2. c = [i EXCEPT !.capacityQ = q]
  OBVIOUS
<1>3. LeaveCapacity(i) = Leave(c, s)
  BY DEF LeaveCapacity
<1> HIDE DEF s, q, c
<1>4. /\ c \in InnerRecord /\ c.streams = i.streams /\ c.peer = i.peer
      /\ c.maxStreamId = i.maxStreamId /\ c.capacityQ = q
  BY <1>1, <1>2 DEF InnerRecord
<1>5. Hush(i, c)
  BY <1>4, HushSame
<1>6. Hush(c, LeaveCapacity(i)) /\ LeaveCapacity(i).capacityQ = c.capacityQ
  BY <1>1, <1>3, <1>4, HushLeave
<1> QED
  BY <1>1, <1>4, <1>5, <1>6, HushTrans

LEMMA HushLeaveOpen ==
  ASSUME NEW i \in InnerRecord, i.openQ # <<>>
  PROVE  Hush(i, LeaveOpen(i)) /\ Len(LeaveOpen(i).openQ) = Len(i.openQ) - 1
<1> DEFINE s == Head(i.openQ)
           q == Tail(i.openQ)
           c == [i EXCEPT !.openQ = Tail(@)]
<1>1. s \in Streams /\ q \in Seq(Streams) /\ Len(q) = Len(i.openQ) - 1
  BY TailQueue DEF InnerRecord
<1>2. c = [i EXCEPT !.openQ = q]
  OBVIOUS
<1>3. LeaveOpen(i) = Leave(c, s)
  BY DEF LeaveOpen
<1> HIDE DEF s, q, c
<1>4. /\ c \in InnerRecord /\ c.streams = i.streams /\ c.peer = i.peer
      /\ c.maxStreamId = i.maxStreamId /\ c.openQ = q
  BY <1>1, <1>2 DEF InnerRecord
<1>5. Hush(i, c)
  BY <1>4, HushSame
<1>6. Hush(c, LeaveOpen(i)) /\ LeaveOpen(i).openQ = c.openQ
  BY <1>1, <1>3, <1>4, HushLeave
<1> QED
  BY <1>1, <1>4, <1>5, <1>6, HushTrans

LEMMA HushLeaveSend ==
  ASSUME NEW i \in InnerRecord, i.sendQ # <<>>
  PROVE  Hush(i, LeaveSend(i)) /\ Len(LeaveSend(i).sendQ) = Len(i.sendQ) - 1
<1> DEFINE s == Head(i.sendQ)
           q == Tail(i.sendQ)
           r == i.streams[s]
           st == IF IsScheduledReset(r.state) THEN SetReset("LocalReset") ELSE r.state
           c == [i EXCEPT !.sendQ = q]
           d == [c EXCEPT !.streams[s].state = st]
<1>1. s \in Streams /\ q \in Seq(Streams) /\ Len(q) = Len(i.sendQ) - 1
  BY TailQueue DEF InnerRecord
<1>2. LeaveSend(i) = Leave(d, s)
  <2> HIDE DEF s
  <2>1. d = [i EXCEPT !.sendQ = Tail(@),
                      !.streams[s].state =
                        IF IsScheduledReset(@) THEN SetReset("LocalReset") ELSE @]
    BY <1>1 DEF InnerRecord, StreamRecord
  <2> HIDE DEF d
  <2> QED
    BY <2>1 DEF LeaveSend, s
<1>3. st \in States
  <2>1. r.state \in States
    BY <1>1 DEF InnerRecord, StreamRecord
  <2>2. SetReset("LocalReset") \in States
    BY <2>1, EndingSpeech DEF Errors, LocalErrors, Calmer, Firmer
  <2> QED
    BY <2>1, <2>2
<1> HIDE DEF s, q, st, r
<1>4. /\ c \in InnerRecord /\ c.streams = i.streams /\ c.peer = i.peer
      /\ c.maxStreamId = i.maxStreamId /\ c.sendQ = q
  BY <1>1 DEF InnerRecord
<1>5. Hush(i, c)
  BY <1>4, HushSame
<1> HIDE DEF c
<1>6. Hush(c, d) /\ d.sendQ = c.sendQ /\ d \in InnerRecord
  BY <1>1, <1>3, <1>4, HushState, StateAround DEF Hush
<1> HIDE DEF d
<1>7. Hush(d, LeaveSend(i)) /\ LeaveSend(i).sendQ = d.sendQ
  BY <1>1, <1>2, <1>6, HushLeave
<1> QED
  BY <1>1, <1>4, <1>5, <1>6, <1>7, HushTrans


\* clear_queues, queue by queue.
LEMMA HushClears ==
  ASSUME NEW i \in InnerRecord
  PROVE  /\ Hush(i, ClearResets(i)) /\ Hush(i, ClearCapacity(i))
         /\ Hush(i, ClearSend(i)) /\ Hush(i, ClearOpen(i))
<1>1. ASSUME NEW q \in Seq(Streams)
      PROVE  Len(q) \in Nat /\ (Len(q) > 0 => q # <<>>)
  OBVIOUS
<1>2. ASSUME NEW j \in InnerRecord
      PROVE  /\ j.resetQ \in Seq(Streams) /\ j.capacityQ \in Seq(Streams)
             /\ j.sendQ \in Seq(Streams) /\ j.openQ \in Seq(Streams)
  BY DEF InnerRecord
<1>3. Hush(i, ClearResets(i))
  <2> DEFINE step == [k \in Nat |-> [j \in InnerRecord |-> Expire(j)]]
             size == [j \in InnerRecord |-> Len(j.resetQ)]
  <2>1. size[i] \in Nat /\ ClearResets(i) = Loop(step, i, size[i])
    BY <1>1, <1>2 DEF ClearResets
  <2>2. ASSUME NEW k \in 1 .. size[i], NEW j \in InnerRecord, size[j] > 0
        PROVE  Hush(j, step[k][j]) /\ size[step[k][j]] = size[j] - 1
    <3>1. k \in Nat
      BY <2>1
    <3>2. step[k][j] = Expire(j) /\ j.resetQ # <<>>
      BY <1>1, <1>2, <2>2, <3>1
    <3>3. Hush(j, Expire(j)) /\ Len(Expire(j).resetQ) = Len(j.resetQ) - 1
      BY <3>2, HushExpire
    <3>4. Expire(j) \in InnerRecord
      BY <3>3 DEF Hush
    <3> QED
      BY <3>2, <3>3, <3>4
  <2> HIDE DEF step, size
  <2> QED
    BY <2>1, <2>2, HushDrain
<1>4. Hush(i, ClearCapacity(i))
  <2> DEFINE step == [k \in Nat |-> [j \in InnerRecord |-> LeaveCapacity(j)]]
             size == [j \in InnerRecord |-> Len(j.capacityQ)]
  <2>1. size[i] \in Nat /\ ClearCapacity(i) = Loop(step, i, size[i])
    BY <1>1, <1>2 DEF ClearCapacity
  <2>2. ASSUME NEW k \in 1 .. size[i], NEW j \in InnerRecord, size[j] > 0
        PROVE  Hush(j, step[k][j]) /\ size[step[k][j]] = size[j] - 1
    <3>1. k \in Nat
      BY <2>1
    <3>2. step[k][j] = LeaveCapacity(j) /\ j.capacityQ # <<>>
      BY <1>1, <1>2, <2>2, <3>1
    <3>3. Hush(j, LeaveCapacity(j))
          /\ Len(LeaveCapacity(j).capacityQ) = Len(j.capacityQ) - 1
      BY <3>2, HushLeaveCapacity
    <3>4. LeaveCapacity(j) \in InnerRecord
      BY <3>3 DEF Hush
    <3> QED
      BY <3>2, <3>3, <3>4
  <2> HIDE DEF step, size
  <2> QED
    BY <2>1, <2>2, HushDrain
<1>5. Hush(i, ClearSend(i))
  <2> DEFINE step == [k \in Nat |-> [j \in InnerRecord |-> LeaveSend(j)]]
             size == [j \in InnerRecord |-> Len(j.sendQ)]
  <2>1. size[i] \in Nat /\ ClearSend(i) = Loop(step, i, size[i])
    BY <1>1, <1>2 DEF ClearSend
  <2>2. ASSUME NEW k \in 1 .. size[i], NEW j \in InnerRecord, size[j] > 0
        PROVE  Hush(j, step[k][j]) /\ size[step[k][j]] = size[j] - 1
    <3>1. k \in Nat
      BY <2>1
    <3>2. step[k][j] = LeaveSend(j) /\ j.sendQ # <<>>
      BY <1>1, <1>2, <2>2, <3>1
    <3>3. Hush(j, LeaveSend(j)) /\ Len(LeaveSend(j).sendQ) = Len(j.sendQ) - 1
      BY <3>2, HushLeaveSend
    <3>4. LeaveSend(j) \in InnerRecord
      BY <3>3 DEF Hush
    <3> QED
      BY <3>2, <3>3, <3>4
  <2> HIDE DEF step, size
  <2> QED
    BY <2>1, <2>2, HushDrain
<1>6. Hush(i, ClearOpen(i))
  <2> DEFINE step == [k \in Nat |-> [j \in InnerRecord |-> LeaveOpen(j)]]
             size == [j \in InnerRecord |-> Len(j.openQ)]
  <2>1. size[i] \in Nat /\ ClearOpen(i) = Loop(step, i, size[i])
    BY <1>1, <1>2 DEF ClearOpen
  <2>2. ASSUME NEW k \in 1 .. size[i], NEW j \in InnerRecord, size[j] > 0
        PROVE  Hush(j, step[k][j]) /\ size[step[k][j]] = size[j] - 1
    <3>1. k \in Nat
      BY <2>1
    <3>2. step[k][j] = LeaveOpen(j) /\ j.openQ # <<>>
      BY <1>1, <1>2, <2>2, <3>1
    <3>3. Hush(j, LeaveOpen(j)) /\ Len(LeaveOpen(j).openQ) = Len(j.openQ) - 1
      BY <3>2, HushLeaveOpen
    <3>4. LeaveOpen(j) \in InnerRecord
      BY <3>3 DEF Hush
    <3> QED
      BY <3>2, <3>3, <3>4
  <2> HIDE DEF step, size
  <2> QED
    BY <2>1, <2>2, HushDrain
<1> QED
  BY <1>3, <1>4, <1>5, <1>6

\* clear_queues: pending_accept.
LEMMA HushClearAccept ==
  ASSUME NEW i \in InnerRecord
  PROVE  Hush(i, ClearAccept(i))
<1> DEFINE step == [s \in Nat |-> [j \in InnerRecord |-> Forsake(j, s)]]
<1>1. ASSUME NEW s \in 1 .. NStreams, NEW j \in InnerRecord
      PROVE  Hush(j, step[s][j])
  <2> DEFINE d == [j EXCEPT !.streams[s].handle = "dropped"]
             no == FALSE
  <2>1. s \in Nat /\ s \in Streams /\ "dropped" \in Handle /\ no \in BOOLEAN
    BY StreamsType DEF Streams, Handle
  <2>2. step[s][j] \in {TransitionAfter(d, s, no), j}
    BY <2>1 DEF Forsake
  <2> HIDE DEF step, no
  <2>3. Quiet(j, d) /\ d \in InnerRecord
    BY <2>1, HandleQuiet
  <2> HIDE DEF d
  <2>4. Hush(j, d)
    BY <2>3, HushQuiet
  <2>5. Hush(d, TransitionAfter(d, s, no))
    BY <2>1, <2>3, HushTransition
  <2> QED
    BY <2>2, <2>4, <2>5, HushTrans, HushRefl
<1>2. ClearAccept(i) = Loop(step, i, NStreams)
  BY DEF ClearAccept
<1> HIDE DEF step
<1> QED
  BY <1>1, <1>2, StreamsType, HushLoop

\* A stream fails: what it had to send is gone.
LEMMA HushFailStream ==
  ASSUME NEW i \in InnerRecord, NEW s \in Streams, NEW e \in Errors
  PROVE  LET j == FailStream(i, s, e)
         IN  /\ Hush(i, j) /\ ~Heads(j.streams[s].queue)
             /\ \A t \in Streams : t # s => Same(i.streams[t], j.streams[t])
<1> DEFINE st == i.streams[s].state
           st2 == HandleError(st, e)
           d == [i EXCEPT !.streams[s].state = st2]
           f == FailSending(d, s)
           j == FailStream(i, s, e)
           was == IsPendingReset(i, s)
<1>1. st \in States /\ was \in BOOLEAN
  BY PendingResetType DEF InnerRecord, StreamRecord
<1>2. st2 \in States
  <2> HIDE DEF st
  <2>1. (e = "Io") \in BOOLEAN
    OBVIOUS
  <2> QED
    BY <1>1, <2>1, EndingSpeech DEF Calmer, Firmer
<1>3. [i EXCEPT !.streams[s].state = HandleError(@, e)] = d
  BY DEF InnerRecord, StreamRecord
<1>4. j = TransitionAfter(f, s, was)
  BY <1>3 DEF FailStream, Transition
<1> HIDE DEF st2, j, was
<1>5. Around(i, d, s) /\ Hush(i, d) /\ d \in InnerRecord
  BY <1>2, HushState, StateAround DEF Hush
<1> HIDE DEF d
<1>6. Around(d, f, s) /\ Hush(d, f) /\ ~Heads(f.streams[s].queue) /\ f \in InnerRecord
  BY <1>5, HushFailSending DEF Hush
<1> HIDE DEF f
<1>7. Hush(f, j) /\ Elsewhere(f, j, s)
  BY <1>1, <1>4, <1>6, HushTransition
<1>8. Hush(i, j) /\ ~Heads(j.streams[s].queue)
  <2>1. Hush(i, j)
    BY <1>5, <1>6, <1>7, HushTrans
  <2> QED
    BY <1>6, <1>7, <2>1 DEF Hush
<1>9. ASSUME NEW t \in Streams, t # s
      PROVE  Same(i.streams[t], j.streams[t])
  <2>1. Same(i.streams[t], d.streams[t]) /\ Same(d.streams[t], f.streams[t])
        /\ j.streams[t] = f.streams[t]
    BY <1>5, <1>6, <1>7, <1>9 DEF Around, Elsewhere
  <2> QED
    BY <2>1 DEF Same
<1> QED
  BY <1>8, <1>9 DEF j


\* HEADERS are queued only on streams that Store::for_each finds.
HeadsLinked(i) == \A t \in Streams : Heads(i.streams[t].queue) => i.streams[t].place = "linked"

NoHeads(i) == \A t \in Streams : ~Heads(i.streams[t].queue)

LEMMA LegalHeadsLinked ==
  ASSUME NEW i, NEW w, NEW holder, NEW last \in BOOLEAN, NEW bound, NEW opening,
         Legal(i, w, holder, last, bound, opening)
  PROVE  HeadsLinked(i)
<1>1. ASSUME NEW t \in Streams
      PROVE  i.streams[t].queue = <<>> \/ i.streams[t].place = "linked"
  <2> DEFINE r == i.streams[t]
             v == w[t]
  <2>1. Utters(i, w[t], holder, last, bound, opening, t)
    BY LegalAt
  <2>2. \E more, waits, pending, due, server, refused :
          Voice(r, v, more, last, waits, pending, due, server, refused)
    BY <2>1 DEF Utters
  <2> HIDE DEF r, v
  <2>3. PICK more, waits, pending, due, server, refused :
          Voice(r, v, more, last, waits, pending, due, server, refused)
    BY <2>2
  <2>4. r.queue = <<>> \/ r.place = "linked"
    BY <2>3 DEF Voice, Silent, Says, IsStored
  <2> QED
    BY <2>4 DEF r
<1> QED
  BY <1>1, NoHeadsInNothing DEF HeadsLinked

LEMMA HushFailNext ==
  ASSUME NEW i \in InnerRecord, NEW s \in Streams, NEW last \in Nat, NEW e \in Errors
  PROVE  LET j == FailNext(i, s, last, e)
         IN  /\ Hush(i, j) /\ (HeadsLinked(i) => HeadsLinked(j))
             /\ HeadsLinked(i) /\ last = 0 => ~Heads(j.streams[s].queue)
<1> DEFINE j == FailNext(i, s, last, e)
<1>1. CASE s \in Linked(i) /\ s > last
  <2>1. j = FailStream(i, s, e)
    BY <1>1 DEF FailNext
  <2> HIDE DEF j
  <2>2. /\ Hush(i, j) /\ ~Heads(j.streams[s].queue)
        /\ \A t \in Streams : t # s => Same(i.streams[t], j.streams[t])
    BY <2>1, HushFailStream
  <2>3. HeadsLinked(i) => HeadsLinked(j)
    BY <2>2 DEF HeadsLinked, Same
  <2> QED
    BY <2>2, <2>3 DEF j
<1>2. CASE ~(s \in Linked(i) /\ s > last)
  <2>1. j = i /\ Hush(i, i)
    BY <1>2, HushRefl DEF FailNext
  <2>2. last = 0 => s \notin Linked(i)
    BY <1>2 DEF Streams
  <2>3. HeadsLinked(i) /\ last = 0 => ~Heads(i.streams[s].queue)
    BY <2>2 DEF HeadsLinked, Linked
  <2> QED
    BY <2>1, <2>3
<1> QED
  BY <1>1, <1>2

\* Store::for_each
LEMMA HushFailAfter ==
  ASSUME NEW i \in InnerRecord, NEW order \in Orders, NEW last \in Nat, NEW e \in Errors
  PROVE  Hush(i, FailAfter(i, order, last, e))
<1> DEFINE step == [k \in Nat |-> [j \in InnerRecord |-> FailNext(j, order[k], last, e)]]
<1>1. ASSUME NEW k \in 1 .. NStreams, NEW j \in InnerRecord
      PROVE  Hush(j, step[k][j])
  <2>1. k \in Nat /\ order[k] \in Streams
    BY StreamsType, OrdersType
  <2>2. step[k][j] = FailNext(j, order[k], last, e)
    BY <2>1
  <2> QED
    BY <2>1, <2>2, HushFailNext
<1>2. FailAfter(i, order, last, e) = Loop(step, i, NStreams)
  BY DEF FailAfter
<1> HIDE DEF step
<1> QED
  BY <1>1, <1>2, StreamsType, HushLoop

LEMMA FailAllMutes ==
  ASSUME NEW i \in InnerRecord, NEW order \in Orders, NEW e \in Errors, HeadsLinked(i)
  PROVE  NoHeads(FailAll(i, order, e))
<1> DEFINE quietened(j, k) == \A m \in 1 .. k : ~Heads(j.streams[order[m]].queue)
           good == [k \in Nat |-> {j \in InnerRecord : HeadsLinked(j) /\ quietened(j, k)}]
           zero == 0
           step == [k \in Nat |-> [j \in InnerRecord |-> FailNext(j, order[k], zero, e)]]
<1>1. i \in good[0] /\ NStreams \in Nat
  BY StreamsType
<1>2. Leads(step, good, NStreams)
  <2>1. ASSUME NEW k \in 1 .. NStreams, NEW j \in good[k - 1]
        PROVE  step[k][j] \in good[k]
    <3> DEFINE n == FailNext(j, order[k], zero, e)
    <3>1. k \in Nat /\ k - 1 \in Nat /\ order[k] \in Streams /\ zero \in Nat /\ zero = 0
      BY <1>1, OrdersType
    <3>2. j \in InnerRecord /\ HeadsLinked(j) /\ quietened(j, k - 1)
      BY <3>1
    <3>3. step[k][j] = n
      BY <3>1, <3>2
    <3> HIDE DEF zero
    <3>4. Hush(j, n) /\ HeadsLinked(n) /\ ~Heads(n.streams[order[k]].queue)
      BY <3>1, <3>2, HushFailNext
    <3> HIDE DEF n, step
    <3>5. ASSUME NEW m \in 1 .. k
          PROVE  ~Heads(n.streams[order[m]].queue)
      <4>1. m = k \/ m \in 1 .. k - 1
        BY <3>1
      <4>2. order[m] \in Streams
        BY <1>1, OrdersType
      <4> QED
        BY <3>2, <3>4, <4>1, <4>2 DEF Hush
    <3>6. n \in InnerRecord
      BY <3>4 DEF Hush
    <3> QED
      BY <3>1, <3>3, <3>4, <3>5, <3>6
  <2> HIDE DEF good, step
  <2> QED
    BY <2>1 DEF Leads
<1>3. FailAll(i, order, e) = Loop(step, i, NStreams)
  BY DEF FailAll, FailAfter
<1>4. Loop(step, i, NStreams) \in good[NStreams]
  <2> HIDE DEF good, step
  <2> QED
    BY <1>1, <1>2, LoopLeads
<1> HIDE DEF step
<1>5. quietened(FailAll(i, order, e), NStreams)
  BY <1>1, <1>3, <1>4
<1> QED
  BY <1>5, OrdersType DEF NoHeads

LEMMA HushMute ==
  ASSUME NEW i, NEW j, Hush(i, j), NoHeads(i)
  PROVE  NoHeads(j)
BY DEF Hush, NoHeads

\* The end of pop_frame.
LEMMA HushRequeue ==
  ASSUME NEW i \in InnerRecord, NEW s \in Streams
  PROVE  Hush(i, Requeue(i, s))
<1> DEFINE more == i.streams[s].queue # <<>> \/ IsScheduledReset(i.streams[s].state)
           q == IF more THEN Push(i.sendQ, s) ELSE i.sendQ
           j == [i EXCEPT !.sendQ = q]
           was == IsPendingReset(i, s)
<1>1. i.sendQ \in Seq(Streams)
  BY DEF InnerRecord
<1>2. q \in Seq(Streams)
  <2> DEFINE p == i.sendQ
  <2>1. p \in Seq(Streams)
    BY <1>1
  <2> HIDE DEF p
  <2>2. Push(p, s) \in Seq(Streams)
    BY <2>1, PushQueue
  <2> QED
    BY <1>1, <2>2 DEF p
<1>3. Requeue(i, s) = TransitionAfter(j, s, was)
  <2>1. CASE more
    BY <2>1 DEF Requeue
  <2>2. CASE ~more
    <3>1. j = i
      BY <2>2 DEF InnerRecord
    <3> HIDE DEF j
    <3> QED
      BY <2>2, <3>1 DEF Requeue
  <2> QED
    BY <2>1, <2>2
<1>4. was \in BOOLEAN
  BY PendingResetType
<1> HIDE DEF q, was
<1>5. /\ j \in InnerRecord /\ j.streams = i.streams /\ j.peer = i.peer
      /\ j.maxStreamId = i.maxStreamId
  BY <1>2 DEF InnerRecord
<1> HIDE DEF j
<1>6. Hush(i, j)
  BY <1>5, HushSame
<1>7. Hush(j, TransitionAfter(j, s, was))
  BY <1>4, <1>5, HushTransition
<1> QED
  BY <1>3, <1>6, <1>7, HushTrans

\* The frame at the head of a queue leaves it.
LEMMA HushTail ==
  ASSUME NEW i \in InnerRecord, NEW j \in InnerRecord, NEW s \in Streams,
         j.peer = i.peer, j.maxStreamId = i.maxStreamId, Elsewhere(i, j, s),
         i.streams[s].queue # <<>>, j.streams[s].queue = Tail(i.streams[s].queue)
  PROVE  Hush(i, j)
<1> DEFINE q == i.streams[s].queue
<1>1. q \in Seq(Frames) /\ q # <<>>
  BY DEF InnerRecord, StreamRecord
<1> HIDE DEF q
<1>2. Heads(Tail(q)) => Heads(q)
  BY <1>1, TailKinds
<1> QED
  BY <1>2 DEF q, Hush, Elsewhere


\* One turn of pop_frame.
LEMMA HushPopNext ==
  ASSUME NEW i, NEW low, Sound(i, Behind(Nothing, 0), low, 0), i.sendQ # <<>>
  PROVE  Hush(i, PopNext(i).inner)
<1> DEFINE s == Head(i.sendQ)
           r == i.streams[s]
           c == [i EXCEPT !.sendQ = Tail(@)]
           data == r.queue # <<>> /\ Head(r.queue).kind = "data"
<1>1. /\ s \in Streams /\ c.streams = i.streams /\ SameBooks(i, c)
      /\ c \in InnerRecord /\ i \in InnerRecord /\ IsStored(r)
  BY PopSendSound, SoundType
<1>2. /\ PopNext(i).inner =
           CASE data /\ DiscardsData(r) -> [FailSending(c, s) EXCEPT !.sendQ = Push(@, s)]
             [] data /\ ~DiscardsData(r) -> IF IsBlocked(r) THEN c ELSE PopData(c, s).inner
             [] ~data /\ r.queue # <<>> -> PopOther(c, s).inner
             [] r.queue = <<>> /\ IsScheduledReset(r.state) -> PopScheduledReset(c, s).inner
             [] OTHER -> Leave(c, s)
  BY DEF PopNext, NothingPopped, Popped, Leave
<1>3. Hush(i, c) /\ c.streams[s] = r
  BY <1>1, HushSame DEF SameBooks
<1> HIDE DEF c
<1>4. CASE data /\ DiscardsData(r)
  <2> DEFINE f == FailSending(c, s)
             k == [f EXCEPT !.sendQ = Push(@, s)]
  <2>1. PopNext(i).inner = k
    BY <1>2, <1>4
  <2>2. Hush(c, f) /\ f \in InnerRecord
    BY <1>1, HushFailSending DEF Hush
  <2> HIDE DEF f
  <2>3. k \in InnerRecord /\ k.streams = f.streams /\ k.peer = f.peer
        /\ k.maxStreamId = f.maxStreamId
    <3> DEFINE q == f.sendQ
               p == Push(q, s)
    <3>1. q \in Seq(Streams)
      BY <2>2 DEF InnerRecord
    <3> HIDE DEF q
    <3>2. p \in Seq(Streams)
      BY <1>1, <3>1, PushQueue
    <3> HIDE DEF p
    <3>3. k = [f EXCEPT !.sendQ = p]
      BY DEF p, q
    <3> QED
      BY <2>2, <3>2, <3>3 DEF InnerRecord
  <2> HIDE DEF k
  <2>4. Hush(f, k)
    BY <2>3, HushSame
  <2> QED
    BY <1>3, <2>1, <2>2, <2>4, HushTrans
<1>5. CASE data /\ ~DiscardsData(r) /\ IsBlocked(r)
  BY <1>2, <1>3, <1>5
<1>6. CASE data /\ ~DiscardsData(r) /\ ~IsBlocked(r)
  <2> DEFINE len == DataLength(r)
             j == Charged(c, s, len)
  <2>1. PopNext(i).inner = Requeue(j, s)
    <3>1. PopNext(i).inner = PopData(c, s).inner
      BY <1>2, <1>6
    <3> QED
      BY <1>3, <3>1 DEF PopData, Charged, Popped
  <2>2. len \in Nat
    <3> DEFINE none == Behind(Nothing, 0)
    <3>1. none[s] = 0 /\ 0 \in Nat
      BY <1>1 DEF Behind
    <3> HIDE DEF none, s
    <3>2. StoredSound(r, none[s], low[s], IsServer(i))
      BY <1>1, StoredAt DEF none
    <3> HIDE DEF r
    <3> QED
      BY <1>6, <3>1, <3>2, LengthFits
  <2> HIDE DEF len
  <2>3. Bills(c, j, s, len)
    BY <1>1, <1>3, <1>6, <2>2, ChargedFields
  <2> HIDE DEF j
  <2>4. j.streams[s].queue = Tail(c.streams[s].queue) /\ c.streams[s].queue # <<>>
    <3>1. r \in StreamRecord /\ len \in Int
      BY SMTT(60), <1>1, <2>2 DEF InnerRecord
    <3>2. j.streams[s] = Paid(r, len)
      BY <1>3, <2>3 DEF Bills
    <3> HIDE DEF r
    <3>3. Paid(r, len).queue = Tail(r.queue)
      BY <1>6, <3>1, PaidFields
    <3> QED
      BY <1>3, <1>6, <3>2, <3>3
  <2>5. Hush(c, j) /\ j \in InnerRecord
    <3>1. Elsewhere(c, j, s) /\ j \in InnerRecord /\ j.peer = c.peer
          /\ j.maxStreamId = c.maxStreamId
      BY <2>3 DEF Bills, Elsewhere
    <3> QED
      BY <1>1, <2>4, <3>1, HushTail
  <2>6. Hush(j, Requeue(j, s))
    BY <1>1, <2>5, HushRequeue
  <2> QED
    BY <1>3, <2>1, <2>5, <2>6, HushTrans
<1>7. CASE ~data /\ r.queue # <<>>
  <2> DEFINE q == [r EXCEPT !.queue = Tail(@)]
             j == [c EXCEPT !.streams[s].queue = Tail(@)]
  <2>1. PopNext(i).inner = Requeue(j, s)
    <3>1. PopNext(i).inner = PopOther(c, s).inner
      BY <1>2, <1>7
    <3> QED
      BY <3>1 DEF PopOther, Popped
  <2>2. r \in StreamRecord
    BY <1>1 DEF InnerRecord
  <2>3. q \in StreamRecord /\ q.queue = Tail(r.queue)
    <3> HIDE DEF r
    <3>1. r.queue \in Seq(Frames) /\ Tail(r.queue) \in Seq(Frames)
      BY <1>7, <2>2 DEF StreamRecord
    <3> QED
      BY <2>2, <3>1 DEF StreamRecord
  <2>4. j = With(c, s, q)
    BY <1>1, <1>3 DEF With, InnerRecord
  <2> HIDE DEF j, q
  <2>5. j \in InnerRecord /\ j.streams[s] = q /\ Elsewhere(c, j, s) /\ SameBooks(c, j)
    BY <1>1, <2>3, <2>4, WithFields
  <2>6. Hush(c, j)
    <3>1. j.peer = c.peer /\ j.maxStreamId = c.maxStreamId
      BY <2>5 DEF SameBooks
    <3>2. c.streams[s].queue # <<>> /\ j.streams[s].queue = Tail(c.streams[s].queue)
      BY <1>3, <1>7, <2>3, <2>5
    <3> QED
      BY <1>1, <2>5, <3>1, <3>2, HushTail
  <2>7. Hush(j, Requeue(j, s))
    BY <1>1, <2>5, HushRequeue
  <2> QED
    BY <1>3, <2>1, <2>6, <2>7, HushTrans
<1>8. CASE r.queue = <<>> /\ IsScheduledReset(r.state)
  <2> DEFINE st == SetReset("LocalReset")
             j == [c EXCEPT !.streams[s].state = st]
  <2>1. PopNext(i).inner = Requeue(j, s)
    <3>1. PopNext(i).inner = PopScheduledReset(c, s).inner
      BY <1>2, <1>8
    <3> QED
      BY <3>1 DEF PopScheduledReset, Popped
  <2>2. st \in States
    <3>1. r.state \in States
      BY <1>1 DEF InnerRecord, StreamRecord
    <3> QED
      BY <3>1, EndingSpeech DEF Errors, LocalErrors, Calmer, Firmer
  <2> HIDE DEF st
  <2>3. Hush(c, j) /\ j \in InnerRecord
    BY <1>1, <2>2, HushState DEF Hush
  <2> HIDE DEF j
  <2>4. Hush(j, Requeue(j, s))
    BY <1>1, <2>3, HushRequeue
  <2> QED
    BY <1>3, <2>1, <2>3, <2>4, HushTrans
<1>9. CASE r.queue = <<>> /\ ~IsScheduledReset(r.state)
  <2>1. PopNext(i).inner = Leave(c, s)
    BY <1>2, <1>9
  <2>2. Hush(c, Leave(c, s))
    BY <1>1, HushLeave
  <2> QED
    BY <1>3, <2>1, <2>2, HushTrans
<1> QED
  BY <1>4, <1>5, <1>6, <1>7, <1>8, <1>9

\* pop_frame
LEMMA HushPopFrame ==
  ASSUME NEW i, NEW low, Sound(i, Behind(Nothing, 0), low, 0), i.inFlight = Nothing
  PROVE  Hush(i, PopFrame(i).inner) /\ Result(i, PopFrame(i), low)
<1> DEFINE S == {p \in PopResult : Result(i, p, low) /\ Hush(i, p.inner)}
           step == [k \in Nat |-> [popped \in PopResult |-> PopTurn(popped)]]
           x == NothingPopped(i)
<1>1. x \in S
  <2>1. x.inner = i /\ i \in InnerRecord
    BY SoundType DEF NothingPopped, Popped
  <2>2. Result(i, x, low)
    BY NothingResult
  <2> HIDE DEF x
  <2> QED
    BY <2>1, <2>2, HushRefl DEF Result
<1>2. ASSUME NEW k \in 1 .. MaxTurns, NEW p \in S
      PROVE  step[k][p] \in S
  <2>1. step[k][p] = PopTurn(p)
    OBVIOUS
  <2>2. CASE p.stream # Nothing \/ p.inner.sendQ = <<>>
    BY <2>1, <2>2 DEF PopTurn
  <2>3. CASE p.stream = Nothing /\ p.inner.sendQ # <<>>
    <3>1. PopTurn(p) = PopNext(p.inner)
      BY <2>3 DEF PopTurn
    <3>2. /\ Sound(p.inner, Behind(Nothing, 0), low, 0) /\ p.inner.inFlight = Nothing
          /\ p.inner.peer = i.peer /\ p.inner.initWindow = i.initWindow
      BY <2>3 DEF Result
    <3>3. Result(p.inner, PopNext(p.inner), low) /\ Hush(p.inner, PopNext(p.inner).inner)
      BY <2>3, <3>2, PopNextSound, HushPopNext
    <3>4. Result(i, PopNext(p.inner), low)
      BY <3>2, <3>3 DEF Result
    <3>5. Hush(i, PopNext(p.inner).inner)
      BY <3>3, HushTrans
    <3> QED
      BY <2>1, <3>1, <3>4, <3>5 DEF Result
  <2> QED
    BY <2>2, <2>3
<1>3. MaxTurns \in Nat
  BY SendAssumption DEF MaxTurns
<1>4. PopFrame(i) = Loop(step, x, MaxTurns)
  BY DEF PopFrame
<1> HIDE DEF step, S, x
<1>5. Loop(step, x, MaxTurns) \in S
  BY <1>1, <1>2, <1>3, LoopStays
<1> QED
  BY <1>4, <1>5 DEF S

\* pop_pending_open
LEMMA HushPopPendingOpen ==
  ASSUME NEW i \in InnerRecord
  PROVE  Hush(i, PopPendingOpen(i))
<1>1. CASE i.openQ = <<>> \/ i.numStreams >= i.maxStreams
  BY <1>1, HushRefl DEF PopPendingOpen
<1>2. CASE ~(i.openQ = <<>> \/ i.numStreams >= i.maxStreams)
  <2> DEFINE s == Head(i.openQ)
             d == [i EXCEPT !.openQ = Tail(@), !.numStreams = @ + 1,
                            !.streams[s].counted = TRUE, !.sendQ = PushFront(@, s)]
  <2>1. s \in Streams /\ i.openQ # <<>>
    BY <1>2, TailQueue DEF InnerRecord
  <2>2. PopPendingOpen(i) = TryAssign(d, s)
    BY <1>2 DEF PopPendingOpen
  <2>3. LaunchedFrom(i, d, s)
    BY <2>1, LaunchFields
  <2> HIDE DEF d, s
  <2>4. Hush(i, d) /\ d \in InnerRecord
    <3>1. \A t \in Streams : d.streams[t].queue = i.streams[t].queue
      BY <2>3 DEF LaunchedFrom
    <3> QED
      BY <2>3, <3>1 DEF LaunchedFrom, Hush
  <2>5. Hush(d, TryAssign(d, s))
    BY <2>1, <2>4, TryAssignQuiet, HushQuiet
  <2> QED
    BY <2>2, <2>4, <2>5, HushTrans
<1> QED
  BY <1>1, <1>2

\* push_back_frame
LEMMA HushPushBack ==
  ASSUME NEW i \in InnerRecord, NEW s \in Streams, NEW rest \in 0 .. MaxWindow, NEW eos \in BOOLEAN
  PROVE  Hush(i, PushBackFrame(i, s, rest, eos))
<1> DEFINE f == Frame("data", rest, eos)
           k == PushBackFrame(i, s, rest, eos)
           r == i.streams[s]
           p == r.queue
           r2 == k.streams[s]
<1>1. Returned(i, k, s, f) /\ r \in StreamRecord /\ p \in Seq(Frames)
  BY ReturnedFields DEF InnerRecord, StreamRecord
<1>2. f.kind = "data" /\ f \in Frames
  BY <1>1 DEF Frame, Returned
<1>3. r2 = [r EXCEPT !.queue = <<f>> \o p]
  BY <1>1 DEF Returned
<1> HIDE DEF f, k, r2, r
<1>4. r2.queue = <<f>> \o p
  BY <1>1, <1>3 DEF StreamRecord
<1> HIDE DEF p
<1>5. Heads(r2.queue) => Heads(p)
  BY <1>1, <1>2, <1>4, FrontKinds
<1>6. \A t \in Streams : Heads(k.streams[t].queue) => Heads(i.streams[t].queue)
  BY <1>1, <1>5 DEF Returned, r2, p, r
<1> QED
  BY <1>1, <1>6 DEF Returned, Hush, k


----------------------------------------------------------------------------
(* Actions that queue no HEADERS.                                          *)

LEMMA InnerType ==
  ASSUME IInv
  PROVE  inner \in InnerRecord
BY InvFacts, SoundType DEF Whole

LEMMA AcceptHush ==
  ASSUME IInv, NEW s \in Streams, Accept(s)
  PROVE  Hush(inner, inner')
<1>1. inner' = [inner EXCEPT !.streams[s].handle = "held"] /\ "held" \in Handle
  BY DEF Accept, Handle
<1>2. Quiet(inner, inner')
  BY <1>1, InnerType, HandleQuiet
<1> QED
  BY <1>2, HushQuiet

LEMMA ReserveHush ==
  ASSUME IInv, NEW s \in Streams, NEW capacity \in Reservations, Reserve(s, capacity)
  PROVE  Hush(inner, inner')
<1>1. inner' = ReserveCapacity(inner, s, capacity) /\ capacity \in Int
  BY SendAssumption, MaxWindowAssumption DEF Reserve
<1>2. Quiet(inner, inner')
  BY <1>1, InnerType, ReserveQuiet
<1> QED
  BY <1>2, HushQuiet

LEMMA SendInformationalHush ==
  ASSUME IInv, NEW s \in Streams, SendInformational(s)
  PROVE  Hush(inner, inner')
<1> DEFINE f == Frame("informational", 0, FALSE)
           j == QueueFrame(inner, s, f)
<1>1. inner' = Transition(inner, j, s)
  BY DEF SendInformational
<1>2. f \in Frames /\ f.kind # "headers"
  BY FrameIn, WindowType DEF Kinds, Frame
<1> HIDE DEF f
<1>3. Around(inner, j, s) /\ j.streams[s] = Queued(inner.streams[s], f)
  BY <1>2, InnerType, QueueFrameAround
<1> HIDE DEF j
<1>4. j.streams[s].queue = Append(inner.streams[s].queue, f)
  <2>1. inner.streams[s] \in StreamRecord
    BY InnerType, OwnFacts
  <2> QED
    BY <1>3, <2>1 DEF Queued, StreamRecord
<1>5. Hush(inner, j)
  BY <1>2, <1>3, <1>4, InnerType, HushAppend
<1> QED
  BY <1>1, <1>5, HushThrough

LEMMA SendDataFrameHush ==
  ASSUME IInv, NEW s \in Streams, NEW sz \in Sizes, NEW eos \in BOOLEAN,
         SendDataFrame(s, sz, eos)
  PROVE  Hush(inner, inner')
<1> DEFINE f == Frame("data", sz, eos)
           j == SendChunk(inner, s, sz, eos)
<1>1. inner' = Transition(inner, j, s) /\ sz \in 0 .. MaxWindow
  BY SendAssumption DEF SendDataFrame
<1>2. Around(inner, j, s) /\ j.streams[s].queue = Append(inner.streams[s].queue, f)
  BY <1>1, InnerType, SendChunkAround
<1> HIDE DEF j
<1>3. f \in Frames /\ f.kind # "headers"
  BY <1>1, FrameIn DEF Kinds, Frame
<1> HIDE DEF f
<1>4. Hush(inner, j)
  BY <1>2, <1>3, InnerType, HushAppend
<1> QED
  BY <1>1, <1>4, HushThrough

LEMMA SendTrailersFrameHush ==
  ASSUME IInv, NEW s \in Streams, SendTrailersFrame(s)
  PROVE  Hush(inner, inner')
<1> DEFINE f == Frame("trailers", 0, TRUE)
           j == SendTrailers(inner, s)
<1>1. inner' = Transition(inner, j, s)
  BY DEF SendTrailersFrame
<1>2. Around(inner, j, s) /\ j.streams[s].queue = Append(inner.streams[s].queue, f)
  BY InnerType, SendTrailersAround
<1> HIDE DEF j
<1>3. f \in Frames /\ f.kind # "headers"
  BY FrameIn, WindowType DEF Kinds, Frame
<1> HIDE DEF f
<1>4. Hush(inner, j)
  BY <1>2, <1>3, InnerType, HushAppend
<1> QED
  BY <1>1, <1>4, HushThrough

LEMMA ResetHush ==
  ASSUME IInv, NEW s \in Streams, UserReset(s) \/ RecvStreamError(s)
  PROVE  Hush(inner, inner')
<1> DEFINE j == ResetStream(inner, s)
<1>1. inner' = Transition(inner, j, s)
  BY DEF UserReset, RecvStreamError
<1>2. Hush(inner, j)
  BY InnerType, ResetStreamAround, HushResets
<1> HIDE DEF j
<1> QED
  BY <1>1, <1>2, HushThrough

LEMMA DropStreamRefHush ==
  ASSUME IInv, NEW s \in Streams, DropStreamRef(s)
  PROVE  Hush(inner, inner')
<1> DEFINE d == [inner EXCEPT !.streams[s].handle = "dropped"]
           j == MaybeCancel(d, s)
<1>1. inner' = Transition(inner, j, s) /\ "dropped" \in Handle
  BY DEF DropStreamRef, Handle
<1>2. Quiet(inner, d) /\ d \in InnerRecord
  BY <1>1, InnerType, HandleQuiet
<1> HIDE DEF d
<1>3. Hush(d, j)
  BY <1>2, MaybeCancelAround, HushSchedules
<1>4. Hush(inner, j)
  BY <1>2, <1>3, HushQuiet, HushTrans
<1> HIDE DEF j
<1> QED
  BY <1>1, <1>4, HushThrough

LEMMA TurnHush ==
  ASSUME IInv, NEW s \in Streams, NEW eos \in BOOLEAN, RecvResponse(s, eos) \/ RecvEndStream(s)
  PROVE  Hush(inner, inner')
<1> DEFINE st == inner.streams[s].state
           st2 == inner'.streams[s].state
<1>1. st \in States
  BY InnerType, OwnFacts
<1>2. PICK st3 \in States : inner' = Transition(inner, [inner EXCEPT !.streams[s].state = st3], s)
  <2>1. CASE RecvResponse(s, eos)
    <3>1. RecvOpen(st, eos, FALSE) \in States
      BY <1>1, ReceivingSpeech DEF Calmer, Firmer
    <3> QED
      BY <2>1, <3>1 DEF RecvResponse
  <2>2. CASE RecvEndStream(s)
    <3>1. RecvClose(st) \in States
      BY <1>1, <2>2, ReceivingSpeech DEF Calmer, Firmer, RecvEndStream
    <3>2. [inner EXCEPT !.streams[s].state = RecvClose(@)]
            = [inner EXCEPT !.streams[s].state = RecvClose(st)]
      BY InnerType DEF InnerRecord
    <3> QED
      BY <2>2, <3>1, <3>2 DEF RecvEndStream
  <2> QED
    BY <2>1, <2>2
<1> DEFINE j == [inner EXCEPT !.streams[s].state = st3]
<1>3. Hush(inner, j) /\ inner' = Transition(inner, j, s)
  BY <1>2, InnerType, HushState
<1> HIDE DEF j
<1> QED
  BY <1>3, HushThrough

LEMMA RecvRstStreamHush ==
  ASSUME IInv, NEW s \in Streams, RecvRstStream(s)
  PROVE  Hush(inner, inner')
<1> DEFINE st == inner.streams[s].state
           st2 == RecvReset(st, Contains(inner.sendQ, s))
           d == [inner EXCEPT !.streams[s].state = st2]
           j == FailSending(d, s)
<1>1. inner' = Transition(inner, FailSending([inner EXCEPT
                     !.streams[s].state = RecvReset(@, Contains(inner.sendQ, s))], s), s)
  BY DEF RecvRstStream
<1>2. [inner EXCEPT !.streams[s].state = RecvReset(@, Contains(inner.sendQ, s))] = d
  BY InnerType DEF InnerRecord
<1>3. st2 \in States
  <2>1. Contains(inner.sendQ, s) \in BOOLEAN
    BY DEF Contains
  <2>2. "Io" \in Errors
    BY DEF Errors, LocalErrors
  <2>3. st \in States
    BY InnerType, OwnFacts
  <2> QED
    BY <2>1, <2>2, <2>3, EndingSpeech DEF Calmer, Firmer
<1> HIDE DEF st2
<1>4. Hush(inner, d)
  BY <1>3, InnerType, HushState
<1>5. inner' = Transition(inner, j, s)
  BY <1>1, <1>2
<1> HIDE DEF d
<1>6. Hush(d, j)
  BY <1>4, HushFailSending DEF Hush
<1> HIDE DEF j
<1> QED
  BY <1>4, <1>5, <1>6, HushTrans, HushThrough

LEMMA RecvStreamWindowUpdateHush ==
  ASSUME IInv, NEW s \in Streams, NEW inc \in Increments, RecvStreamWindowUpdate(s, inc)
  PROVE  Hush(inner, inner')
<1> DEFINE update == StreamWindowUpdate(inner, s, inc)
           u == update.inner
<1>1. inner' = IF update.ok THEN u ELSE EnqueueResetExpiration(u, s)
  BY DEF RecvStreamWindowUpdate
<1>2. /\ update \in UpdateResult
      /\ update.ok => Quiet(inner, u)
      /\ ~update.ok => Resets3(inner, u, s)
  <2>1. inc \in Nat
    BY SendAssumption, MaxWindowAssumption
  <2> QED
    BY <2>1, InnerType, WindowUpdateAround
<1> HIDE DEF update
<1>3. u \in InnerRecord /\ Hush(inner, u)
  BY <1>2, InnerType, HushQuiet, HushResets DEF UpdateResult
<1>4. CASE update.ok
  BY <1>1, <1>3, <1>4
<1>5. CASE ~update.ok
  <2> HIDE DEF u
  <2>1. Quiet(u, inner')
    BY <1>1, <1>3, <1>5, EnqueueResetQuiet
  <2> QED
    BY <1>3, <2>1, HushQuiet, HushTrans
<1> QED
  BY <1>4, <1>5


----------------------------------------------------------------------------
(* ... the connection's own steps.                                         *)

LEMMA PopHush ==
  ASSUME IInv, codec = NoFrame
  PROVE  LET p == PopFrame(PopPendingOpen(inner))
         IN  /\ Hush(inner, p.inner) /\ p.stream \in Streams \cup {Nothing}
             /\ p.rest \in 0 .. MaxWindow /\ p.eos \in BOOLEAN
             /\ p.rest > 0 => p.stream \in Streams
<1> DEFINE none == Behind(Nothing, 0)
           i == PopPendingOpen(inner)
           p == PopFrame(i)
<1>1. codec.rest = 0 /\ inner.inFlight = Nothing
  <2>1. NoFrame \notin HeldFrames
    BY StreamsType DEF HeldFrames, NoFrame, Nothing, Nobody
  <2> QED
    BY <2>1 DEF IInv, CodecSound, NoFrame
<1>2. Sound(inner, none, Low, 0)
  BY <1>1, NoRest DEF IInv, Whole
<1>3. Sound(i, none, Low, 0) /\ i.inFlight = Nothing
  BY <1>1, <1>2, PopPendingOpenSound
<1>4. Hush(inner, i)
  BY InnerType, HushPopPendingOpen
<1> HIDE DEF i
<1>5. Hush(i, p.inner) /\ Result(i, p, Low)
  BY <1>3, HushPopFrame
<1> HIDE DEF p
<1>6. Hush(inner, p.inner)
  BY <1>4, <1>5, HushTrans
<1>7. /\ p.stream \in Streams \cup {Nothing} /\ p.eos \in BOOLEAN
      /\ p.rest \in 0 .. MaxWindow /\ (p.stream = Nothing => p.rest = 0)
  BY <1>5 DEF Result, PopResult
<1> QED
  BY <1>6, <1>7 DEF p, i

\* A frame leaves the codec or enters it.
LEMMA HushFlight ==
  ASSUME NEW i \in InnerRecord, NEW flight \in Streams \cup {Nothing, Drop}
  PROVE  Hush(i, [i EXCEPT !.inFlight = flight])
<1> DEFINE j == [i EXCEPT !.inFlight = flight]
<1>1. j \in InnerRecord /\ j.streams = i.streams /\ j.peer = i.peer
      /\ j.maxStreamId = i.maxStreamId
  BY DEF InnerRecord
<1> HIDE DEF j
<1>2. Hush(i, j)
  BY <1>1, HushSame
<1> QED
  BY <1>2 DEF j

LEMMA BufferPendingHush ==
  ASSUME IInv, BufferPending
  PROVE  Hush(inner, inner')
<1> DEFINE p == PopFrame(PopPendingOpen(inner))
           chained == p.frame.kind = "data" /\ p.frame.sz >= ChainThreshold
<1>1. /\ codec = NoFrame
      /\ IF p.stream # Nothing /\ chained
           THEN inner' = [p.inner EXCEPT !.inFlight = p.stream]
           ELSE inner' = IF p.rest > 0 THEN PushBackFrame(p.inner, p.stream, p.rest, p.eos)
                                       ELSE p.inner
  BY DEF BufferPending
<1>2. /\ Hush(inner, p.inner) /\ p.stream \in Streams \cup {Nothing}
      /\ p.rest \in 0 .. MaxWindow /\ p.eos \in BOOLEAN
      /\ p.rest > 0 => p.stream \in Streams
  BY <1>1, PopHush
<1> HIDE DEF p, chained
<1>3. p.inner \in InnerRecord
  BY <1>2 DEF Hush
<1>4. CASE p.stream # Nothing /\ chained
  <2>1. inner' = [p.inner EXCEPT !.inFlight = p.stream]
    BY <1>1, <1>4
  <2>2. Hush(p.inner, inner')
    BY <1>2, <1>3, <2>1, HushFlight
  <2> QED
    BY <1>2, <2>2, HushTrans
<1>5. CASE ~(p.stream # Nothing /\ chained) /\ p.rest > 0
  <2>1. inner' = PushBackFrame(p.inner, p.stream, p.rest, p.eos) /\ p.stream \in Streams
    BY <1>1, <1>2, <1>5
  <2>2. Hush(p.inner, inner')
    BY <1>2, <1>3, <2>1, HushPushBack
  <2> QED
    BY <1>2, <2>2, HushTrans
<1>6. CASE ~(p.stream # Nothing /\ chained) /\ ~(p.rest > 0)
  BY <1>1, <1>2, <1>6
<1> QED
  BY <1>4, <1>5, <1>6

LEMMA ReclaimFrameHush ==
  ASSUME IInv, ReclaimFrame
  PROVE  Hush(inner, inner')
<1> DEFINE j == [inner EXCEPT !.inFlight = Nothing]
           s == codec.stream
           rest == codec.rest
           eos == codec.eos
           back == inner.inFlight # Drop /\ rest > 0
<1>1. codec \in HeldFrames
  BY DEF IInv, CodecSound, ReclaimFrame
<1>2. s \in Streams /\ rest \in 0 .. MaxWindow /\ eos \in BOOLEAN
  BY <1>1 DEF HeldFrames
<1>3. inner' = IF back THEN PushBackFrame(j, s, rest, eos) ELSE j
  BY DEF ReclaimFrame
<1>4. Hush(inner, j) /\ j \in InnerRecord
  BY InnerType, HushFlight DEF Hush
<1> HIDE DEF j, s, rest, eos
<1>5. CASE back
  <2>1. inner' = PushBackFrame(j, s, rest, eos)
    BY <1>3, <1>5
  <2>2. Hush(j, inner')
    BY <1>2, <1>4, <2>1, HushPushBack
  <2> QED
    BY <1>4, <2>2, HushTrans
<1>6. CASE ~back
  BY <1>3, <1>4, <1>6
<1> QED
  BY <1>5, <1>6

LEMMA ExpireResetHush ==
  ASSUME IInv, ExpireReset
  PROVE  Hush(inner, inner')
<1>1. inner' = Expire(inner) /\ inner.resetQ # <<>>
  BY DEF ExpireReset
<1> QED
  BY <1>1, InnerType, HushExpire

LEMMA QuietActionsHush ==
  ASSUME IInv,
         \/ \E inc \in Increments : RecvConnectionWindowUpdate(inc)
         \/ \E sz \in InitWindows : RecvSmallerInitialWindow(sz)
         \/ \E limit \in Limits : RecvMaxConcurrentStreams(limit)
  PROVE  Hush(inner, inner') /\ Unchanged
BY InnerType, RecvConnectionWindowUpdateQuiet, RecvSmallerInitialWindowQuiet,
   RecvMaxConcurrentStreamsQuiet, HushQuiet

\* A connection error: nothing is left to be opened.
LEMMA FailAllHush ==
  ASSUME NEW i \in InnerRecord, NEW order \in Orders, NEW e \in Errors
  PROVE  LET j == FailAll(i, order, e)
         IN  Hush(i, j) /\ (HeadsLinked(i) => NoHeads(j))
<1>1. Hush(i, FailAll(i, order, e))
  BY HushFailAfter DEF FailAll
<1> QED
  BY <1>1, FailAllMutes

LEMMA FailConnectionHush ==
  ASSUME NEW i \in InnerRecord, FailConnection(i)
  PROVE  Hush(i, inner') /\ (HeadsLinked(i) => NoHeads(inner'))
<1>1. "LocalGoAway" \in Errors
  BY DEF Errors, LocalErrors
<1> DEFINE e == "LocalGoAway"
<1>2. PICK order \in Orders : inner' = FailAll(i, order, e)
  BY DEF FailConnection
<1> HIDE DEF e
<1> QED
  BY <1>1, <1>2, FailAllHush DEF e

LEMMA RecvEofHush ==
  ASSUME IInv, NEW dropped \in BOOLEAN, RecvEof(dropped)
  PROVE  /\ Hush(inner, inner')
         /\ HeadsLinked(inner) => NoHeads(inner')
<1>1. "Io" \in Errors
  BY DEF Errors, LocalErrors
<1> DEFINE e == "Io"
<1>2. PICK order \in Orders :
        LET failed == ClearResets(FailAll(inner, order, e))
            accepted == IF dropped THEN ClearAccept(failed) ELSE failed
        IN  inner' = ClearOpen(ClearSend(ClearCapacity(accepted)))
  BY DEF RecvEof
<1> HIDE DEF e
<1> DEFINE j == FailAll(inner, order, e)
           f == ClearResets(j)
           a == IF dropped THEN ClearAccept(f) ELSE f
           c == ClearCapacity(a)
           d == ClearSend(c)
<1>3. Hush(inner, j) /\ j \in InnerRecord /\ (HeadsLinked(inner) => NoHeads(j))
  BY <1>1, InnerType, FailAllHush DEF e, Hush
<1> HIDE DEF j
<1>4. Hush(j, f) /\ f \in InnerRecord
  BY <1>3, HushClears DEF Hush
<1> HIDE DEF f
<1>5. Hush(f, a) /\ a \in InnerRecord
  BY <1>4, HushClearAccept, HushRefl DEF Hush
<1> HIDE DEF a
<1>6. Hush(a, c) /\ c \in InnerRecord
  BY <1>5, HushClears DEF Hush
<1> HIDE DEF c
<1>7. Hush(c, d) /\ d \in InnerRecord
  BY <1>6, HushClears DEF Hush
<1> HIDE DEF d
<1>8. Hush(d, ClearOpen(d)) /\ inner' = ClearOpen(d)
  BY <1>2, <1>7, HushClears DEF d, c, a, f, j
<1>9. Hush(j, inner')
  BY <1>4, <1>5, <1>6, <1>7, <1>8, HushTrans
<1> QED
  BY <1>3, <1>9, HushTrans, HushMute

\* A larger initial window, stream by stream.
LEMMA HushUpdateNext ==
  ASSUME NEW acc \in UpdateResult, NEW s \in Streams, NEW inc \in Nat
  PROVE  UpdateNext(acc, s, inc) \in UpdateResult /\ Hush(acc.inner, UpdateNext(acc, s, inc).inner)
<1> DEFINE i == acc.inner
           u == StreamWindowUpdate(i, s, inc)
<1>1. i \in InnerRecord
  BY DEF UpdateResult
<1>2. CASE ~(acc.ok /\ s \in Linked(i))
  BY <1>1, <1>2, HushRefl DEF UpdateNext
<1>3. CASE acc.ok /\ s \in Linked(i)
  <2>1. UpdateNext(acc, s, inc) = u
    BY <1>3 DEF UpdateNext
  <2> HIDE DEF i
  <2>2. /\ u \in UpdateResult
        /\ u.ok => Quiet(i, u.inner)
        /\ ~u.ok => Resets3(i, u.inner, s)
    BY <1>1, WindowUpdateAround
  <2> HIDE DEF u
  <2>3. Hush(i, u.inner)
    BY <1>1, <2>2, HushQuiet, HushResets
  <2> QED
    BY <2>1, <2>2, <2>3 DEF i
<1> QED
  BY <1>2, <1>3

LEMMA HushUpdateAll ==
  ASSUME NEW i \in InnerRecord, NEW order \in Orders, NEW inc \in Nat
  PROVE  Hush(i, UpdateAll(i, order, inc).inner)
<1> DEFINE S == {acc \in UpdateResult : Hush(i, acc.inner)}
           step == [k \in Nat |-> [acc \in UpdateResult |-> UpdateNext(acc, order[k], inc)]]
           x == [inner |-> i, ok |-> TRUE]
<1>1. x \in S
  BY HushRefl DEF UpdateResult
<1>2. ASSUME NEW k \in 1 .. NStreams, NEW acc \in S
      PROVE  step[k][acc] \in S
  <2>1. acc \in UpdateResult /\ Hush(i, acc.inner) /\ k \in Nat /\ order[k] \in Streams
    BY <1>2 DEF Orders, Streams
  <2>2. step[k][acc] = UpdateNext(acc, order[k], inc)
    BY <2>1
  <2>3. UpdateNext(acc, order[k], inc) \in UpdateResult
        /\ Hush(acc.inner, UpdateNext(acc, order[k], inc).inner)
    BY <2>1, HushUpdateNext
  <2> QED
    BY <2>1, <2>2, <2>3, HushTrans
<1>3. NStreams \in Nat
  BY SendAssumption
<1>4. UpdateAll(i, order, inc) = Loop(step, x, NStreams)
  BY DEF UpdateAll
<1> HIDE DEF step, S, x
<1>5. Loop(step, x, NStreams) \in S
  BY <1>1, <1>2, <1>3, LoopStays
<1> QED
  BY <1>4, <1>5 DEF S

LEMMA RecvLargerInitialWindowHush ==
  ASSUME IInv, NEW sz \in InitWindows, RecvLargerInitialWindow(sz)
  PROVE  Hush(inner, inner')
<1> DEFINE j == [inner EXCEPT !.initWindow = sz]
           inc == sz - inner.initWindow
<1>1. sz \in Nat /\ inc \in Nat
  <2>1. sz \in Nat /\ inner.initWindow \in Nat /\ sz > inner.initWindow
    BY InnerType, SendAssumption, MaxWindowAssumption DEF RecvLargerInitialWindow, InnerRecord
  <2> QED
    BY <2>1
<1>2. Hush(inner, j) /\ j \in InnerRecord
  <2>1. j \in InnerRecord /\ j.streams = inner.streams /\ j.peer = inner.peer
        /\ j.maxStreamId = inner.maxStreamId
    BY <1>1, InnerType, SendAssumption DEF InnerRecord
  <2> HIDE DEF j
  <2> QED
    BY <2>1, InnerType, HushSame
<1>3. PICK order \in Orders :
        LET updated == UpdateAll(j, order, inc)
        IN  IF updated.ok THEN inner' = updated.inner ELSE FailConnection(updated.inner)
  BY DEF RecvLargerInitialWindow
<1> HIDE DEF j, inc
<1> DEFINE updated == UpdateAll(j, order, inc)
           u == updated.inner
<1>4. Hush(j, u)
  BY <1>1, <1>2, HushUpdateAll
<1>5. Hush(inner, u) /\ u \in InnerRecord
  BY <1>2, <1>4, HushTrans DEF Hush
<1>6. IF updated.ok THEN inner' = u ELSE FailConnection(u)
  BY <1>3
<1> HIDE DEF u, updated
<1>7. CASE updated.ok
  BY <1>5, <1>6, <1>7
<1>8. CASE ~updated.ok
  <2>1. Hush(u, inner')
    BY <1>5, <1>6, <1>8, FailConnectionHush
  <2> QED
    BY <1>5, <2>1, HushTrans
<1> QED
  BY <1>7, <1>8


----------------------------------------------------------------------------
(* The side of the connection stays, and nothing is written after the end. *)

LEMMA SendResponseStays ==
  ASSUME IInv, NEW s \in Streams, NEW eos \in BOOLEAN, SendResponse(s, eos)
  PROVE  inner'.peer = inner.peer /\ inner'.maxStreamId = inner.maxStreamId
<1> DEFINE j == SendHeaders(inner, s, eos)
           was == IsPendingReset(inner, s)
<1>1. IsServer(inner) /\ inner' = TransitionAfter(j, s, was)
  BY DEF SendResponse, IsServer, Transition
<1> HIDE DEF j, was
<1>2. Around(inner, j, s)
  BY <1>1, InnerType, SendHeadersAround DEF j
<1>3. j \in InnerRecord /\ j.peer = inner.peer /\ j.maxStreamId = inner.maxStreamId
  BY <1>2 DEF Around
<1>4. was \in BOOLEAN
  BY PendingResetType DEF was
<1>5. Hush(j, inner')
  BY <1>1, <1>3, <1>4, HushTransition
<1> QED
  BY <1>3, <1>5 DEF Hush

LEMMA RecvRequestStays ==
  ASSUME IInv, NEW s \in Streams, NEW eos \in BOOLEAN, NEW handle \in {"waiting", "dropped"},
         RecvRequest(s, eos, handle)
  PROVE  inner'.peer = inner.peer
<1> DEFINE st == RecvOpen(Idle, eos, FALSE)
           yes == TRUE
           opened == [inner EXCEPT !.streams[s] = Requested(handle, inner.initWindow, st),
                                   !.numStreams = @ + 1]
           reset == ResetStream(opened, s)
           headed == SendHeaders(opened, s, yes)
           scheduled == ScheduleImplicitReset(headed, s, "PROTOCOL_ERROR")
           refused == EnqueueResetExpiration(scheduled, s)
           was == IsPendingReset(opened, s)
<1>1. NewStream("linked", handle, inner.initWindow).state = Idle
  BY DEF NewStream
<1>2. /\ inner.peer = "server" /\ inner.streams[s].place = "new"
      /\ \/ inner' = opened
         \/ inner' = TransitionAfter(reset, s, was)
         \/ inner' = TransitionAfter(refused, s, was)
  BY <1>1 DEF RecvRequest, IsNext, Requested, Transition
<1>3. /\ handle \in Handle /\ IsServer(inner) /\ was \in BOOLEAN
      /\ "PROTOCOL_ERROR" \in Reasons /\ yes \in BOOLEAN
  BY <1>2, PendingResetType DEF Handle, IsServer, Reasons
<1>4. IsServer(opened) /\ opened \in InnerRecord
  <2>1. Whole(opened, codec.rest, Low) /\ IsServer(opened)
    BY <1>2, <1>3, RequestOpens
  <2> HIDE DEF opened
  <2> QED
    BY <2>1, SoundType DEF Whole
<1> HIDE DEF opened, yes, was
<1>5. CASE inner' = opened
  BY <1>2, <1>4, <1>5 DEF IsServer
<1>6. CASE inner' = TransitionAfter(reset, s, was)
  <2>1. Hush(opened, reset) /\ reset \in InnerRecord
    BY <1>4, ResetStreamAround, HushResets DEF Hush
  <2> HIDE DEF reset
  <2>2. Hush(reset, inner')
    BY <1>3, <1>6, <2>1, HushTransition
  <2> QED
    BY <1>2, <1>4, <2>1, <2>2 DEF Hush, IsServer
<1>7. CASE inner' = TransitionAfter(refused, s, was)
  <2>1. headed \in InnerRecord /\ headed.peer = opened.peer
    BY <1>3, <1>4, SendHeadersAround DEF Around
  <2> HIDE DEF headed
  <2>2. Hush(headed, scheduled) /\ scheduled \in InnerRecord
    BY <1>3, <2>1, ScheduleImplicitResetAround, HushSchedules DEF Hush
  <2> HIDE DEF scheduled
  <2>3. Hush(scheduled, refused) /\ refused \in InnerRecord
    BY <2>2, EnqueueResetQuiet, HushQuiet DEF Hush
  <2> HIDE DEF refused
  <2>4. Hush(refused, inner')
    BY <1>3, <1>7, <2>3, HushTransition
  <2> QED
    BY <1>2, <1>4, <2>1, <2>2, <2>3, <2>4 DEF Hush, IsServer
<1> QED
  BY <1>2, <1>5, <1>6, <1>7

LEMMA RecvGoAwayStays ==
  ASSUME IInv, NEW goodbye \in LastStreams, RecvGoAway(goodbye)
  PROVE  inner'.peer = inner.peer
<1>1. "RemoteGoAway" \in Errors /\ goodbye \in Nat
  BY SendAssumption DEF Errors, RemoteErrors
<1> DEFINE e == "RemoteGoAway"
<1>2. PICK order \in Orders :
        inner' = [IF inner.peer = "client" THEN FailAfter(inner, order, goodbye, e) ELSE inner
                    EXCEPT !.maxStreamId = goodbye]
  BY DEF RecvGoAway
<1> HIDE DEF e
<1> DEFINE f == FailAfter(inner, order, goodbye, e)
           j == IF inner.peer = "client" THEN f ELSE inner
<1>3. Hush(inner, f)
  BY <1>1, InnerType, HushFailAfter DEF e
<1> HIDE DEF f
<1>4. j.peer = inner.peer /\ j \in InnerRecord
  BY <1>3, InnerType DEF Hush
<1>5. inner' = [j EXCEPT !.maxStreamId = goodbye]
  BY <1>2 DEF f
<1> HIDE DEF j
<1>6. inner'.peer = j.peer
  BY <1>4, <1>5 DEF InnerRecord
<1> QED
  BY <1>4, <1>6

\* Steps that queue no HEADERS, at whatever time.
Murmur ==
  \/ \E s \in Streams :
       \/ \E sz \in Sizes, eos \in BOOLEAN : SendDataFrame(s, sz, eos)
       \/ \E capacity \in Reservations : Reserve(s, capacity)
       \/ Accept(s) \/ SendInformational(s) \/ SendTrailersFrame(s)
       \/ UserReset(s) \/ DropStreamRef(s)
  \/ Write \/ ExpireReset
  \/ \E dropped \in BOOLEAN : RecvEof(dropped)

LEMMA MurmurHush ==
  ASSUME IInv, Murmur
  PROVE  Hush(inner, inner')
<1>1. ASSUME NEW s \in Streams,
             \/ \E sz \in Sizes, eos \in BOOLEAN : SendDataFrame(s, sz, eos)
             \/ \E capacity \in Reservations : Reserve(s, capacity)
             \/ Accept(s) \/ SendInformational(s) \/ SendTrailersFrame(s)
             \/ UserReset(s) \/ DropStreamRef(s)
      PROVE  Hush(inner, inner')
  BY <1>1, SendDataFrameHush, ReserveHush, AcceptHush, SendInformationalHush,
     SendTrailersFrameHush, ResetHush, DropStreamRefHush
<1>2. CASE Write
  BY <1>2, BufferPendingHush, ReclaimFrameHush DEF Write
<1>3. CASE ExpireReset
  BY <1>3, ExpireResetHush
<1>4. CASE \E dropped \in BOOLEAN : RecvEof(dropped)
  BY <1>4, RecvEofHush
<1> QED
  BY <1>1, <1>2, <1>3, <1>4 DEF Murmur

\* Frames of the peer and their failures that queue no HEADERS.
Listens ==
  \/ \E s \in Streams :
       \/ \E eos \in BOOLEAN : RecvResponse(s, eos)
       \/ \E inc \in Increments : RecvStreamWindowUpdate(s, inc)
       \/ RecvEndStream(s) \/ RecvStreamError(s) \/ RecvRstStream(s)
  \/ ConnectionError
  \/ \E inc \in Increments : RecvConnectionWindowUpdate(inc)
  \/ \E sz \in InitWindows : RecvSmallerInitialWindow(sz) \/ RecvLargerInitialWindow(sz)
  \/ \E limit \in Limits : RecvMaxConcurrentStreams(limit)

LEMMA ListensHush ==
  ASSUME IInv, Listens
  PROVE  Hush(inner, inner')
<1>1. ASSUME NEW s \in Streams,
             \/ \E eos \in BOOLEAN : RecvResponse(s, eos)
             \/ \E inc \in Increments : RecvStreamWindowUpdate(s, inc)
             \/ RecvEndStream(s) \/ RecvStreamError(s) \/ RecvRstStream(s)
      PROVE  Hush(inner, inner')
  <2>1. TRUE \in BOOLEAN
    OBVIOUS
  <2> QED
    BY <1>1, <2>1, TurnHush, RecvStreamWindowUpdateHush, ResetHush, RecvRstStreamHush
<1>2. CASE ConnectionError
  BY <1>2, InnerType, FailConnectionHush DEF ConnectionError
<1>3. CASE \E sz \in InitWindows : RecvLargerInitialWindow(sz)
  BY <1>3, RecvLargerInitialWindowHush
<1>4. CASE \/ \E inc \in Increments : RecvConnectionWindowUpdate(inc)
           \/ \E sz \in InitWindows : RecvSmallerInitialWindow(sz)
           \/ \E limit \in Limits : RecvMaxConcurrentStreams(limit)
  BY <1>4, QuietActionsHush
<1> QED
  BY <1>1, <1>2, <1>3, <1>4 DEF Listens

\* Every step is one of these, or begins a message, or is a GOAWAY.
LEMMA Steps ==
  ASSUME Next
  PROVE  \/ Murmur \/ Listens
         \/ \E s \in Streams, eos \in BOOLEAN : SendRequest(s, eos) \/ SendResponse(s, eos)
         \/ \E s \in Streams, eos \in BOOLEAN, handle \in {"waiting", "dropped"} :
              RecvRequest(s, eos, handle)
         \/ \E last \in LastStreams : RecvGoAway(last)
<1>1. ASSUME NEW s \in Streams, User(s)
      PROVE  Murmur \/ \E eos \in BOOLEAN : SendRequest(s, eos) \/ SendResponse(s, eos)
  BY <1>1 DEF User, Murmur
<1>2. ASSUME NEW s \in Streams, Receive(s)
      PROVE  \/ Listens
             \/ \E eos \in BOOLEAN, handle \in {"waiting", "dropped"} : RecvRequest(s, eos, handle)
  BY <1>2 DEF Receive, Listens
<1> QED
  BY <1>1, <1>2 DEF Next, Murmur, Listens

\* The side of the connection never changes.
LEMMA PeerStays ==
  ASSUME IInv, [Next]_vars
  PROVE  inner'.peer = inner.peer
<1>1. CASE Murmur
  BY <1>1, MurmurHush DEF Hush
<1>2. CASE Listens
  BY <1>2, ListensHush DEF Hush
<1>3. ASSUME NEW s \in Streams, NEW eos \in BOOLEAN, SendRequest(s, eos)
      PROVE  inner'.peer = inner.peer
  BY <1>3, RequestFields DEF Creates
<1>4. ASSUME NEW s \in Streams, NEW eos \in BOOLEAN, SendResponse(s, eos)
      PROVE  inner'.peer = inner.peer
  BY <1>4, SendResponseStays
<1>5. ASSUME NEW s \in Streams, NEW eos \in BOOLEAN, NEW handle \in {"waiting", "dropped"},
             RecvRequest(s, eos, handle)
      PROVE  inner'.peer = inner.peer
  BY <1>5, RecvRequestStays
<1>6. ASSUME NEW last \in LastStreams, RecvGoAway(last)
      PROVE  inner'.peer = inner.peer
  BY <1>6, RecvGoAwayStays
<1>7. CASE UNCHANGED vars
  BY <1>7 DEF vars
<1> QED
  BY <1>1, <1>2, <1>3, <1>4, <1>5, <1>6, <1>7, Steps

\* Once the connection has failed it reads nothing: the peer's view stays,
\* and so does what its GOAWAY said; no request is made.
LEMMA AfterReading ==
  ASSUME IInv, [Next]_vars, ~Reading
  PROVE  /\ ~Reading' /\ wire' = wire /\ inner'.maxStreamId = inner.maxStreamId
         /\ inner.peer = "client" /\ NoHeads(inner) => NoHeads(inner')
<1>1. phase \in {"failed", "dropped"}
  BY DEF Reading, IInv, Phases
<1>2. CASE Murmur
  <2>1. wire' = wire
    BY <1>1, <1>2 DEF Murmur, Write, BufferPending, ReclaimFrame, SendDataFrame, Reserve,
       Accept, SendInformational, SendTrailersFrame, UserReset, DropStreamRef, ExpireReset,
       RecvEof, Unchanged
  <2>2. ~Reading'
    BY <1>1, <1>2 DEF Murmur, Write, BufferPending, ReclaimFrame, SendDataFrame, Reserve,
       Accept, SendInformational, SendTrailersFrame, UserReset, DropStreamRef, ExpireReset,
       RecvEof, Unchanged, Reading
  <2>3. Hush(inner, inner')
    BY <1>2, MurmurHush
  <2> QED
    BY <2>1, <2>2, <2>3, HushMute DEF Hush
<1>3. ~Listens
  BY DEF Listens, RecvResponse, RecvStreamWindowUpdate, RecvEndStream, RecvStreamError,
     RecvRstStream, Receives, ConnectionError, RecvConnectionWindowUpdate,
     RecvSmallerInitialWindow, RecvLargerInitialWindow, RecvMaxConcurrentStreams
<1>4. \A s, eos, handle : ~SendRequest(s, eos) /\ ~RecvRequest(s, eos, handle)
  BY <1>1 DEF SendRequest, RecvRequest
<1>5. \A last : ~RecvGoAway(last)
  BY DEF RecvGoAway
<1>6. ASSUME NEW s \in Streams, NEW eos \in BOOLEAN, SendResponse(s, eos)
      PROVE  /\ ~Reading' /\ wire' = wire /\ inner'.maxStreamId = inner.maxStreamId
             /\ inner.peer # "client"
  BY <1>6, SendResponseStays DEF SendResponse, Unchanged, Reading
<1>7. CASE UNCHANGED vars
  BY <1>7 DEF vars, Reading
<1> QED
  BY <1>2, <1>3, <1>4, <1>5, <1>6, <1>7, Steps


----------------------------------------------------------------------------
(* The invariant.                                                          *)

\* What the peer has seen of each stream is legal; while the connection
\* reads, what is queued continues it; and once it has failed, a client's
\* HEADERS are no longer queued.
TInv ==
  Speakers =>
    /\ wire \in [Streams -> Views]
    /\ \A s \in Streams : wire[s] = "unopened" => inner.maxStreamId < s
    /\ Reading => Talking(inner, wire, codec)
    /\ ~Reading /\ inner.peer = "client" => NoHeads(inner)

LEMMA InitTalks ==
  ASSUME Init, IInv
  PROVE  Talking(inner, wire, codec) /\ Reading
<1> DEFINE no == FALSE
           fresh == NewStream("new", "waiting", 0)
<1>1. /\ codec.rest = 0 /\ codec.eos = no /\ Reading
      /\ wire = [s \in Streams |-> "idle"]
      /\ inner.sendQ = <<>> /\ inner.openQ = <<>> /\ inner.numStreams = 0
      /\ inner.maxStreamId = NStreams /\ inner.streams = [s \in Streams |-> fresh]
  BY DEF Init, NoFrame, Reading
<1>2. /\ fresh.place = "new" /\ fresh.queue = <<>> /\ ~fresh.counted
  BY DEF NewStream
<1> HIDE DEF fresh
<1>3. NStreams \in Nat /\ 0 \in Nat /\ no \in BOOLEAN
  BY SendAssumption
<1> HIDE DEF no
<1>4. ASSUME NEW s \in Streams
      PROVE  Speaks(inner, wire, 0, no, NStreams, s) /\ Apart(inner, s)
  <2> DEFINE r == inner.streams[s]
             v == wire[s]
  <2>1. v = "idle" /\ r.place = "new" /\ r.queue = <<>> /\ ~r.counted
    BY <1>1, <1>2
  <2> HIDE DEF r, v
  <2>2. v \in Views /\ v # "unopened" /\ ~IsStored(r)
    BY <2>1 DEF Views, IsStored
  <2>3. Silent(r, v)
    BY <2>1, <2>2 DEF Silent
  <2>4. Speaks(inner, wire, 0, no, NStreams, s)
    BY <2>2, <2>3 DEF Speaks, Voice, r, v
  <2>5. Apart(inner, s)
    BY <1>1, EmptyQueue DEF Apart
  <2> QED
    BY <2>4, <2>5
<1>5. InOrder(inner, wire, 0)
  <2>1. \A s \in Streams : ~Contains(inner.openQ, s) /\ s # 0
    BY <1>1, EmptyQueue, StreamsType
  <2>2. Len(inner.openQ) = 0
    BY <1>1
  <2>3. \A s \in Streams : inner.streams[s].place = "new"
    BY <1>1, <1>2
  <2> QED
    BY <2>1, <2>2, <2>3 DEF InOrder
<1>6. Balanced(inner)
  <2> DEFINE f == [s \in Streams |-> Takes(inner.streams[s])]
  <2>1. \A k \in 1 .. NStreams : f[k] = 0
    BY <1>1, <1>2, StreamsType DEF Takes
  <2> HIDE DEF f
  <2>2. Total(f, NStreams) = 0
    BY <1>3, <2>1, TotalOfZeros
  <2> QED
    BY <1>1, <2>2 DEF Taken, Balanced, f
<1>7. Lawful(inner, wire, 0, no, NStreams)
  BY <1>3, <1>4, <1>5, <1>6, InnerType, LawfulFrom
<1>8. wire \in [Streams -> Views]
  BY <1>1 DEF Views
<1> QED
  BY <1>1, <1>7, <1>8 DEF Talking

\* A step after which the connection still reads.
LEMMA ReadingTalks ==
  ASSUME IInv, Talking(inner, wire, codec), Speakers, [Next]_vars, Reading, Reading'
  PROVE  Talking(inner', wire', codec')
<1> DEFINE T == Talking(inner', wire', codec')
<1>1. ASSUME NEW s \in Streams, User(s) PROVE T
  BY <1>1, SendRequestTalks, SendResponseTalks, SendDataFrameTalks, ReserveTalks, AcceptTalks,
     SendInformationalTalks, SendTrailersFrameTalks, UserResetTalks, DropStreamRefTalks DEF User
<1>2. ASSUME NEW s \in Streams, Receive(s) PROVE T
  BY <1>2, RecvRequestTalks, RecvResponseTalks, RecvStreamWindowUpdateTalks, RecvEndStreamTalks,
     RecvStreamErrorTalks, RecvRstStreamTalks DEF Receive
<1>3. ASSUME Write PROVE T
  BY <1>3, BufferPendingTalks, ReclaimFrameTalks DEF Write
<1>4. ASSUME ExpireReset PROVE T
  BY <1>4, ExpireTalks
<1>5. ASSUME ConnectionError PROVE T
  BY <1>5 DEF ConnectionError, FailConnection, Reading
<1>6. ASSUME NEW inc \in Increments, RecvConnectionWindowUpdate(inc) PROVE T
  BY <1>6, RecvConnectionWindowUpdateTalks
<1>7. ASSUME NEW sz \in InitWindows, RecvSmallerInitialWindow(sz) PROVE T
  BY <1>7, RecvSmallerInitialWindowTalks
<1>8. ASSUME NEW sz \in InitWindows, RecvLargerInitialWindow(sz) PROVE T
  BY <1>8, RecvLargerInitialWindowTalks
<1>9. ASSUME NEW limit \in Limits, RecvMaxConcurrentStreams(limit) PROVE T
  BY <1>9, RecvMaxConcurrentStreamsTalks
<1>10. ASSUME NEW last \in LastStreams, RecvGoAway(last) PROVE T
  BY <1>10, RecvGoAwayTalks
<1>11. ASSUME NEW dropped \in BOOLEAN, RecvEof(dropped) PROVE T
  BY <1>11 DEF RecvEof, Reading
<1>12. ASSUME UNCHANGED vars PROVE T
  BY <1>12 DEF vars
<1> HIDE DEF T
<1>13. T
  BY <1>1, <1>2, <1>3, <1>4, <1>5, <1>6, <1>7, <1>8, <1>9, <1>10, <1>11, <1>12 DEF Next
<1> QED
  BY <1>13 DEF T

\* The step by which it fails.
LEMMA LastReading ==
  ASSUME IInv, Talking(inner, wire, codec), [Next]_vars, Reading, ~Reading'
  PROVE  wire' = wire /\ inner'.maxStreamId = inner.maxStreamId /\ NoHeads(inner')
<1> DEFINE G == wire' = wire /\ inner'.maxStreamId = inner.maxStreamId /\ NoHeads(inner')
<1>1. inner \in InnerRecord /\ HeadsLinked(inner)
  <2>1. codec.eos \in BOOLEAN
    BY TalkTypes
  <2> DEFINE holder == HolderOf(inner, codec.rest)
  <2>2. Legal(inner, wire, holder, codec.eos, inner.maxStreamId, 0)
    BY DEF Talking, Lawful
  <2> HIDE DEF holder
  <2> QED
    BY <2>1, <2>2, InnerType, LegalHeadsLinked
<1>2. CASE ConnectionError
  BY <1>1, <1>2, FailConnectionHush DEF ConnectionError, FailConnection, Hush
<1>3. ASSUME NEW sz \in InitWindows, RecvLargerInitialWindow(sz) PROVE G
  <2> DEFINE u(order) == UpdateAll([inner EXCEPT !.initWindow = sz], order, sz - inner.initWindow)
  <2>1. PICK order \in Orders :
          IF u(order).ok THEN inner' = u(order).inner /\ Unchanged
                         ELSE FailConnection(u(order).inner)
    BY <1>3 DEF RecvLargerInitialWindow
  <2>2. ~Unchanged
    BY DEF Unchanged, Reading
  <2> DEFINE i == u(order).inner
  <2>3. FailConnection(i)
    BY <2>1, <2>2
  <2>4. Carries(i) /\ i \in InnerRecord
    BY <1>3, LargerWindowFrom DEF RecvLargerInitialWindow
  <2> HIDE DEF i, u
  <2>5. HeadsLinked(i)
    <3> DEFINE holder == HolderOf(i, codec.rest)
    <3>1. Legal(i, wire, holder, codec.eos, inner.maxStreamId, 0)
      BY <2>4 DEF Carries, Lawful
    <3> HIDE DEF holder
    <3> QED
      BY <3>1, TalkTypes, LegalHeadsLinked
  <2>6. Hush(i, inner') /\ NoHeads(inner')
    BY <2>3, <2>4, <2>5, FailConnectionHush
  <2> QED
    BY <2>3, <2>4, <2>6 DEF Hush, Carries, FailConnection
<1>4. ASSUME NEW dropped \in BOOLEAN, RecvEof(dropped) PROVE G
  BY <1>1, <1>4, RecvEofHush DEF RecvEof, Hush
<1>5. ~Unchanged /\ phase' # phase
  BY DEF Unchanged, Reading
<1>6. ASSUME NEW s \in Streams PROVE ~User(s) /\ ~Receive(s)
  BY <1>5 DEF User, Receive, SendRequest, SendResponse, SendDataFrame, Reserve, Accept,
     SendInformational, SendTrailersFrame, UserReset, DropStreamRef, RecvRequest, RecvResponse,
     RecvStreamWindowUpdate, RecvEndStream, RecvStreamError, RecvRstStream
<1>7. ~Write /\ ~ExpireReset
  BY <1>5 DEF Write, BufferPending, ReclaimFrame, ExpireReset
<1>8. \A x : /\ ~RecvConnectionWindowUpdate(x) /\ ~RecvSmallerInitialWindow(x)
             /\ ~RecvMaxConcurrentStreams(x) /\ ~RecvGoAway(x)
  BY <1>5 DEF RecvConnectionWindowUpdate, RecvSmallerInitialWindow, RecvMaxConcurrentStreams,
     RecvGoAway, Reading
<1>9. ASSUME UNCHANGED vars PROVE G
  BY <1>5, <1>9 DEF vars
<1>10. ASSUME ConnectionError PROVE G
  BY <1>2, <1>10
<1> HIDE DEF G
<1>11. G
  BY <1>3, <1>4, <1>6, <1>7, <1>8, <1>9, <1>10 DEF Next
<1> QED
  BY <1>11 DEF G

LEMMA TalkingViews ==
  ASSUME NEW i, NEW w, NEW c, Talking(i, w, c), c.eos \in BOOLEAN
  PROVE  w \in [Streams -> Views] /\ \A s \in Streams : w[s] = "unopened" => i.maxStreamId < s
<1> DEFINE holder == HolderOf(i, c.rest)
<1>1. Legal(i, w, holder, c.eos, i.maxStreamId, 0) /\ w \in [Streams -> Views]
  BY DEF Talking, Lawful
<1> HIDE DEF holder
<1> QED
  BY <1>1, ViewsOf

LEMMA CodecEos ==
  CodecSound => codec.eos \in BOOLEAN
<1>1. NoFrame.eos \in BOOLEAN
  BY DEF NoFrame
<1>2. ASSUME codec \in HeldFrames PROVE codec.eos \in BOOLEAN
  BY <1>2 DEF HeldFrames
<1> QED
  BY <1>1, <1>2 DEF CodecSound

\* Every step keeps the invariant.
LEMMA TalkStep ==
  ASSUME IInv, TInv, [Next]_vars
  PROVE  TInv'
<1>1. inner'.peer = inner.peer
  BY PeerStays
<1>2. codec.eos \in BOOLEAN /\ codec'.eos \in BOOLEAN
  <2>1. IInv'
    BY StepKeeps
  <2>2. CodecSound' => codec'.eos \in BOOLEAN
    <3>1. NoFrame.eos \in BOOLEAN
      BY DEF NoFrame
    <3>2. ASSUME codec' \in HeldFrames PROVE codec'.eos \in BOOLEAN
      BY <3>2 DEF HeldFrames
    <3> QED
      BY <3>1, <3>2 DEF CodecSound
  <2> QED
    BY <2>1, <2>2, CodecEos DEF IInv
<1>3. CASE ~Speakers
  BY <1>1, <1>3 DEF TInv, Speakers
<1>4. CASE Speakers /\ Reading /\ Reading'
  <2>1. Talking(inner', wire', codec')
    BY <1>4, ReadingTalks DEF TInv
  <2> QED
    BY <1>2, <1>4, <2>1, TalkingViews DEF TInv
<1>5. CASE Speakers /\ Reading /\ ~Reading'
  <2>1. wire' = wire /\ inner'.maxStreamId = inner.maxStreamId /\ NoHeads(inner')
    BY <1>5, LastReading DEF TInv
  <2> QED
    BY <1>5, <2>1 DEF TInv
<1>6. CASE Speakers /\ ~Reading
  BY <1>1, <1>6, AfterReading DEF TInv
<1> QED
  BY <1>3, <1>4, <1>5, <1>6

\* The invariant holds in every reachable state.
THEOREM WireInvariance == Spec => []TInv
<1>1. Init => TInv
  <2> SUFFICES ASSUME Init PROVE TInv
    OBVIOUS
  <2>1. IInv
    BY InitKeeps
  <2> QED
    BY <2>1, InitTalks, CodecEos, TalkingViews DEF TInv, IInv
<1>2. IInv /\ TInv /\ [Next]_vars => TInv'
  BY TalkStep
<1> QED
  BY <1>1, <1>2, Invariance, PTL DEF Spec


----------------------------------------------------------------------------
(* What the invariant says.                                                *)

\* Every frame the peer has seen of a stream was legal where it came, but
\* that of a stream its GOAWAY refused.  This holds at a client, and at a
\* server whose user sends no informational head after the response.
THEOREM FramesAreLegal == Spec => [](Speakers => WireLegal)
<1>1. TInv => (Speakers => WireLegal)
  <2> SUFFICES ASSUME TInv, Speakers PROVE WireLegal
    OBVIOUS
  <2>1. \A s \in Streams : wire[s] \in Views
    BY DEF TInv
  <2>2. \A s \in Streams : wire[s] # "illegal"
    BY <2>1 DEF Views
  <2> QED
    BY <2>2 DEF TInv, WireLegal
<1> QED
  BY <1>1, WireInvariance, PTL

\* What a client's streams say while the connection reads.
LEMMA ClientSpeaks ==
  ASSUME IInv, TInv, Reading, inner.peer = "client", NEW s \in Streams
  PROVE  /\ Speaks(inner, wire, codec.rest, codec.eos, inner.maxStreamId, s)
         /\ ~IsServer(inner) /\ inner \in InnerRecord
         /\ InOrder(inner, wire, 0) /\ Balanced(inner)
<1>1. Talking(inner, wire, codec)
  BY DEF TInv, Speakers
<1>2. ~IsServer(inner)
  BY DEF IsServer
<1> QED
  BY <1>1, <1>2, TalkTypes, VoiceHere

\* HEADERS that open a client's stream are queued only until a later stream
\* is opened.
THEOREM StreamsOpenInOrder == Spec => []OpensInOrder
<1>1. IInv /\ TInv => OpensInOrder
  <2> SUFFICES ASSUME IInv, TInv, inner.peer = "client", NEW s \in Streams, NEW t \in Streams,
                      s < t, wire[t] # "idle", wire[s] = "idle",
                      NEW f \in ToSet(inner.streams[s].queue)
               PROVE  f.kind # "headers"
    BY DEF OpensInOrder
  <2> DEFINE r == inner.streams[s]
             q == r.queue
  <2>1. q \in Seq(Frames)
    BY InnerType, OwnFacts
  <2>2. PICK k \in 1 .. Len(q) : f = q[k]
    BY <2>1 DEF ToSet
  <2>3. ~Heads(q)
    <3>1. CASE ~Reading
      BY <3>1 DEF TInv, Speakers, NoHeads
    <3>2. CASE Reading
      <4>1. /\ Speaks(inner, wire, codec.rest, codec.eos, inner.maxStreamId, s)
            /\ ~IsServer(inner) /\ InOrder(inner, wire, 0)
        BY <3>2, ClientSpeaks
      <4>2. ~Waiting(inner, s)
        <5>1. ~(t < s)
          BY DEF Streams
        <5> QED
          BY <4>1, <5>1 DEF InOrder, Waiting
      <4> HIDE DEF q
      <4>3. q = <<>> \/ (Heads(q) => Waiting(inner, s))
        BY <4>1 DEF Speaks, Voice, Silent, Opens, q
      <4> QED
        BY <4>2, <4>3, NoHeadsInNothing
    <3> QED
      BY <3>1, <3>2
  <2> QED
    BY <2>2, <2>3 DEF Heads
<1> QED
  BY <1>1, WireInvariance, Invariance, PTL

\* A sum of zeros and ones counts the ones.
LEMMA TotalCounts ==
  ASSUME NEW f, NEW n \in Nat, \A k \in 1 .. n : f[k] \in {0, 1}
  PROVE  Total(f, n) = Cardinality({k \in 1 .. n : f[k] = 1})
<1> DEFINE Ones(m) == {k \in 1 .. m : f[k] = 1}
           Good(m) == m <= n => IsFiniteSet(Ones(m)) /\ Total(f, m) = Cardinality(Ones(m))
           S == {m \in Nat : Good(m)}
<1>1. 0 \in S
  <2>1. Ones(0) = {}
    OBVIOUS
  <2> HIDE DEF Ones
  <2> QED
    BY <2>1, FS_EmptySet, TotalOfNone
<1>2. ASSUME NEW m \in Nat, m \in S PROVE m + 1 \in S
  <2> SUFFICES ASSUME m + 1 <= n
               PROVE  IsFiniteSet(Ones(m + 1)) /\ Total(f, m + 1) = Cardinality(Ones(m + 1))
    OBVIOUS
  <2>1. IsFiniteSet(Ones(m)) /\ Total(f, m) = Cardinality(Ones(m))
    BY <1>2
  <2>2. Summable(f, m + 1)
    BY DEF Summable
  <2>3. Total(f, m + 1) = Total(f, m) + f[m + 1]
    BY <2>2, TotalOfMore
  <2>4. f[m + 1] \in {0, 1} /\ m + 1 \notin Ones(m)
    OBVIOUS
  <2>5. Cardinality(Ones(m)) \in Nat
    BY <2>1, FS_CardinalityType
  <2>6. CASE f[m + 1] = 1
    <3>1. Ones(m + 1) = Ones(m) \cup {m + 1}
      <4>1. \A k : k \in 1 .. m + 1 <=> k \in 1 .. m \/ k = m + 1
        OBVIOUS
      <4> QED
        BY <2>6, <4>1
    <3> HIDE DEF Ones
    <3>2. /\ IsFiniteSet(Ones(m + 1))
          /\ Cardinality(Ones(m + 1)) = Cardinality(Ones(m)) + 1
      BY <2>1, <2>4, <3>1, FS_AddElement
    <3> QED
      BY <2>1, <2>3, <2>6, <3>2
  <2>7. CASE f[m + 1] = 0
    <3>1. Ones(m + 1) = Ones(m)
      <4>1. \A k : k \in 1 .. m + 1 <=> k \in 1 .. m \/ k = m + 1
        OBVIOUS
      <4> QED
        BY <2>7, <4>1
    <3> HIDE DEF Ones
    <3> QED
      BY <2>1, <2>3, <2>5, <2>7, <3>1
  <2> QED
    BY <2>4, <2>6, <2>7
<1> HIDE DEF S
<1>3. n \in S
  BY <1>1, <1>2, InductionOverNat
<1> QED
  BY <1>3 DEF S

\* The streams of the store that have a slot.
Slotted == {s \in Stored(inner) : inner.streams[s].counted}

LEMMA CountedTaken ==
  ASSUME IInv, TInv, Reading, inner.peer = "client"
  PROVE  IsFiniteSet(Slotted) /\ inner.numStreams = Cardinality(Slotted)
<1> DEFINE f == [s \in Streams |-> Takes(inner.streams[s])]
<1>1. NStreams \in Nat /\ Streams = 1 .. NStreams /\ 1 \in Streams
  BY StreamsType, SendAssumption DEF Streams
<1>2. \A s \in Streams : f[s] = (IF inner.streams[s].counted THEN 1 ELSE 0)
  BY DEF Takes
<1>3. inner.numStreams = Total(f, NStreams)
  BY <1>1, ClientSpeaks DEF Balanced, Taken
<1> HIDE DEF f
<1>4. \A s \in Streams : inner.streams[s].counted => IsStored(inner.streams[s])
  <2> SUFFICES ASSUME NEW s \in Streams, inner.streams[s].counted, ~IsStored(inner.streams[s])
               PROVE  FALSE
    OBVIOUS
  <2>1. Speaks(inner, wire, codec.rest, codec.eos, inner.maxStreamId, s)
    BY ClientSpeaks
  <2> QED
    BY <2>1 DEF Speaks, Voice, Silent
<1>5. {k \in 1 .. NStreams : f[k] = 1} = Slotted
  BY <1>1, <1>2, <1>4 DEF Slotted, Stored, IsStored
<1>6. Total(f, NStreams) = Cardinality({k \in 1 .. NStreams : f[k] = 1})
  BY <1>1, <1>2, TotalCounts
<1>7. IsFiniteSet(Slotted)
  <2>1. IsFiniteSet(1 .. NStreams)
    BY <1>1, FS_Interval
  <2>2. Slotted \in SUBSET (1 .. NStreams)
    BY <1>1 DEF Slotted, Stored
  <2> QED
    BY <2>1, <2>2, FS_Subset
<1> QED
  BY <1>3, <1>5, <1>6, <1>7

\* At a client the count is that of the stored streams that took a slot.
THEOREM ClientCountsExactly == Spec => [](inner.peer = "client" => CountsExact)
<1>1. IInv /\ TInv => (inner.peer = "client" => CountsExact)
  BY CountedTaken DEF CountsExact, Reading, Slotted
<1> QED
  BY <1>1, WireInvariance, Invariance, PTL

\* Only a turn of the writing loop changes what the peer sees.
LEMMA OnlyWritesAreSeen ==
  ASSUME [Next]_vars, wire' # wire
  PROVE  BufferPending
<1>1. ~Unchanged
  BY DEF Unchanged
<1>2. ASSUME NEW s \in Streams PROVE ~User(s) /\ ~Receive(s)
  BY <1>1 DEF User, Receive, SendRequest, SendResponse, SendDataFrame, Reserve, Accept,
     SendInformational, SendTrailersFrame, UserReset, DropStreamRef, RecvRequest, RecvResponse,
     RecvStreamWindowUpdate, RecvEndStream, RecvStreamError, RecvRstStream
<1>3. ~ReclaimFrame /\ ~ExpireReset /\ ~ConnectionError
  BY <1>1 DEF ReclaimFrame, ExpireReset, ConnectionError, FailConnection
<1>4. \A x : /\ ~RecvConnectionWindowUpdate(x) /\ ~RecvSmallerInitialWindow(x)
             /\ ~RecvMaxConcurrentStreams(x) /\ ~RecvGoAway(x) /\ ~RecvEof(x)
             /\ ~RecvLargerInitialWindow(x)
  BY <1>1 DEF RecvConnectionWindowUpdate, RecvSmallerInitialWindow, RecvMaxConcurrentStreams,
     RecvGoAway, RecvEof, RecvLargerInitialWindow, FailConnection
<1>5. Next
  BY DEF vars
<1> QED
  BY <1>2, <1>3, <1>4, <1>5 DEF Next, Write

\* A client opens a stream only while fewer streams that the peer holds to
\* be active exist than the peer allows.
THEOREM StreamsOpenWithinLimit == Spec => OpensWithinLimit
<1> DEFINE Within ==
      \A s \in Streams :
        inner.peer = "client" /\ wire[s] = "idle" /\ wire'[s] = "open" =>
          Cardinality({t \in Streams \ {s} : StillOpen(t)}) < inner.maxStreams
<1>1. IInv /\ TInv /\ [Next]_vars => Within
  <2> SUFFICES ASSUME IInv, TInv, [Next]_vars, NEW s \in Streams, inner.peer = "client",
                      wire[s] = "idle", wire'[s] = "open"
               PROVE  Cardinality({t \in Streams \ {s} : StillOpen(t)}) < inner.maxStreams
    OBVIOUS
  <2> DEFINE active == {t \in Streams \ {s} : StillOpen(t)}
  <2>1. BufferPending
    BY OnlyWritesAreSeen
  <2>2. Reading
    BY AfterReading
  <2>3. inner.numStreams < inner.maxStreams
    BY <2>1, <2>2, BufferPendingTalks DEF TInv, Speakers
  <2>4. active \in SUBSET Slotted
    <3> SUFFICES ASSUME NEW t \in Streams, StillOpen(t) PROVE t \in Slotted
      OBVIOUS
    <3>1. Speaks(inner, wire, codec.rest, codec.eos, inner.maxStreamId, t) /\ ~IsServer(inner)
      BY <2>2, ClientSpeaks
    <3>2. IsStored(inner.streams[t])
      BY DEF StillOpen, Stored, IsStored
    <3>3. Opens(inner.streams[t], wire[t], Waiting(inner, t), Waiting(inner, t),
                Past(inner.maxStreamId, t))
      BY <3>1, <3>2 DEF Speaks, Voice
    <3> QED
      BY <3>3 DEF Opens, StillOpen, Slotted
  <2>5. IsFiniteSet(Slotted) /\ inner.numStreams = Cardinality(Slotted)
    BY <2>2, CountedTaken
  <2>6. IsFiniteSet(active) /\ Cardinality(active) <= Cardinality(Slotted)
    BY <2>4, <2>5, FS_Subset
  <2>7. Cardinality(active) \in Nat /\ Cardinality(Slotted) \in Nat /\ inner.maxStreams \in Int
    BY <2>5, <2>6, FS_CardinalityType, InnerType DEF InnerRecord
  <2> HIDE DEF active
  <2>8. Cardinality(active) < inner.maxStreams
    BY <2>3, <2>5, <2>6, <2>7
  <2> QED
    BY <2>8 DEF active
<1> QED
  BY <1>1, WireInvariance, Invariance, PTL DEF Spec, OpensWithinLimit

============================================================================
