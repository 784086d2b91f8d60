# h2 in TLA+

A verification project for the `h2` HTTP/2 library (crate under `src/`, Rust). It
models the parts of the library that keep state over many frames: the streams
(*what may be sent, what may be received, when a stream is over*, `proto/streams/`),
the connection task (*what is done in which order, and when it ends*, the rest of
`proto/` with the poll functions of `client.rs` and `server.rs`), and header
compression (*do both ends keep the same table*, `hpack/` with the parts of `codec/`
and `frame/headers.rs` around it).

Every action is translated from the code named for it in `PROJECT.json`. Module
headers say what is abstracted. Operators whose comment begins with *Mutation* are
not part of the models: each is a plausible slip in the operator that follows it and
shows that a property would notice.

## 1. Inventory

Paths are relative to `src/src/`.

| Component | State | Operations | What makes it correct |
|---|---|---|---|
| Flow control, `proto/streams/flow_control.rs` | two i32 windows: the peer's view and ours | inc, dec, claim, assign, send_data, unclaimed | stays in range; `window_size` is 0 when negative |
| Stream state, `state.rs` | local and remote half, cause of closing | open, close, reset, reserve, error | only RFC 9113 transitions; scheduled resets are closed but unsent |
| Receiving, `recv.rs` | connection and stream windows, octets in flight, buffered events, update queue, reset-expiration and accept queues | recv HEADERS/DATA/RST_STREAM, release, drop, settings, target | every octet is free or in flight, exactly once; the peer gets told |
| Sending, `send.rs`, `prioritize.rs` | frame queue per stream, assigned capacity, `pending_send` / `pending_capacity` / `pending_open`, the DATA frame in the codec | queue, reserve, assign, pop, reclaim, reset, clear | capacity conserved; nobody forgotten; legal frames per stream |
| Counts and store, `counts.rs`, `store.rs` | slots, limits, slab, id map, intrusive queues | transition, open, close, unlink, remove | a slot per active stream; no key outlives its stream |
| Streams, `streams.rs` | `Arc<Mutex<Inner>>`, `send_buffer` mutex, reference counts | all of the user's and the connection's entry points | each a critical section; last drop cleans up |
| Connection, `proto/connection.rs` | state open / closing / closed, the peer's error, pending refusal | poll: GOAWAY, PONG, PING, SETTINGS, refusal, read, write, flush, park | ends when due; is always woken for what is left to do |
| Settings, GOAWAY, PING, `settings.rs`, `go_away.rs`, `ping_pong.rs` | one outstanding local SETTINGS, pending remote one, pending GOAWAY, atomic user ping | send, ack, apply; graceful and abrupt shutdown; the user's PING and PONG | SETTINGS in force before the next frame; nothing above a told identifier processed; no PING lost |
| HPACK, `hpack/` | two dynamic tables, the encoder's Robin Hood hash table with links, pending size updates | encode, decode, insert, evict, grow, resize | both tables equal after every block; every entry found |
| Codec and frames, `codec/`, `frame/` | write buffer, the frame being written, the header block being put together | buffer, flush, cut, join, limit | a block is one block however it is cut; limits never desynchronise HPACK |
| Public API, `client.rs`, `server.rs`, `share.rs` | handles on streams; the owner of the connection; the user of PING | forward to `StreamRef`; shutdown; ping | dropping the last handle ends a client's connection |

**How they interact.** A user's handle (`RecvStream`, `SendStream`, `SendRequest`,
`SendResponse`) holds a key into the store and a reference count. Each of its methods
locks `Inner` (and inside it the send buffer) for the whole call. The connection task
locks the same mutex once per frame it reads, and in `poll_complete` while it moves
frames into the codec; the lock is released around socket IO. So the unit of
interleaving is one such call, and that is what one action is. The PING handle is the exception: it shares an atomic and two `AtomicWaker`s with the
task and takes no lock, so each of its atomic operations is an action. Streams do not
call each other, but share the connection's windows, the limit on concurrent streams and the
queues; what one gives up, another receives in the same critical section.

**What is hard.** Handles on other threads act between any two frames. A stream's state
runs ahead of the wire (END_STREAM and resets are *queued*), so closed streams still
have frames, capacity and a slot. SETTINGS change windows under queued frames and
assigned capacity, and the two sides apply them at different moments. A DATA frame
being written is outside the lock and may come back to a stream that was reset
meanwhile. The connection may end at any of these points. A task that parks runs again only if
somebody wakes it, and whoever should may act between the task's last look and its
registration. Either end of HPACK that misses a block, a size or an eviction is wrong
about all later blocks. `PROJECT.json` lists these
hazards at their lines.

## 2. Modules

| Module | Models | Uses |
|---|---|---|
| `FlowControl` | `flow_control.rs`, pure | |
| `StreamState` | `state.rs`, pure | |
| `Sums` | the sum of a function over 1 .. n, as a recursive function | |
| `Loops` | a loop with a bound on its turns, as a recursive function | |
| `Ledger` | abstract: the account a receiver keeps with its peer | |
| `RecvFlow` | receive-side flow control: `recv.rs` and its callers in `streams.rs`; refines `Ledger` | `FlowControl`, `Ledger` |
| `RecvFlowPeer` | `RecvFlow` with a peer and two FIFO wires, settings exchange, fairness | `RecvFlow`, `Sums` |
| `RecvFlow_proofs` | theorems about `RecvFlow`, and in its last part about `RecvFlowPeer` | `RecvFlowPeer`, `Recursion_proofs` |
| `SendFlow` | `prioritize.rs`, `send.rs`, and what `streams.rs`, `counts.rs`, `stream.rs`, `store.rs` and `recv.rs` do to queues, slots and the end of streams | `FlowControl`, `StreamState`, `Sums`, `Loops` |
| `SendFlow_proofs` | theorems about `SendFlow` and the transitions of `StreamState` | `SendFlow`, `Recursion_proofs` |
| `SendFlowQueues_proofs` | `NoFrameForgotten` and `NoWaiterForgotten`, which need what each function does to the queues of streams | `SendFlow_proofs` |
| `SendFlowFrames_proofs` | what each function does to the state, the queue and the history of a stream, up to a turn of the loop that writes | `SendFlow_proofs` |
| `SendFlowWire_proofs` | `WireLegal`, `OpensInOrder`, `OpensWithinLimit` and a client's `CountsExact` | `SendFlowFrames_proofs` |
| `Recursion_proofs` | what sums and loops do, for any length; two inductions | `Sums`, `Loops` |
| `GoAway` | `go_away.rs`, pure | |
| `Connection` | `connection.rs`, `settings.rs`, `ping_pong.rs`, the poll functions and handshakes of `client.rs` and `server.rs`, and when `streams.rs` wakes and ends the task; a peer, a transport, an executor | `GoAway` |
| `Connection_proofs` | theorems about `Connection`; `SettingsInOrder` and `NeverAccused` last, which need the frames on both wires | `Connection` |
| `HpackTable` | `hpack/table.rs`, as operators | |
| `Hpack` | `encoder.rs`, `decoder.rs`, size updates from SETTINGS, HEADERS and CONTINUATION in `framed_write.rs`, `framed_read.rs` and `frame/headers.rs` | `HpackTable`, `Sums` |
| `Hpack_proofs` | theorems about `Hpack` | `Hpack`, `Recursion_proofs` |
| `MCRecvFlow`, `MCRecvFlowPeer`, `MCSendFlow`, `MCConnection`, `MCHpack` | what TLC needs beside them: model values, scenes, hash values | |

**RecvFlow.** `conn` is `Recv::flow` with `in_flight_data`; `streams[s]` is the part of
`Stream` the receive path uses. Each way through `Inner::recv_data` is an action:
accepted, nobody listens any more, ignored after our reset, forgotten stream, beyond our
GOAWAY, stream error, connection error. The user reads, releases (before reading, if it
likes), drops the body's handle or the last handle, resets. The connection opens,
resets, removes streams, applies acknowledged settings, moves the target window and
sends WINDOW_UPDATEs. `target` and `orphaned` are history. What the sending half does
shows as closing at any moment, a superset of what it can do.

**Ledger** is what this bookkeeping promises, in a page: octets *advertised*, octets
*held*, and the *limit* the two are to come to. DATA moves octets from the first to the
second, releasing gives them back, and an advertisement takes exactly what is free,
never more. There are no streams, handles or errors in it. `RecvFlow` instantiates it
as `Account` (advertised is the connection's window as the peer knows it, held is
`in_flight_data`, limit is `target`); `KeepsLedger` is the refinement.

**RecvFlowPeer** adds the peer, which counts its own windows by RFC 9113 and answers
SETTINGS, and frames in order on each wire. It is the only module with an environment
that has to keep rules; `RecvFlow` lets the peer send anything.

**SendFlow.** `inner` is what the mutex protects. It is one record because the code's
operations compose within one critical section: reclaiming capacity of one stream
assigns it to others, each of which goes through `transition_after`, which may remove
streams. The operators take and return this record and carry the functions' names;
an action is one entry point. `codec` is the DATA frame being written, `wire` the
peer's view of each stream. One turn of the loop of `buffer_pending` is one action:
stopping after any turn is possible because the codec may be full after any frame.
`Store::for_each` goes over an index map whose order removals change; the model allows
every order. Loops of the code are `Loop`: a body for each turn, a start, and a bound on
the turns, after which the body changes nothing. The bounds follow from the code:
`assign_connection_capacity` turns at most once per stream that waits, as a stream that
returns to the queue took the last capacity; `pop_frame` discards a queue at most once
per stream, and between two of those turns passes at most every stream without a frame.

**Connection** has one task, whose `pc` is the duty it is at, in the order of
`poll_ready` and `poll`; one step is what happens between two points at which another
thread can be seen, so that handles, the transport and the user of PING act between any
two. `exec` is the executor: a parked task runs only if it was woken, by the codec's
interest (`codec.wants`), by `actions.task` (`inner.task`), or by `pings.pingTask`.
Nothing wakes it by magic, and so a lost wake shows as a connection that does not end.
`codec` and `net` are bounded by constants, so that every flush may block. Streams are
sets of identifiers: active, waiting to be accepted, queued, waiting to be opened. The
peer keeps the protocol unless its scene lets it send a frame that breaks it, and then
`peer.broke` is set. `log` is history. A *scene* says which frames the peer sends of
its own accord and which calls users make, and how many; it is chosen in `Init`
and never changes, so one run covers several environments without their product.

**Hpack** has the encoder at one end of a wire and the decoder at the other; SETTINGS
go back. `HpackTable` is the encoder's table to the letter of its algorithm: positions
relative to the number ever inserted (modulo the word), probing, stealing a slot from a
richer entry, links between entries of one name, backward shift on removal, growth. The
decoder's table is a sequence. Header names hash by a constant, so collisions are
chosen; on the wire each representation takes two units, so a frame may end in the
middle of one. `log` is the history of blocks under way and of sizes asked for. The receiver's
three limits on a block are part of a scene; a block beyond one ends the connection
(`GoneAway`), and so does CONTINUATION of a block that was refused as malformed.

## 3. Runs

All models are finite by the bounds named as constants. "Violation" runs show a real
disagreement between the code and what a comment or doc says of it (section 5).

| Run | Question | Bounds |
|---|---|---|
| `RecvFlow` | Is receive capacity ever lost, doubled or advertised beyond what is free? Is it an account in the sense of `Ledger`? | 2 streams (one promised), windows to 3, initial windows {0,2}, targets {1,3}, frames to 2 octets, 2 unread; 2.3 million states |
| `RecvFlowPushed` | The same for promised streams that leave the store | as above |
| `RecvFlowPeer` | Can a peer that keeps to its windows be accused? Do the two accounts agree? | 1 stream, initial windows {0,1,2}, targets {1,2}, 3 frames per wire |
| `RecvFlowLive` | Does released data let the peer send again? | 1 stream, window 5 (so that batching has a threshold above 1), target 2, 2 frames per wire |
| `RecvFlowStall` | The same while the initial window changes between 1 and 5 | as above, target 5 |
| `SendFlowClient` | Is capacity conserved, no stream forgotten, and are the peer's limit and the order of streams kept? | 2 requests, a limit of 1 that arrives at any time, windows of 1 and 2, reservations of 2, frames of 1 octet, GOAWAY, errors, EOF, WINDOW_UPDATEs; 620 thousand states |
| `SendFlowServer` | The same with DATA cut in two, initial windows 1 and 2, room for one reset to expire, the connection dropped; are buffers and keys exact? | 2 streams, 1 frame per queue, chunks of 0 and 2 octets in frames of 1; 1.1 million states |
| `SendFlowSlot` | Does a server's stream always return its slot? | as `SendFlowServer` with reservations, without the drop |
| `SendFlowRefused` | Can a reset be the first frame after GOAWAY? | as `SendFlowClient` without reservations, 2 frames per queue, increments of 1, the codec's slot, GOAWAY only |
| `Connection` | Do shutdowns, errors, SETTINGS and PINGs keep their order, and does the connection end when it should? | 6 scenes, 3 identifiers, 1 frame in the codec, 1 on the transport, 2 from the peer, 1 concurrent stream, 1 refusal; 330 thousand states, with liveness |
| `ConnectionPing` | Is every PING of a user answered? | as above, one scene: two PINGs and nothing else |
| `Hpack` | Do encoder and decoder keep the same table, and does every block arrive as meant? | 8 scenes, first allocation 4 slots (8 in the code), default size 4 entries, word 8, up to 6 headers in a block, 3 CONTINUATIONs before the last, lists up to 4 times a limit of 1; 104 thousand states |

Why these bounds are enough to be interesting: two streams are what it takes for
one to wait for what the other gives back; a frame of two octets with a window of one
is cut, blocked and resumed; initial windows that go down and up make windows negative;
one slot for two streams makes the second wait in `pending_open`; one place for expiring
resets makes the second reset find it full. One frame of room in the codec and one on
the transport make every duty of the connection block somewhere; one concurrent stream
and one refusal make a second request refused and a third an error; two frames of the
peer are enough to cross a GOAWAY, a refusal or an acknowledgement. A first allocation
of 4 slots grows once in the table of 4 entries, three names share a probe sequence, and
a word of 8 wraps within a run. What they do not reach: three streams in a queue at
once, a queue of more than one frame (the frame after it is what was cut off), a third
SETTINGS frame of ours under way, a hash table that grows twice.

Each run leaves off what another covers, so that all stay within minutes. Reservations,
WINDOW_UPDATE, SETTINGS_MAX_CONCURRENT_STREAMS, GOAWAY, errors and EOF are in
`SendFlowClient`; DATA in parts, settings that move windows, reset expiry and the drop
of the connection are in `SendFlowServer`, whose windows grow by settings only.
`SendFlowServer` writes every DATA frame through the codec's slot (`ChainThreshold` 1),
where it is outside the lock; `SendFlowClient` copies it at once, as the codec does with
small frames. `CapacityConserved` is checked where reservations are, `AssignmentFits`
where windows shrink. The six scenes of `Connection` are a server shutting down among requests and
resets, shutdown with a peer that breaks rules, SETTINGS both ways, a user's PING beside a
graceful shutdown, a client whose handles go, and a client whose peer or transport goes;
those of `Hpack` fill the table, change its size, cut blocks beyond the list limit, malform blocks
whole and in pieces, and go to each limit at which a block is rejected and one step beyond it.

Only `Hpack` is checked for deadlock, where an endpoint that met an error has gone away. In the others a connection whose users and
peer do nothing more stops, and the model bounds stop it too; that what must go on does
is `EndsWhenDue` and its neighbours.

**Fairness.** In `RecvFlowPeer`: weak fairness on reading a frame, on writing the two
kinds of WINDOW_UPDATE, on the peer's reading, and on the application accepting,
reading and releasing. The first three are justified by the connection's future being
polled until it has nothing left to do, with wakers set by the calls that create work
(`release_capacity` wakes the task when it queues an update); the fourth is the network;
the last is the precondition that `share.rs` puts on users. No fairness is assumed of
users resetting or dropping, nor of the peer sending. In `Connection`: weak fairness on
`Task`, which is enabled while the task runs or is woken (the executor polls what was
woken, and nothing else); on the steps the thread that uses PING has begun, not on
its beginning; on the peer's reading and answering, which is the network; and on a
server's user finishing the responses it was handed, without which no graceful shutdown
can end. Nobody has to send a frame, make a call or drop a handle.

**Properties.** Type invariants are one per component; `TypeOK` of `RecvFlow` and of
`SendFlow` carry meaning beyond types: that windows stay in range says that none of the
checked operations whose result the code discards can fail. `TypeOK` of `Connection` says that
refusals stay within their limit. The others:

- `LedgerBalanced`, `InFlightAttributed`, `DroppedHoldsNothing`: where every received
  octet is. `ConnExposureBounded`, `StreamWindowBounded`: what the peer is told.
  `KeepsLedger`: the refinement of `Ledger`, which also says that a window is advertised
  for exactly what is free.
- `NeverAccused`, `ConnectionWindowsAgree`, `PeerWindowsFit`: the peer's account against
  ours. `ReleaseLetsPeerSend`, `ConnectionReopens`: no starvation by batching.
- `CapacityConserved`, `AssignmentFits`: shares of the connection's window.
  `NoWaiterForgotten`, `NoFrameForgotten`: the invariants behind liveness of the two
  send queues, stated as such because they are stronger and cheaper than liveness. A stream
  whose DATA the codec will return is exempt from the second: an empty DATA frame queued
  behind it is not scheduled before that DATA is back.
- `WireLegal`, `OpensInOrder`, `OpensWithinLimit`, `ResetNeverFirst`: what the peer sees.
- `BufferedExact`, `NoDanglingKeys`, `CountsExact`, `NothingKept`: bookkeeping across
  resets, removals and the end of the connection.
- `AssertionsHold`: the assertions the connection is written with, among them that
  nothing is pending when a frame is read and that GOAWAY's identifier never goes up.
  `RetryIsSafe`: no stream above an identifier the peer was told is ever processed.
  `SettingsInOrder`: a frame is read only when all SETTINGS before it are in force, and
  what is acknowledged is in force. `NeverAccused` (of `Connection`): a peer that keeps the
  protocol is not accused of breaking it, whatever crosses on the wire.
- `EndsWhenDue`, `SettingsAcknowledged`, `PongDelivered`: liveness under the wakers the
  code sets, not under a task that is polled for ever.
- `EntriesFound`, `TablesAgree`, `HeadersAgree`, `SizeObeyed`: the hash
  table of the encoder is sound, both tables are equal between blocks, every block that is not
  rejected arrives as meant or as too large, and several changes of size come to their
  least and their last.
- `RejectedOnlyBeyondLimits`: the decoder does reject blocks this encoder writes, as
  `abusive_headers_send_goaway` and `too_many_continuation_frames_sends_goaway` test
  (`server.rs:1160` and 1197 of `h2-tests`), and as it should if they are beyond its limits. The property says
  which ones: a list beyond `MAX_HEADER_LIST_ABUSE_MULTIPLIER` times the limit, more CONTINUATION
  frames than are allowed, a list over the limit whose next frame is too long
  to go on with, each with its own error. Scenes `Bloated`, `Flooding` and `Refusing` have a block at
  each limit, which is delivered, and one beyond, which is rejected. The one other rejection is
  CONTINUATION of a block that was found malformed before its end (scene `Tearing`,
  section 5). An index out of range, a size update that is not allowed, a truncated block or a frame in
  between never happens.

## 4. Proofs

`RecvFlow_proofs` proves, for every finite set of streams and all values of the windows,
targets and frame sizes that satisfy the assumptions of `FlowControl` and `RecvFlow`,
all seven properties that run `RecvFlow` checks, the refinement of `Ledger` among them, and
`NothingOrphaned` when there are no promised streams.

The inductive invariant `IInv` is needed because none of the properties is inductive on
its own. `LedgerBalanced`, for one, depends on `AssignCapacity` never being refused,
which depends on `available + in flight` staying below the largest window, and on the
octets a stream gives back being part of the connection's total, which is
`InFlightAttributed`. `IInv` has three parts besides typing:

- `GoodConn`: available plus in flight is the target; the peer's window is not negative
  and fits with what is in flight.
- `GoodStreams`: per stream, available plus in flight does not exceed the initial window,
  the peer's window not available, streams outside the store hold nothing, and
  a dropped stream that was not promised holds nothing in flight.
- `Attributed`: the connection's total in flight is the number of octets in flight over
  the streams plus the orphaned ones. The sum is the cardinality of a set of
  (stream, index) pairs, so that a change to one stream is a change of one set by an
  interval, and the library's theorems on cardinality apply. (Streams are any finite set
  here; where they are numbered, `Sums` is used.)

Each action has one lemma, whose steps follow the parts it can disturb; the lemmas on
`Consume`, `Release`, `Take` and the cardinality of `InFlightOctets` carry most of it.

`ImplementsLedger` is the refinement: `Init` maps to `Ledger`'s, and every step is a step of
`Ledger` or leaves the account alone. The ways DATA takes are `Receive`, with what is given
back at once (padding, data nobody wants); releases and drops are `GiveBack` of a number
that `Attributed` bounds by what is held; `SendConnectionWindowUpdate` is `Advertise`
because `GoodConn` equates what is available with the target less what is in flight.
Giving back and advertising are where the invariant is needed.

`Connection_proofs` proves, for any scenes, limits, identifiers and capacities of codec and
transport, every safety property run `Connection` checks: `TypeOK`, `RetryIsSafe`,
`AssertionsHold`, `SettingsInOrder` and `NeverAccused`. Its `IInv` has three parts:

- `Types`: `TypeOK` with the frames under way, each of which carries an argument in the
  range its reader expects, and the bound of the transport, without which a flush could
  take a negative number of frames.
- `Ordered`: once the task is past a duty, that duty is done. The assertions in
  `poll_ready` are about the last duty only; to get there one must know each stage.
- `Announced`: what was told, or is in `go_away` about to be told, against the
  streams that are and may still be processed. `RetryIsSafe` compares the last processed
  identifier with the least that was written; between the decision to go away and the
  writing the two are related by `maxId`, the bound for new streams, and that relation
  differs between graceful (where `maxId` is lowered before the second GOAWAY) and abrupt
  shutdown (where it is not, but nothing is read any more).

Each action has one lemma, with one step per part it disturbs; what a poll does in many
places (`Flush`, `ReadOn`, `ConnectionError`) has lemmas of its own.

`SettingsInOrder` is proved on top of it. The property compares two
counters at opposite ends of two wires, so the invariant has to say what is on them:

- `Dated`: each frame from the peer carries the number of SETTINGS sent before it; one frame
  is dated from the one before, the first from the SETTINGS in force, plus one while
  some wait to be acknowledged, and the peer's own count from the last.
- `Counted`: the acknowledgements the peer has seen and those on the way to it, buffered
  or on the transport, are the SETTINGS in force. Counting a sequence takes recursion, so
  it is said with a witness: the frames can be numbered so that the numbers start with
  what was seen, rise by one at each acknowledgement and end with what is in force.

That nothing waits to be acknowledged when a frame is read is `Ordered`.

`NeverAccused` is proved last (`AInv`). There are three complaints the endpoint could make
of a peer that broke nothing: of an acknowledgement nobody asked for, of a GOAWAY whose
identifier goes up, and of a stream that is not in order or was never opened. So `AInv`
says, as long as the peer has broken nothing:

- `Asked`: among the frames on both wires there is at most one that is SETTINGS of ours or
  an acknowledgement of it, and only while `local` waits for that acknowledgement. This is
  why a user may call `set_initial_window_size` again only after `send_settings` (here
  `local`) has come back to `synced`.
- `Falling`: the identifiers of the GOAWAY frames under way do not go up, start at or
  below `sendMaxId` and end at or above what the peer would say next.
- `Streamed`: the requests under way are new to the endpoint (`inner.next`) and in order;
  a stream that is reset was opened before, which the endpoint has seen, or will see from
  a frame ahead of the reset, or ignores because the stream is above `maxId`. The last
  case is what a GOAWAY of ours creates: HEADERS it crosses are dropped *before* `next`
  is advanced, so a reset of the same stream must be dropped by the same bound, also when
  the bound has been lowered between the two frames.
- `Blameless`: no reason decided on already is a protocol error.

`maxId` only falls and `next` only rises, which is what makes `Streamed` stable under
every action that is neither the peer's nor a read.

The last part of `RecvFlow_proofs` proves, for any streams, windows, targets and lengths of wires, the
three safety properties run `RecvFlowPeer` checks: `ConnectionWindowsAgree`,
`PeerWindowsFit` and `NeverAccused`. `PeerImplementsRecvFlow` says that every step of the
composition is a step of `RecvFlow` or leaves its variables alone, so all that is proved of
`RecvFlow` holds with a peer, and `AccountsAgree` is the invariant `PInv` beside it:

- `Wires` and `PeerTypes`: what is on the wires has the form its reader expects.
- `Handshake`: at most one SETTINGS of ours is under way, and where it is (on the way there,
  or answered) decides whose initial window the peer uses.
- `ConnAccount`: the peer's connection window, with the octets on both wires, is the window we keep
  for it. Octets on a wire are a `Total`, so a frame that enters or leaves changes one summand.
- `StreamAccount`: the same for a stream, corrected by the difference of the two initial
  windows while they differ. Once a stream is reset the peer may know less than we gave,
  never more; therefore `Covered` bounds what the peer can still send. `NeverAccused` follows
  because DATA is charged against windows that cover it.

`SendFlow_proofs` proves, for any number of streams and any windows, sizes, limits and
bounds, six of the properties the `SendFlow` runs check: `TypeOK`, `CapacityConserved`,
`AssignmentFits`, `BufferedExact`, `NoDanglingKeys` and `NothingKept`. None is inductive.
`CapacityConserved`, for one, depends on no claim being refused, thus on `AssignmentFits`, which
depends on what a stream buffers being what it asks for, thus on the frame in the codec.
Moreover a critical section is a composition of the code's functions, each of which starts and
ends in the middle of the others. So the invariant is an operator of the value of `inner`,
`Sound(i, extra, low, due)`, which holds of the intermediate values too, with three
parameters for what is unfinished:

- `extra[s]` octets of stream `s` are buffered and not in its queue, being in the codec or in
  the hand of `reclaim_frame`;
- `low[s]` bounds its window from below: while the connection reads, by the initial window less
  the largest, so that lowering the initial window, even to 0, keeps every window in range;
- `due` octets of the connection's window belong to nobody yet: claimed from one stream and not
  assigned to another, or just granted.

Its parts, per stream: `InBounds`; `Fits` (a share is within what was asked and what the window
allows); `Settled` (a closed sending half asks for no more than it buffers, unless that is to
be discarded), which is what makes `NothingKept` true, for servers only (section 5);
`Unasked`; `Linking` (a stream is unlinked only when it is over and written). For the whole:
`Account` (the connection's window is what is unassigned, the shares and `due`), `Keys` (what is in a queue
is in the store), `Slots` (slots taken, and those still to be taken, fit the bound),
`Resets`. `IInv` is `Sound` with what the codec holds, and `CodecSound` relates `codec` to
`in_flight_data_frame`.

Each operator has a lemma: from `Sound` of its argument follows `Sound` of its
result, with what else its callers need to know (for `TransitionAfter`, for
example, that only its stream and two counters change). Loops are taken by `LoopLeads`
(if turn k leads from the (k-1)-th of a family of sets to the k-th, the loop ends in the last)
and `LoopStays` (no turn leaves a set).
`TryAssignSound` and `AssignPendingSound` carry capacity, `TransitionAfterSound` the end of a
stream, `FailAllSound` the end of many, `PopFrameSound` writing. An action is then a
composition of lemmas. `StreamState` is proved on the way: no transition leaves
`States`, closed stays closed, a closed sending half stays closed, and a reset that will discard
DATA is not overwritten by one that will not.

`SendFlowQueues_proofs` proves `NoFrameForgotten`: while the connection runs, a stream whose
next frame `pop_frame` would write is in `pending_send` or `pending_open`. `Sound` says what
a stream has, and this property what it waits for, so it needs an invariant of its own,
`FInv`, on top of `IInv`. For every stream, while the connection reads:

- `Pressed`: a reset that discards what is queued has put the stream in a queue;
- `Minded`: a stream whose next frame needs no capacity, or has some, is in a queue, unless
  DATA the codec holds comes back to the head of its queue.

The property alone is not inductive: it does not speak of a stream with nothing queued that
is reset, nor of one whose frame is in the codec. A function of the code need
not keep `FInv` of a stream it is still busy with, so there is a relation for each way to
do no harm, and each composes with itself: `Eases` (a stream gets no more to do, or is put in a
queue), `Tends` (what was pressed and minded still is), `Moves` (only
one stream is touched, the queues only grow), `Provides` (capacity may appear only with
a place in a queue). `Well` is a stream that is settled whatever the codec holds. Each
operator has a lemma that says which of these it does: `TryAssignCapacity` provides, a
transition eases every other stream, the writing loop leaves the stream it popped well.
`IInv` is needed for what they share: a stream in the store has sound fields, and a share is
never negative, so that no capacity means none.

The module then proves `NoWaiterForgotten`: while the connection runs, a stream that wants
capacity its own window would allow is in `pending_capacity`, and only because the connection has
none to give. A stream is `Hungry` when it may send DATA and what it wants, within its window, is more
than its share, and it `Craves` when it is hungry and is not waiting to be opened. The
inductive invariant `NInv` says that while the connection reads its state is `Content`:

- `AllApt`: of every stream, what is buffered is within what was asked for, its share is not
  negative and its window fits. Of removed streams too, since `Sound` is silent about them;
- `Heeded`: every stream that craves is in `pending_capacity`;
- the connection has no capacity left (`Spent`), or nobody craves.

Inside a critical section this is false in two ways, and each has its name. A
handler may be busy with one stream, and the state is then `ContentBut` for it, until
`try_assign_capacity` has looked at that stream or it turns out to want nothing. And
capacity may have come back that is not handed out yet, and the state is then `Heeded` only, until
the loop of `assign_connection_capacity` ends, because nothing is left or because the queue is empty, in which
case nobody craves. `Softens` is the relation of a step that makes nobody hungry and leaves the connection's
capacity alone; most edits of a record are such steps. The argument fails for no handler: where a window
grows `try_assign_capacity` follows, where a share is taken back it is given to the connection and
handed out, and a stream that leaves `pending_open` is tried before anything else reads its share.

`SendFlowFrames_proofs` and `SendFlowWire_proofs` prove what `SendFlow` shows of itself to the
peer, for any number of streams, any queues and any order of calls and frames:

- `FramesAreLegal`: `WireLegal`, under the condition that makes it true (`Speakers`): the endpoint
  is a client, or its users queue no informational head in a wrong state. Without it the code
  does write illegal frames (section 5).
- `StreamsOpenInOrder`: `OpensInOrder`. `StreamsOpenWithinLimit`: the action property
  `OpensWithinLimit`.
- `ClientCountsExactly`: `CountsExact` for clients. For servers run `SendFlowSlot` refutes it, so the
  theorem says how far the finding reaches.

All four come from one more invariant, `TInv`, on top of `IInv`. While the connection
reads it is `Legal`: every stream has a `Voice`, which relates what was written of it (`wire`), the
frames still in its queue, with the rest of the frame in the codec in front of them, its
state, its slot and the queue it waits in. `Says` is the grammar: what is queued continues what was
written, and the state tells what may follow (a streaming half has queued neither END_STREAM nor
a reset, a state in which HEADERS may be sent has queued none, a reset that was written or
queued is in the state). For clients three parts are added that are not about legality at first
sight and yet needed for it. `Opens`: a stream whose HEADERS are not
written is in `pending_open` or holds the slot it was given when it left that queue, unless it
was refused by a GOAWAY or given up, and a stream the peer sees as open has a slot until all it
had to write is written. `InOrder`: `pending_open` is in the order of identifiers. `Balanced`: the count is
that of the slots. With them a stream active on the wire has a slot, and `OpensWithinLimit`
follows from counting.

Once the connection has ended, by EOF, an error or the drop, queues are cleared in any state, and
`Legal` fails; but nothing is written any more. What then holds is less: what was
written is legal and stays so, and no HEADERS are queued (`Hush`, `NoHeads`).

A function works in the middle of a critical section, so `Legal` has parameters for what is
unfinished: whose frame is in the codec, whether it was the last piece, and which stream was just
taken out of `pending_open`. Most functions only move capacity, and `Quiet` says so
once for all of them (`AssignConnection`, `TryAssignCapacity`, `ReclaimAll`); what a handler does to its own
stream is one of a few edits of the record (a frame appended, the queue cleared, a state closed,
a slot returned), each with a lemma. The loop of `pop_frame` keeps `Legal` by `LoopStays`.

`Hpack_proofs` proves `SizeObeyed` for any names, lengths, hash values, static table, blocks
and cuts. The invariant is `HInv`. On the sender's side `Announced` ties the pending
update to the history of sizes: none, one or two numbers that, after the size in force, end at the last size
acknowledged and have the least of them as their least; of two the first is the lesser, which is
what `update_max_size` relies on when it drops the second. `Counts` says that the size of the encoder's
table is what its entries take, plus the one being inserted; every operation on the table, with
eviction, backward shift, links and growth, has a lemma that it keeps that. On the receiver's side
`Decoding` says the same of the decoder's entries and that they fit the limit, and `Readable` that
what is on the wire has the form the decoder expects, also when it is cut within a representation.
The functions fold over entries and headers; a lemma per fold says that it runs to its end.
That a probe finds every entry, and that both tables are the same, is model-checked.

`Recursion_proofs` holds the inductions: `Total` and `Loop` are recursive
functions, and induction is proved once for membership in a set (`InductionOverNat`: a set
that contains 0 and the successor of each member contains every number), from which each
lemma follows with the set of the numbers it is true of. A summand changed, two functions
added, a sum of zeros, a sum of bits: that is all the accounts need.

**Only model-checked:** liveness everywhere (fairness and `~>` are out of the prover's
reach); of `Hpack` that entries are found, that tables and header lists agree and which
blocks are rejected (`EntriesFound`, `TablesAgree`, `HeadersAgree`, `RejectedOnlyBeyondLimits`).

## 5. What the runs found

1. `RecvFlowStall`: a released octet may stay unadvertised after the initial window was
   lowered (`recv.rs:573`, against `share.rs:156`).
2. `RecvFlowPushed`: cancelling a promise that nobody polled does not return its octets
   to the connection (`streams.rs:1690`, against the comment at 1683).
3. `SendFlowSlot`: a server's stream with a scheduled NO_ERROR reset and blocked DATA
   loses its slot when the peer resets it (`recv.rs:925`, against `state.rs:267`).
4. `SendFlowRefused`: GOAWAY clears the HEADERS of a stream that waits to be opened and
   has a scheduled reset; the reset then opens it (`streams.rs:823`, against `send.rs:254`).

5. `ConnectionPing`: the connection task looks at the user's PING state before it registers
   its waker, so a PING stored in between can stay unsent on a quiet connection
   (`ping_pong.rs:184`, against `ping_pong.rs:236`).

Further disagreements and surprises were seen while modelling and have no run; the
planned `Lifecycle` module states the first eight as properties, the others are notes on
code the models follow as it is:

- An informational head may be queued behind the final response, although
  `server.rs:1186-1190` documents an error (`InformationalAnytime = TRUE` refutes `WireLegal`).
- A client's stream that closes while it has asked for more than it buffers keeps its
  share when it is removed. `NothingKept` is therefore stated for servers.
- A stream evicted from `pending_capacity` without a transition (`prioritize.rs:396`) may
  stay in the store although nothing refers to it.
- The count of expiring resets does not fall when a stream expires before its scheduled
  reset is written (`counts.rs:313`).
- On EOF a blocked stream with a scheduled reset is removed with its slot, which
  `CountsExact` excludes by holding only while the connection runs; the debug assertion in
  `counts.rs:364` is about it.
- A stream the peer resets before it was accepted is counted (`recv.rs:908-919`), but when its
  state was closed already the count may not fall again (`state.rs:266`,
  `streams.rs:151-153`; `server.rs:944-949` says that accepting makes room).
- The last `SendRequest` dropped before the handle of a stream that waits in `pending_open`,
  at a peer's limit of 0, leaves nobody to wake the connection (`streams.rs:1669-1677`).
- An error's GOAWAY that waits for room in the codec can be replaced by NO_ERROR from the
  idle check or from a client's `maybe_close_connection_if_no_streams`: the peer is told less
  than happened.
- HEADERS that depend on themselves are a stream error before `load_hpack`, and the decoder
  misses the block.
- "A malformed header frame is a stream level error", says `headers.rs:915`. Of a block in
  several frames that is not so. The malformed flag is local to one call of `load`: a fragment that ends
  between two representations reports it at once and drops `partial`, so that the CONTINUATION
  under way is a connection error; one that ends within a representation returns `NeedMore`
  first, the flag is lost, and the block is delivered without the field. `Hpack` does both (scene
  `Tearing`), and `Outcome` and `RejectedOnlyBeyondLimits` say so.
- `calc_max_continuation_frames` follows `max_frame_size` at once, not on acknowledgement.
- `can_resize` is set anew for every fragment, so a size update may be read at the
  start of a CONTINUATION. `queue_size_update` keeps the largest of the sizes queued.
- A header list of exactly the limit counts as too large (`headers_size >=`), and
  `:protocol` is not counted by `calculate_header_list_size`.

## 6. Not modelled

- *Streams.* Push promises on the send side, wakers and `poll_capacity`, the receive queue of
  WINDOW_UPDATEs inside `SendFlow` (it keeps streams stored a little longer), entries
  re-created for forgotten identifiers inside `SendFlow`, the accept queue's limit on
  remotely reset streams, the limit on local error resets (refusals in `Connection`, a case of
  `ConnectionError` in `SendFlow`), header validation, content-length. `RecvFlow` records no
  order of buffered events.
- *Connection.* What an error does to each stream is in `SendFlow` and `RecvFlow`; in
  `Connection` streams only end. `Connection` ignores DATA, windows and the values of SETTINGS other
  than the concurrency limit. The upgrade of a client and `poll_shutdown` errors are left out.
- *HPACK and codec.* Huffman and integer coding, pseudo-headers, failure to grow the
  hash table (`try_append` at the largest size), vectored writes, byte layouts. The codec's
  byte buffers are frames in `Connection` and units in `Hpack`.
- *Frames, builders, conversion of messages*: sequential, without state, covered by
  the repository's fixtures and fuzzing.

`PROJECT.json` gives the reason per component.

## 7. Plan

In this order, most important behaviour first; what exists is marked.

1. `FlowControl`, `RecvFlow`, `RecvFlowPeer`, `RecvFlow_proofs` (done).
2. `StreamState`, `SendFlow` and its four modules of proofs (done; everything proved that
   the passing runs check of them).
3. `GoAway`, `Connection`, `Connection_proofs` (done; safety proved, liveness
   model-checked).
4. `HpackTable`, `Hpack`, `Hpack_proofs` (done; `SizeObeyed` proved, the rest model-checked).
5. `Ledger`, implemented by `RecvFlow` (done; proved).
6. `SenderCredit`: the abstract specification of a sender, which may *send* within a
   stream's and the connection's credit, is *granted* credit, and has all stream credits
   *shifted* by settings. Safety proved with TLAPS; `SendFlow` shown to implement it
   (`wire` octets as the mapping) by TLC.
7. `Lifecycle`: store, reference counts, accept queue, reset expiry, remote-reset count,
   reserved and promised streams. Properties: no stream stays that is released; the two
   reset counts equal their queues; the disagreements of section 5.
8. The waker of `poll_capacity`, as a run beside `SendFlowServer`.
9. Proofs that are left: `TablesAgree` and `EntriesFound` of `Hpack`; `SenderCredit`; the inductive
   core of the counts of `Lifecycle`.

`SenderCredit` is to be checked as a property of the existing `SendFlow` runs. `Lifecycle`
shares the questions on expiry with `SendFlowServer` and takes them over.
