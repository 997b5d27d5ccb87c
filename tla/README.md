# A TLA+ model of web-transport

`web-transport` is a family of crates and packages that give an application
WebTransport sessions (multiplexed streams and datagrams) over several
transports: QUIC libraries (quinn, noq, quiche, iroh), the browser, and *QMux*,
which carries QUIC's streams over any reliable byte stream or WebSocket. This
directory specifies the parts of it that carry its own logic, checks them with TLC
on small instances and proves most of their safety with TLAPS.

Covered are QMux in Rust (`rs/qmux`) from its queue and credits to its wire format
and transports, QMux in TypeScript (`js/qmux`), the driver of the quiche back end,
and the WebTransport session over HTTP/3 of all four QUIC back ends with its
encodings.

## Inventory

### QMux in Rust (`rs/qmux/src`)

A `Session` has three tasks. The **reader** (`SessionState::run`) takes frames
off the transport and applies them; the **writer** (`WriterState::run`) is the only
one that writes, picking control frames, then datagrams, then stream data; the
**timer** (`TimerState::run`) pings and closes an idle session. The application
holds `Session`, `SendStream` and `RecvStream` handles in any number of tasks of
its own. They meet in shared state: a mutex around the stream maps, a mutex in
every `Credit` and in the queue, `Notify` and `watch` channels, an unbounded
control lane, bounded accept channels, and a few atomics. Below, the transport has
a task of its own that reads the socket into a bounded channel.

| Part | State | Operations | What makes it correct |
| --- | --- | --- | --- |
| `sched.rs` `PriorityQueue` | bands of ready streams, a FIFO per stream, `len`, `closed`, two `Notify` | `reserve`, `Permit::send`, drop of a permit, `push_now`, `pop`, `set_priority`, `remove`, `close` | the maps agree, no slot leaks, priority then round robin, nobody sleeps through a wake-up |
| `credit.rs` `Credit` | `max`, `used`, `released`, `closed` | claim, release, `increase_max`, `receive`, `consume` | an honest sender is never refused, the receiver's memory is bounded |
| `session.rs` streams | `Streams` maps, `RecvOpen`, the handles | open, write, finish, reset, accept, read, stop, drop; handlers of STREAM, RESET_STREAM, STOP_SENDING, MAX_* | bytes in order, exact final sizes, exact accounting, streams retired once |
| `session.rs` lifecycle | `closed` and `established` watches, lanes, tasks | connect/accept, parameters, close, drop, teardown | calls return, both ends learn of a close, the reason is the right one |
| `session.rs` timer | last-activity clocks, backpressure flags, ping counter | ping, defer, idle close | a live peer is kept, a dead one reclaimed |
| `transport.rs`, `ws.rs` | the reader task and its channel, the WebSocket pump and its deadline, record limits | send, recv, keep-alive, close | frames arrive as sent however they are cut, the end is heard, only silence is a timeout |
| `proto/` | none | encode, decode | what one end encodes every other decodes |
| datagrams | two bounded lossy channels | send, receive | not modelled |
| `alpn.rs`, `config.rs`, `protocol.rs` | none | negotiate | not modelled |

### QMux in TypeScript (`js/qmux/src`)

The same protocol on one event loop: what is atomic is what runs between two
awaits. `session.ts` has the maps of streams, their flow-control records and the
handlers; `scheduler.ts` the queue of the writer loop with one frame in flight;
`credit.ts` the windows; `recv.ts` the receive queue behind a `ReadableStream`.
Hard: credit claimed before an await and returned after a failure, a stream
deleted from a map that a closure still holds, and a close that races with both.

### QUIC back ends

* `web-transport-quiche`: `ez/driver.rs` is polled by tokio-quiche and shares a
  `DriverState` and a lock per stream with the handles; both sides wake each
  other through stored wakers. Hard: the waker protocol, stream limits,
  STOP_SENDING against FIN, close and drain.
* `web-transport-quinn`, `-noq`, `-iroh`, and `connection.rs` of `-quiche`: a session
  over QUIC streams. SETTINGS and CONNECT first; then streams sorted by the header
  each begins with, for several callers at once; `close()`, the reader of the CONNECT
  stream and a timeout race for one error slot.
* `web-transport-proto`: encodings of HTTP/3 settings, CONNECT, capsules, error
  codes, QPACK.

### The rest

The trait crate holds signatures and promises. The facade, wasm, FFI, Node,
Python, Kotlin and Swift packages and the JavaScript polyfills forward calls.

`PROJECT.json` lists every component with its status, and under `hazards` what a
test would hardly reach, at the line where it bites, with the property that
would catch it or the reason why none does.

## Modules

| Module | Models | Checked with | Proved in |
| --- | --- | --- | --- |
| `PriorityQueue` | `sched.rs` | `MCPriorityQueue` | `QmuxTasksProofs` |
| `Credit` | the operations of `credit.rs`, as operators | through its users | `QmuxStreamsProofs` |
| `CreditWindow` | the promise of a pair of credits: a sender, a receiver, a channel | `MCCreditWindow` | `QmuxStreamsProofs` |
| `QmuxStreams` | one direction of data between two sessions | `MCQmuxStreams` | `QmuxStreamsProofs`, `QmuxStreamsFlow`, with `SumProofs` |
| `QmuxSession` | two sessions from construction to the end of their tasks | `MCQmuxSession` | `QmuxSessionProofs` |
| `IdleTimer` | the timer task with the clocks the others publish | `MCIdleTimer` | `QmuxTasksProofs` |
| `JsSession` | two TypeScript sessions: streams, flow control, scheduler, close | `MCJsSession` | `JsSessionProofs`, with `SumProofs` |
| `EzDriver` | `ez/` of the quiche crate: driver, handles, wakers | `MCEzDriver` | `EzDriverProofs` |
| `H3Session` | the WebTransport session of the four QUIC crates | `MCH3Session` | `H3Proofs` |
| `H3Streams` | their stream wrappers, stream errors and datagrams, on top of `H3Session` | `MCH3Session` | `H3Proofs` |
| `ErrorCodes` | `error.rs` of `web-transport-proto` | through `H3Streams`, `H3Wire` | `H3Proofs` |
| `WireBytes` | variable-length and prefix integers | through `Wire` | |
| `Frames` | `proto/frame.rs`, `proto/params.rs`, `frame.ts`, `varint.ts` | through `Wire` | |
| `H3Wire` | `web-transport-proto` | through `Wire` | |
| `Wire` | encoder, transport, reader task, decoder, end of the connection | `MCWire` | |

`QmuxStreams` uses `Credit` for all its counters, and is shown to implement
`CreditWindow` twice: with the connection credits and with the credits of each
stream (`ConnImplementsWindow`, `StreamsImplementWindow`), by TLC on small instances
and by proof for every number of streams and every window. So what is proved of
`CreditWindow` holds of the connection and of its streams. `QmuxSession` and `IdleTimer` look at the same tasks from other sides:
the first has no clock (its `IdleFires` stands for the timer), the second has no
close but its own. `Wire` composes the codecs with the transports; the sessions
above take what it shows (frames in order, an end that is heard) as their channel.

Some properties are conjunctions of named parts (`Accounts`, `EndIsExact`,
`JudgedFairly`, `HandshakeSafe`, `SlotsServed`, `CallsServed`, `Admitted`): each part
has its own definition and comment.

Operators introduced as "Mutant" are wrong versions of the definition that
follows them, the way a slip in the code would look. No specification uses them;
putting one in the place of the right definition makes the property it was
written for fail, which is how we know that the property sees that code.

### PriorityQueue

`keys`/`bands` are the `BTreeMap` (a key may in principle be there with an empty
queue, which `BandsExact` excludes), `slots`/`slotPriority`/`frames` the `HashMap`,
`len` and `closed` the fields. Critical sections are one step. A producer is at the
check, between check and await ("checked"), parked, woken, or holding a permit;
the consumer likewise. `Notify` is modelled as tokio implements it:
`notify_one` wakes the first parked waiter or stores the single permit;
`notify_waiters` reaches every `Notified` that was created, polled or not. Each
call can be cancelled at each await. `remove` announces the slots it freed one by
one after the lock is gone (`owed`, `PayNotify`). `close` is two steps.

Bounds: `MaxFrames` caps the frames a stream ever enqueues.

### CreditWindow and Credit

`Credit` has the arithmetic; numbers are naturals (`WindowTypes` states that no counter
underflows; the u64 upper end is out of reach of a session that moves at most
2^62 bytes). `CreditWindow` lets a sender claim, give back (a reset), transmit,
and a receiver accept, account for a frame nobody wants, read, discard; the
maximum travels back with any delay. `MaxSpend` caps the bytes claimed.

### QmuxStreams

Streams `0..NumUni-1` are opened by the sender; the others are bidirectional
streams opened by the receiver, on which the sender answers. A byte is its
offset, a frame a record with an id, an offset, a length and `fin`. The two FIFOs
of the transport are sequences. Where the code drops the lock between reading a
map and using what it read there are two steps: the STREAM and RESET_STREAM
handlers (`RecvStream`, `RouteStream`, `OfferStream`, `InsertStream`; `RecvReset`,
`AccountReset`, `RetireReset`), `report_consumed` (`pending` is a MAX_* frame
computed and not yet enqueued), and `write_buf` (slot, credit, commit). `Calls`
says which optional calls the applications make; `fault` records an error that
ends the session, where the model stops. A second `RecvStream` may be created for
the same id (`MaxFronts`) when a stream is resurrected, see below.

`stop()` is called once per `RecvStream` at most, also after a reset.

`wired`, `arrived`, `ignored`, `got`, `hole` and `fronts` are history: what was put on
the transport and taken from it, dropped unaccounted, handed to the application. No
guard reads them but the bound on `fronts`.

Three properties say where they stop. `AllRead` assumes that the resets taken by readers left
some connection window (`LostToResets`, see below). `DeliveredInOrder` says nothing when applications
await `RecvStream::closed`, which throws unread bytes away by design, and the limit of
`IndicesExact` nothing when they stop a stream, since a STOP_SENDING that retires a
stream under a RESET_STREAM in progress makes the receiver count it twice. The run of
`DeliveredInOrder` has no closed(), that of `IndicesExact` no stop().

### QmuxSession

Each endpoint has a writer, a reader (which runs the teardown when `run()`
returns), and an application with a `Session` and one `SendStream` at a time. The
transport is a FIFO of `WireCap` frames; a full one blocks a write. `frame` is the
write in flight: a teardown interrupts it only while it is pending. A finished
writer leaves "eof"; an interrupted one drops its half of the transport.
`Scripts` says what the application, the timer and a misbehaving peer may do in a
behaviour.
"io" is whatever the transport says of its end, over a WebSocket a bare `Error::Closed`.
Parameters that are malformed, and everything else that makes `recv_frame` fail,
are the frame "bad". Closing the four session-wide credits is one step.

### IdleTimer

The clock ticks in fractions of the idle window. Every load of a shared clock or
flag is its own step, so the reader and the writer publish in between. A task
that can run does so before the next tick, in any order: the model assumes that
scheduling delays are short against a third of the window. A live peer answers a
ping within `Rtt`, sends on its own within a third of the window, and lets a write
land within `WedgeMax`; an application empties the accept channel within
`ParkMax`. The sequence numbers of the peer's own pings are not followed.

### EzDriver

A step is what runs between two releases of a lock. The driver's task goes through
the cycle of tokio-quiche (`process_reads`, `process_writes`, `poll`, flush); `poll` is
split at every lock it takes, so a handle can act between the drain of the set of
streams and the flush of each of them. `awake` is the set of tasks whose waker was
invoked: a task that sleeps and is not in it waits for somebody. `drv` is
`DriverState`, `ss` and `rs` the `SendState` and `RecvState` of each stream, `q` and `qs`
what quiche itself holds (external), `sends` and `recvs` the driver's maps. A plan says
which streams there are and which calls are made. Bytes are counted. Of quiche it is
assumed that a stream that was refused capacity becomes writable again when the
connection gets credit, and that events are delivered in `net` only, by the driver's
own task. `EarlyStop` lets the peer stop a stream before it is accepted. A `closed()` of a
receive stream waits until the bytes in front of the FIN are read too (`ez/recv.rs:106`), so it
may sleep after the driver has let go of the stream: only its own task can end that, by
reading, which `StreamCallsServed` says (`unread`).

### JsSession

`sess[e]` is the `Session` object of an end: credits, flow-control records, receive
streams, the scheduler's queues and the frame it is writing. A `WritableStream`
calls `write`, `close` and `abort` one after another, as the platform does, so a stream
has one write at a time and its phase (`at`) is where it awaits: connection credit,
stream credit, its turn in the queue. `hist` records what was handed to the
application and put on the wire. A plan chooses streams, bytes and calls: cancel,
abort, close, refuse (the acceptor goes away), end (`session.close()`), fail (the
socket goes away), order (priorities). The end of a session accounts only for the streams
that wait for the acceptor. A `sink.write` that fails (`scheduler.ts:265-272`) is not modelled.

### H3Session

Both ends run one of the four crates, or a peer that closes its own way ("other"). The
QUIC connection is external: streams are ordered, a CONNECTION_CLOSE may overtake what
they still carry, a dead network ends in a timeout. Where the crates differ each has
its own definition (`QuinnTimed` and `NoqTimed`, ...). The accepting half has a poll per
caller, the `FuturesUnordered` of streams whose header is being read, of which only the
last poller's waker is kept, and the list of the others' wakers. A plan says which
crates meet, what the server answers, who closes with which code, whether the peer
grants credit for the capsule, which streams arrive and who accepts them.

### H3Streams and ErrorCodes

`H3Streams` continues `H3Session` behind the accepted stream: stream 1 of the plan is written
by the client and read by the server, and `plan.io` names the calls their applications
make. What QUIC itself does with a stream (its room, its own codes for streams that are
dropped, the order of its errors) is external; what the crates add to it, `write_buf`,
the conversion of codes both ways, `map_error`, the drop codes of quiche, `stopped()` and
`received_reset()`, has one definition per crate. A call of `write_buf` is two steps, the
bytes it looks at and the moment QUIC accepts some of them, and may be dropped in
between. The bytes of the caller's buffer are numbered, so that a hole is visible.
Datagrams are sets of session id and length; they may be lost. `ErrorCodes` is
`error.rs` with the width of u32 and the two ends of the range as constants; the run uses a
range of 101 codes with three gaps.

### Wire

`WireBytes`, `Frames` and `H3Wire` work on sequences of bytes: a decoder returns a value
and what is left, "need more", or malformed, as the code's `UnexpectedEnd` and errors
do. `Wire` sends the items of a plan through an encoder (Rust, TypeScript, or bytes
only another implementation sends), a byte stream delivered one byte at a time or a
WebSocket of whole messages, the reader task with its bounded channel, and the decoder
of the session. `Http3CapsuleReader` keeps its buffer (`held`) between DATA frames.
The WebSocket pump has the keep-alive with its deadline; a tick is a fraction of the
timeout. `Break` ends the connection at any point.

Texts are short byte strings; identifiers above 32 bits are stood for by other values
of the same eight-byte size, because TLC's integers have 32 bits.

## Runs

All runs use model values or small numbers; `CHECK_DEADLOCK FALSE` because in
each of them the program may stop: applications are done, queues are closed.

| Run | Instance | States | Shows |
| --- | --- | --- | --- |
| `priority_queue` | 2 streams, 2 priorities, capacity 2, 3 frames per stream | 645 k | `IInv` of the proof (the maps agree, `len` is exact, FIFO), `ConsumerAwake`, `SlotsServed`, `PriorityThenRoundRobin` |
| `credit_window` | window 3, 7 bytes | 574 | `WindowInv`, `MemoryBound` |
| `streams` | 1 stream, connection window 3, stream window 2, 4 bytes, every call but closed() | 2.2 M | `Accounts`, `EndIsExact`, `DeliveredInOrder` |
| `streams_two` | a unidirectional stream and the answer on a bidirectional one sharing a window of 2; reset() and closed() | 457 k | `ConnImplementsWindow`, `StreamsImplementWindow` |
| `streams_live` | 3 streams of a byte for a limit of 2, one queue slot, one accept slot, all windows of 1; reset() | 496 k | `IndicesExact`, `AllRead` |
| `streams_stop_race` | 1 stream | | violation of `LiveStreamStaysLive` |
| `idle_timer` | window 2, writes pending up to 2, accept full up to 3 | 3.3 M | `JudgedFairly`, `SilentPeerReclaimed` |
| `session` | transport of 1 frame, accept channel of 1, six scripts | 241 k | `HandshakeSafe`, `ConnectExplains`, `CallsReturn`, `ClosePropagates` |
| `ez_driver` | ten plans: two openings, each end of a send and of a receive stream, both directions of a bidirectional one, datagrams, four ways the connection ends; 2 bytes, reads of 2 | 1.6 M | `DriverAwake`, `CallsServed`, `OpensWithinLimit`, `OneCause` |
| `js_session` | ten plans, windows of 2, up to 3 bytes and 2 streams | 842 k | `Accounts`, `NoSleeper`, `Admitted`, `FinMeansAll`, `GracefulSeenGraceful` |
| `h3_session` | every pair of crates through handshakes, closes and lost connections; up to three streams and two callers; one stream with every call on its halves; datagrams | 139 k | `SessionsAgree`, `HandedOnce`, `StreamCodesExact`, `BytesExact`, `DatagramsExact`, `CloserSeesLocal`, `CloseCompletes`, `CodeReachesPeer`, `AcceptServed` |
| `wire` | every frame through every pair of encoder and decoder, records and messages at their limits, HTTP/3 streams; channel of 1, timeout of 2 ticks | 25 k | `SameMeaning`, `EndHeard`, `OnlySilenceKills` |

Why the bounds are enough. The queue's races need two producers on a full queue and a
third party (the consumer or a reset) that frees slots: capacity 2 with two streams of
three frames gives FINs past the bound, two notifications at once, and a re-armed stream
behind another. A window of 2 or 3 is smaller than what is written, so each run needs
window updates, and `consume`'s threshold of half a window is crossed at different
moments; in `streams` the connection window is one larger than the stream's, so each of
the two blocks a write the other would let through. Two streams are what skipped indices
and a shared window need; with a third, one waits for the limit and for the accept channel
while the two before it hold the window. In `session` each script is one way to end a session, with both
kinds of entry point; a transport of one frame makes every write find it full at some
point, and two streams with an accept channel of one park the reader. In `idle_timer` a write and an accept channel
that block for a window and more bring a live peer to the deadline, where only the flags save
it; `MCIdleTimer` explores states up to a shift of the clock, so the run has no horizon.

The newer runs are sums of plans, because the calls of one stream multiply: each plan has
the actors of one hazard. In `ez_driver` two bytes and reads of two let a read return with
part of what it asked for, so that bytes arrive that no call waits for; two openings are
what the count of remaining streams needs.
In `js_session` two writers share a window neither fits in, and a slot for one stream is
used twice. In `h3_session` the plans with two callers have a stream that never sends its
header or belongs to another session before the one they wait for; a buffer of three bytes
in chunks of two over a window of two makes a write partial, and the two codes lie on both
sides of the first gap. In `wire` the integers lie on both sides of each boundary of their
sizes, and a channel of one makes the reader wait for the session at every step.

The bound of `SilentPeerReclaimed`, four windows after the last receive, is nearly met: a receive entitles one send to restart the
deadline, and a write that is pending when the deadline passes buys a further
window of grace, once before and once after.

Fairness. `streams_live`: every task that can run is polled, and patient applications
open, write, finish, accept and read. `session`: the program as a whole does not stop
while a task or a call can go on, including an application that accepts what it is
offered; since no behaviour is infinite this is weaker than fairness for each task.
`h3_session`: packets that were sent arrive unless the connection ends, tasks whose waker
was invoked are polled, a timer that was started fires, and the applications come to the
calls their plan has. `wire`: while the sender, the network, a task or the session can
move, one of them does; this is weak fairness of their disjunction, written with `Ready`
in the place of ENABLED, which TLC evaluates at every state. Elsewhere no fairness is
assumed of resets, closes, drops or cancellation.

## Proofs

TLAPS checks every proof; nothing is assumed but the named `ASSUME`s on the
constants.

Every theorem is of the form `Spec => []P` or `Spec => A`, for every value of the
constants the assumptions admit. A proof shows that an invariant is inductive, with one
lemma per action (or per operator, where an action composes several) and a step per
conjunct the action can disturb; lemmas say what the model's operators return. The
invariants were checked by TLC on the instances of the runs before they were proved; two
of them (`IInv` of the queue, `WindowInv` of the credit window) stay in the runs.
Components proved in one module have names of their own for what each specification has
(`IdleSpec`, `WindowSpec`).

### Assumptions

They are stated where the constants are declared, TLC evaluates them in the runs, and the
code justifies them by types or by constants: priorities are bytes, capacities and windows
are positive (`session.rs:1554`, the defaults of `config.rs` and `session.ts`), codes
are `u32` and the range of HTTP/3 codes is as long as `error.rs` makes it, lengths and delays
are naturals, the set of streams is finite, a server that rejects does so with a status
other than 200, and a plan or script names calls that exist. There is one hypothesis beyond
these, `Responsive` of `LivePeerIsJudgedFairly`: a peer that sends something every third of
a window is heard within the window when nothing blocks (`PingEvery + Rtt < Idle`), a write it
stalls and an accept channel the application leaves full may block for longer than a window
but not for two, and the reader's channel has room for a frame. The code allows one window
of grace: beyond that it does close the session.

### The queue: `QmuxTasksProofs`

`QueueTypes`, `MapsAgree` (`BandsExact`), `CountIsExact` (`LenExact`) and `FramesInOrder`
(`StreamFifo`) follow from `QueueInvariant`, that `IInv` is inductive. None of the parts is
inductive alone. `LenExact` counts permit holders by their state, and a notification
moves a producer to "woken": without `WaitersParked` (whoever is parked on `has_space` is
waiting, and parked once) a stale entry could take a permit from its holder and the count
would be off. `BandsExact` needs `StreamFifo`'s types, and the finiteness of `Queued`
carries the cardinality argument. The lemmas that come first say what the sequence
helpers do to bands (append, unlink, pop the head) and how each changes the count of
queued frames.

`ConsumerNeverSleeps` and `SlotsAreServed` need `AwakeInv` on top of `IInv`. A producer
that waits has somebody who will announce a slot (`Announced`); one between its check and
its await may instead rely on the permit that `has_space` stores. The second half is what
makes the first inductive: the await turns a stored permit into a wake-up. `DataBounded`
is inductive together with `IInv`: a permit is given only while `len` is below the bound,
`len` counts data, FINs and permits alike, and only FINs go past the bound. `ServedInTurn`
is an action property: `pop` takes the head of the highest band, and a stream that is
armed again goes behind those that were there.

### Credits: `QmuxStreamsProofs`

`WindowInvariant` shows `WindowInv` inductive: `Accounting` (every byte claimed is queued, on the
transport, accounted for or lost), `Ordered` (spent ≤ known ≤ advertised) and `Earned` (the
window moves by what was read). `SenderNeverRefused` needs the first two together: the
bytes on their way plus those accounted for are at most what was spent.
`ReceiverMemoryBound` and `WindowIsEarned` come from `Earned`.

### The streams of a session: `QmuxStreamsProofs`, `QmuxStreamsFlow`

The argument follows a byte. What an application wrote to a stream is cut into frames
that lie, in this order, in the outbound queue, on the transport, with the reader (which
may wait for the accept channel), in the channel of a `RecvStream` and in its buffer.
`Core` says that these pieces fit:

* `SenderInv`: the frames queued for a stream are a chain of offsets from `sent_offset` to
  what was written; a FIN is the last of them, an aborted stream has none and one
  RESET_STREAM at most.
* `WireInv`, `OrderInv`: the frames of a stream on the transport are a chain up to
  `sent_offset`, a RESET_STREAM names that number, and nothing follows an end.
* `MapInv`, `ReaderMapInv`, `AcceptInv`, `FreshInv`, `StopInv`: which ids the receiver knows
  (`streams.recv`, `created_max`, `holes`) against which frames are still to come; what the
  reader decided before it gave up the lock is still true, or was undone by a stop; a second
  `RecvStream` for an id needs a stop of the first.

`EndsExact` follows from `Core`. `InOrder` adds `SeenInv` and `DeliverInv`: what was received,
lies in the channel and was handed out is a chain too, so the next chunk starts where the
last ended although nobody compares offsets. None of the properties is inductive: that no
gap opens in the receiver rests on the order of the transport, which rests on the order of
the queue.

`AccountsAgree` (`Books`) is the balance of credit. `Grows` and `MaxInv`: credits only grow,
and each maximum that is computed, queued, on the transport or known to the sender is one
the receiver granted; so spent ≤ known ≤ granted, per stream, for the connection and for
stream indices (`StreamCovered`, `ConnCovered`, `LimitCovered`) and no step of the reader
can refuse a frame. `HeldInv`: what a `RecvStream` holds was counted by its credit and is
not yet consumed. Each step moves bytes between two places of the balance.
`IndicesAreExact` counts, for `UnstoppedInv`, the limit against the streams that are done;
`LiveUnlessStopped` is the other half of the run `streams_stop_race`: without a stop the
`expect` cannot fail.

`ConnectionIsWindow` and `StreamsAreWindows` are the refinements. Every step of the model is
shown to be a named step of `CreditWindow` under the mapping, or to leave it unchanged
(`ConnSpends` ... `ConnRests`, `StreamSpends` ... `StreamRests`): a commit spends, a reset gives
back, the writer transmits, a routed frame arrives, a late one is ignored, a read reads,
a drop or a taken RESET_STREAM discards, a MAX_DATA teaches. They hold as long as no
stopped stream comes to life again, which starts a second count of its bytes (see below);
`UnstoppedIsWindow` and `UnstoppedStreamsAreWindows` have no such condition when
applications do not call stop(). `MemoryIsBounded` states the consequence the code's
configuration promises: at most `max_data` bytes of all streams and `max_stream_data` of
each wait in memory, for any number of streams.

### The life of a QMux session: `QmuxSessionProofs`

`HandshakeIsSafe`: an endpoint that follows the protocol is never accused, and a stream
opened around the arrival of the parameters is credited. `LinesInv` follows the parameters
along the line: they are first on the control lane, in the writer's hand, first on the
wire, read, or given up by a writer that ended before it sent anything; in each case
nothing is in front of them. `FailedConnectExplains`: `ExplainInv` orders the teardown, a
reader that left its loop has an error, one that drops the backend has stored it, and while
`connect()` waits nobody stores the reason of a dropped `Session`.

### The idle timeout: `QmuxTasksProofs`

`SilenceIsBounded` proves the bound of four windows. `ActivityInv`: a send restarts the
deadline only while no send has done so since the last receive, so the last one that counted
is within two windows of that receive; `DeadlineInv`: the clock has not passed the deadline,
which a deferral moves by one window at most. Two and one and one are the four.
`AnswersAreRecognised` (`PingInv`): a ping is counted before it is queued, so every answer on
its way is below the counter. `LivePeerIsJudgedFairly` adds `LiveInv`: a live peer that was not
heard for a window has an excuse, a task of ours that is blocked since before this instant or was
until now (`HeardInv`); the timer, which loads clocks and flags one by one, finds the flag of
such a task up (`WatchInv`); and a grace once granted does not end before the excuse does
(`GraceInv`). The instant in which the excuse ends is excepted, see below.

### The quiche driver: `EzDriverProofs`

`Touched` says once, for every part of the state, which of the fifty actions change it; each
invariant below is then shown only for the steps that touch what it is about.
`OpensStayWithinLimit`: the capacity the handles may still spend, plus the streams they
have left for the driver to create, never exceeds what quiche will accept.
`ConnectionEndsForOneCause`: `ReasonsInv`, the latches, quiche and every call that failed
agree on the reason asked for first; with it goes that only a FIN that meets a
STOP_SENDING ends the connection for what happened to a stream. `DriverNeverSleepsOnWork`:
`RestInv`, from the end of a poll that found nothing until the driver is woken, its waker
is stored where every step that makes work for it takes it (the flush after the poll
included, which `DriverAwake` does not mention); `EarlyInv` covers the handshake, when the
waker is not stored because nobody has a handle.

`EverySleeperIsServed` proves `CallsServed` from two invariants. `ServeInv` is about one
stream at a time (`StreamOne`): an id that was taken but not created is known to nobody else
(`NewOne`), a stream the peer opened is blank until it is accepted (`FreshOne`), and the two
sides (`SendOne`, `RecvOne`): what it means that a side is closed, that the driver keeps a
stream until then, what a call saw when it decided to wait, from the moment it gave up the
lock of the stream (`Waits`, before it sleeps) until its waker fires, and that credit or data
meanwhile leave a trace, an event of quiche or an entry in a set the driver still has to go
through. The weak point is the flush, which changes the state a call relies on: it takes the
waker in every case but those in which there is nothing new (`SendShapes`, `RecvShapes`).
Every other step touches one stream (`Touch`, `At`) or none (`Still`), and `SameAtKeeps`
carries the rest over. `WatchInv` is about one sleeper at a time: its waker is in the latch
whose step ends its wait. A step either ends nobody's wait (`Calm`), or fires the latch it
changes (`AbortWatches`, `EndWatches`, `PollWatches`, `ConnectedWatches`), or puts one task to
sleep under the lock under which it saw no error (`CheckWatches`, `OpenWatches`). The theorem
assumes `~EarlyStop`: with an early stop the property is false, see `ClosedMeansFin` below.

### WebTransport over HTTP/3: `H3Proofs`

For every pair of crates, any plan and any number of callers.
`CodesCross` (`StreamCodesExact`): `CodesInv` says which code is on the wire and on whose
behalf, and that it no longer changes once the peer may have seen it; `CodesRoundTrip` is
the arithmetic of `error.rs`, for every width: the gaps every 31 codes are skipped on the way
out and back. `BytesCross`: the buffer stands right before the bytes offered, or behind them
with the crates that take them out first, whose cancelled writes the property excludes.
`DatagramsCross`: what is on the way under this session's id was sent. `AcceptedOnce`: a
stream is arrived, being read or handed out, one of the three, and none of this session's is
lost. `HandshakeAgrees`: until the client has read it the response is the first frame
on the way to it. `CloserToldLocal` is an action property, from `CloserInv`: the task that
sends quinn's capsule belongs to a session that has recorded its own close, and nothing is
recorded over that.

### QMux in TypeScript: `JsSessionProofs`, `SumProofs`

`IInv` is a conjunction over the two ends of three invariants of a session object, each
about fields the others do not mention:

* `SendInv`: a writer exists for streams that were opened or seen (`Named`), the
  scheduler has one frame of a stream at most and it is the one its writer waits for
  (`Framed`), credit is in the hands of writers that have a frame (`Hands`), who sleeps finds
  no credit (`Sleepless`), and the connection credit used is what was paid plus what the
  writers hold (`Conserved`). `Conserved` needs the others: credit returned after a failure
  is returned by the writer whose frame it was, once. Gives `SleepersHaveNoCredit` and
  `CreditIsConserved`.
* `DataInv`: bytes received are consumed or buffered (while the session is open: its end
  discards buffers without counting), and the announced maximum is within a window of what was
  consumed. Gives `BytesAreConsumedOnce`.
* `AdmitInv`: what a record of a stream implies (`Seen`), the streams that wait for the
  acceptor are there once and were not handed out (`Waiting`), and the slots:
  `max + released` of a direction is the limit plus the number of streams that freed theirs
  (`Slots`, `Freed`). Streams seen have distinct indices below `max`, so those that have not
  freed their slot are at most `limit`. Gives `StreamsAreAdmitted`.

The handlers compose operators on the session object, so the proof goes operator by
operator: `XDoes` says what X changes, `XKeeps` or `XStep` that the invariant survives it.

The sums over streams are `SumFunction` of the community modules, a fold that chooses an
element at each step. `SumProofs` shows what it computes: for a finite set the value does
not depend on the choice, changing one summand changes the sum by the difference, a sum of
naturals bounds each of them, and for sequences Append and Tail add and take off one. It
argues from a minimal counterexample among the subsets of the finite set, which needs no
induction theorem with an operator parameter.

### Only model-checked

* All liveness: `AllRead`, `CallsReturn`, `ClosePropagates`, `CloseCompletes`,
  `CodeReachesPeer`, `AcceptServed`, `EndHeard`. The prover does not do fairness.
* `HonestNotAccused` (the third part of `Accounts`), `FinMeansAll` and `GracefulSeenGraceful`
  of `JsSession`: they relate the books of one end to what the other has on the wire, which
  the invariant per end does not.
* `Wire` and the codecs (`SameMeaning`, `OnlySilenceKills`): what a recursive decoder
  computes for every input needs induction over data, and the modules declare RECURSIVE
  operators, in whose presence the SMT back end is not available.

## What the models found

`LiveStreamStaysLive`: the RESET_STREAM handler looks a stream up twice and expects to
find it again (`.expect("live recv stream")`, `session.rs:1188`); a STOP_SENDING
transmitted in between removes it. The run `streams_stop_race` expects the violation and
`PROJECT.json` quotes the line.

Nine more properties state what a comment says and do not hold. They are kept in their
modules; to see the trace, check the property in the instance named.

* `NoLostNotify` (`PriorityQueue.cfg`): the comment in `reserve` (`sched.rs:102-103`) says
  a `notify_one` between check and await is not lost. Two of them for two producers are
  kept as one permit.
* `WindowUpdatesHarmless` (`QmuxStreamsTwo.cfg` with `Chunk = 1`, no calls): two tasks that
  read two streams can enqueue their MAX_DATA in the opposite order of their values
  (`session.rs:2330`), and the peer ends the session (`session.rs:1275`), where QUIC,
  whose semantics `rs/qmux/README.md:7` claims, ignores the smaller one.
* `StableCause` (`QmuxSession.cfg`): `note_closed` says that the first reason wins and
  that every task goes through it (`session.rs:318-320`); the reader and `close()`
  overwrite the reason (`session.rs:1256`, `1266`, `1753`, `1949`).
* `ClosedMeansFin` (`EzDriver.cfg` with `EarlyStop = TRUE` and `Plans <- EarlyPlans`):
  `SendState::flush` takes the stop it had recorded (`ez/send.rs:142`), and `accept_bi`
  keeps a send half whose first flush found one. The next flush forgets it: `closed()`
  returns Ok although no FIN was sent (`ez/send.rs:103`, `383`), and a write sleeps on a
  stream the driver no longer has.
* `InFlightDataCounted` (`JsSession.cfg` with `Plans <- CancelPlans`): "Discarded bytes free
  memory immediately and therefore count as consumed" (`session.ts:1418`), but a
  cancelled stream is deleted from `#recvStreams`, so what is on the way meets the early
  return at line 1264 and is never counted: the connection window shrinks for good.
  `NothingAfterReset` (`Plans <- ResetPlans`): `dropStream` drops "a stream's pending data"
  (`scheduler.ts:173`), but a write parked on credit goes on after STOP_SENDING and puts a
  STREAM frame behind the RESET_STREAM (`session.ts:1076`).
* `DropCloses` (`H3Session.cfg` with `Plans <- DropPlans`): "The session will be closed on
  drop" (`web-transport-trait/src/lib.rs:77`); the task that watches the CONNECT stream
  of a quiche session holds a clone of it (`connection.rs:108`), so dropping every
  handle closes nothing. iroh's HTTP/3 sessions do the same; quinn's and noq's only
  finish the CONNECT stream.

* `CancelSafe` (`H3Session.cfg`): "if the returned future is dropped before it resolves,
  `buf` must not have been advanced past the bytes the implementation accepted for
  sending" (`web-transport-trait/src/lib.rs:154-156`). `write_buf` of noq
  (`web-transport-noq/src/send.rs:171`) and of iroh (`web-transport-iroh/src/send.rs:139`) copies
  the chunk out of the buffer and then waits: a cancelled write leaves a hole in the
  stream. The comment in `web-transport-quinn/src/send.rs:169-174` describes the mistake; the
  mutant of `QuinnWriteBuf` puts it back and breaks `BytesExact`.
* `StopCodeKept` (`H3Session.cfg`): "Tell the other end to stop sending data with the given error
  code" (`web-transport-quiche/src/recv.rs:52`). A `RecvStream` that is dropped before the driver
  has flushed its `stop(code)` is not closed yet, and the drop code replaces the one given
  (`recv.rs:67`).

Observed while modelling, without a property:

QMux in Rust
* `write_buf` keeps its queue slot while it waits for credit. As many streams that
  nobody reads as there are slots (8) stop every other stream
  (`session.rs:2181-2186`; the trait's README advertises independent streams).
* The timer loads `reader_backpressured` (`session.rs:834`) after the clock. If the reader
  delivers in between it lowers the flag (`session.rs:1059`), and a live peer is closed in the
  instant in which the backpressure ends. `LivePeerKept` excepts that instant.
* A reader that takes a RESET_STREAM throws unread bytes away and returns no connection credit
  (`session.rs:2385`): resets that cost the whole window stop every stream.
* A `RecvStream` dropped with unread bytes returns none either (`session.rs:2339`); the trait asks for STOP_SENDING on drop "otherwise flow
  control will be leaked" (`web-transport-trait/src/lib.rs:303`).
* After the STOP_SENDING race above, a late frame may open a stopped stream again
  (`session.rs:991-994`), and its index then counts twice towards MAX_STREAMS.
  `EndedStaysEnded` is therefore about streams that ended by FIN or RESET_STREAM, and
  `DeliveredInOrder` about streams without a resurrection.
* `finish()` called twice emits two FINs (`session.rs:2241`); `reset()` after
  `finish()` does nothing (`session.rs:2219`, against `lib.rs:221` of the trait);
  `RecvStream::closed()` discards unread data (`session.rs:2428-2452`).
* `close()` while a write is pending abandons the APPLICATION_CLOSE with it: the peer
  sees a dead transport (`session.rs:463-466`). The flush at teardown has no such
  escape (`session.rs:426`), and a reader parked on a full accept channel does not
  see the close (`session.rs:1058`).

quiche driver
* `RecvStream::closed()` resolves only once the data was read (`ez/recv.rs:140`, `328`).
* A FIN that meets a STOP_SENDING ends the connection (`ez/send.rs:186`);
  `StreamErrorsLocal` has this exception.

QMux in TypeScript
* The final size of a RESET is read while a frame is being written and may be too
  small; the receiver tolerates it. `abort()` waits for a parked write. A STOP_SENDING
  for a bidirectional stream whose write is parked leaves the write pending until the
  session ends. Streams refused for want of an acceptor never replenish MAX_STREAMS.

HTTP/3 sessions
* noq's `close_with_capsule` has the write and the finish outside the timeout
  (`session.rs:391-392`: "(or timeout), then force-close"); its `map_error` lets the
  closer see its own code echoed by the peer. `CloseCompletes` and `CloserSeesLocal` say
  which crate they are about.
* After the connection is lost, or closed by the peer without a capsule, quinn and noq
  report `LocallyClosed` (`session.rs:50-52`).
* iroh and quiche read capsules without DATA frames, so the capsule of a quinn or noq
  peer looks unknown to them and its code is lost; iroh never builds
  `WebTransportError::Closed`.
* iroh and quiche keep no list of wakers for accept: two concurrent callers lose a
  wake-up. quinn and noq keep one, which "fixes the lost-waker bug" (`session.rs:581-583`) when
  a caller gets a stream, not when the last poller is cancelled. `AcceptServed` is checked for
  the callers each crate supports, none of them cancelled beside another.
* quiche compares no subprotocol. `Request::reject` drops the connection at once, which
  may overtake the status it sent.
* quiche's `closed()` may return Ok for a FIN that was not flushed before the connection ended
  (`ez/send.rs:97-111`). Dropping quinn's or noq's session stops the streams not handed out yet
  with code 0, which is not modelled.

Encodings
* A text message on a WebSocket is dropped by the Rust pump and fatal in TypeScript.
  `Http3CapsuleReader` takes a close capsule shorter than 4 bytes for an incomplete one,
  where `Capsule::read` fails. `decode_qmux` ignores trailing bytes. Rust sends
  `application_protocols`, which TypeScript refuses. A `max_record_size` of 0 is not
  written and reads back as the default. Repeated headers collapse to the last.

## Not modelled

* Datagram channels of the QMux sessions: lossy by design, nothing to promise but a bound.
* Negotiation by ALPN and configuration: functions of lists of names.
* `tcp.rs`, `tls.rs`, `uds.rs`, the endpoints and TLS set-up of each back end: they open
  what is modelled.
* The facade, wasm, FFI, Node,
  Python, Kotlin and Swift packages and the JavaScript polyfills: they forward calls and
  convert errors.
* The Huffman code of QPACK, which is a table; of the static table the lines the headers
  can meet are there.
* Texts that are not UTF-8, URLs and header names that do not parse: further ways to be
  malformed.
* Of modelled parts: in `QmuxStreams` the legacy `webtransport` wire format (no parameters,
  no flow control; its codec is in `Frames`), negotiation of the application protocol,
  the u64 limits of offsets; in `JsSession` the idle timer and the legacy version.

## Plan

What is left is proof. `JsSession`: an invariant across the two ends (what one has announced, spent and put on
the wire against what the other has received), for `HonestNotAccused`, `FinMeansAll` and
`GracefulSeenGraceful`.
