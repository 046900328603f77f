# PhoenixWire in TLA+

This directory holds TLA+ models of WirePhoenix (PhoenixWire), TLC
configurations that check them on small instances, and TLAPS proofs of what
holds for every instance. The models are written from the C and PHP source, not
from the documents; where a document and the code disagree, a run shows it
(see *Findings*).

## The system

PhoenixWire is a framed message protocol over TCP: a C core with two sample
programs, a PHP extension and a PHP library.

| Component | State | Operations | Interacts with |
|---|---|---|---|
| transport buffers, `native/src/pw_transport.c` | two 4096-byte arrays with position and length | init, read (full test, compaction, `recv`), write (`send`, advance, reset) | the event loops consume from and queue into the arrays directly |
| connection life cycle, `pw_connection.c` | one of eight states | init, transition (refuses what the life cycle does not allow) | every caller ignores the result |
| server loop, `server_main.c` | one accepted connection at a time: transport, connection, `errno` | accept, poll, read, parse per state, write, close | clients, by TCP |
| client loop, `client_main.c` | the same | connect, hello, auth, data, ping, close | the server, by TCP |
| frame, varint, handshake, auth codecs | none | serialize, parse | the event loops |
| flow control, `pw_flow.c` | a limit and a counter for each direction, 32 bits | can_send, on_enqueued, on_sent and the same for receiving | only tests |
| heartbeat, `pw_heartbeat.c` | two times, two spans, a flag | on_recv, on_send, should_ping, is_timed_out, on_pong, on_ping_sent | only tests |
| PHP server registry, `Server.php`, `Session.php` | sessions by key, activity times | addSession, removeSession, sweepIdleSessions, broadcast | application callbacks, which may call back |
| PHP async client, `AsyncClient.php` | attempts, schedule, wasConnected | tick | extension client, application callbacks, which may tick again or throw |
| PHP extension client, `extension/src/phoenixwire.c` | connection, transport | connect, disconnect, getState, free | connection life cycle |
| PHP stream client, `StreamClient.php` | a stream, blocking until connected | connect, send, receive, disconnect, with codecs of its own | any server |

What is hard here: system calls of two programs interleave, reads and writes
are short, `errno` is read long after it was set, a peer may close, reset or
die between any two steps, `SIGPIPE` kills a writer, counters have a width,
timers race with late answers, PHP callbacks re-enter the object that calls
them. What correctness means, component by component:

* transport: each direction is a byte stream, whatever the sizes of the reads and writes;
* life cycle and loops: the two ends agree on where they are, every conversation ends, the server always returns to `accept`;
* flow control: a limited queue never outgrows its limit and is never locked for good;
* heartbeat: live peers are kept, dead ones found in bounded time;
* registry: the quota holds, each session is announced and taken leave of once, a sweep evicts exactly the idle;
* server and other peers: only the authenticated are served, and no peer keeps the server once it has left;
* async client: callbacks alternate, retries come no sooner than the policy allows, the application is told in the end;
* codecs and stream client: what one side writes the other reads, however the bytes are cut.

## Modules

| Module | Models | Notes |
|---|---|---|
| `ByteStream` | abstract | bytes put in come out once, in order |
| `PwTransport` | `pw_transport.c`, `.h` | the struct as a record, C arrays as functions on `0..PW_BUFFER_SIZE-1`, operations as operators; memory nobody wrote holds `NoByte` |
| `TransportStream` | one transport between socket, parser and queueing code | histories at the four ends; implements `ByteStream` twice |
| `PwTransportProofs` | | what the transport's operations do to its windows, for every user of it |
| `TransportStreamProofs` | | proofs about it |
| `PwConnection` | `pw_connection.c` | `Allowed`, `Transition` |
| `Tcp` | the kernel (external) | ordered bytes, close, reset |
| `EventLoop` | what both loops share | loop test, poll, read with the `errno` test, write with the CLOSING test; one system call per step |
| `ClientMain`, `ServerMain` | `client_main.c`, `server_main.c` | connect/accept, one action per parse case, close |
| `Session`, `SessionProofs` | clients and server composed | fairness and properties |
| `ServerPeers`, `ServerPeersProofs` | the server with peers other than `client_main.c` (external) | peers pipeline, are refused, send too much, leave |
| `PwFlow` | `pw_flow.c` | counters modulo `UINT32`, against the true queue |
| `PwHeartbeat` | `pw_heartbeat.c` | with the timer, clock and peer of an application around it (external) |
| `PwLibraryProofs` | | proofs about these two, the parts of the library that only an application would call |
| `PhpServer`, `PhpServerProofs` | `Server.php`, `Session.php` | call stack as a sequence, callbacks as application steps |
| `ExtClient` | `extension/src/phoenixwire.c` | the object's methods as operators on the connection state |
| `AsyncClient`, `AsyncClientProofs` | `AsyncClient.php`, `Policy.php`, `Client.php` | call stack as a sequence, each entry with the state it has read and its age; times relative to the clock |
| `PwCodec` | `pw_varint.c`, `pw_frame.c`, `pw_handshake.c`, `pw_auth.c` | parsers and serializers as operators on sequences of bytes |
| `StreamClient`, `StreamClientProofs` | `StreamClient.php` | its own encoders and decoders, against a peer that uses `PwCodec`; the proofs cover the codecs of both |
| `MC*` | | instances for TLC |

Data is abstracted to what the properties tell apart. In the session a message
is a record with its kind, owner, version or token, and travels as
`Cells[kind]` numbered cells, so that it can be cut on the wire anywhere; the
parsers' "wait for more" is `Complete`. Logging is left out. Definitions named
`XSomething` with a comment "Mutant of X" are deliberate bugs that show that a
property can fail; no specification uses them.

Three constants select between what the code does and a premise:

* `ConnectingFirst` (`ServerMain`). As built (`FALSE`) `server_main.c:68`
  requests HANDSHAKING from DISCONNECTED, which is refused, and every
  connection is closed at once. With `TRUE` the connection is first moved to
  CONNECTING as `client_main.c:48` does: the only way to say anything about the
  server's dispatch code, which is otherwise dead. Results for it are
  conditional on that repair.
* `ShortWrites` (`StreamClient`). `FALSE` in the run: `fwrite` takes whole
  frames. With `TRUE`, a partial write on the non-blocking stream, whose result
  `StreamClient.php:173` does not look at, and `DialectsAgree` fails.
* `QueueAtFront` (`TransportStream`). The callers queue at
  `write_buffer + write_len` whatever `write_pos` is (`FALSE`); `TRUE` is the
  discipline under which that is right. `RepliesQueuedWhenDrained` shows that
  the two programs keep to it, because they talk in lock step.

## Runs

| Run | Shows | Bounds |
|---|---|---|
| `transport` | types, windows inside the arrays, both windows intact, both halves refine `ByteStream` | arrays of 3 bytes, 4 bytes each way, 2 byte values: enough for compaction, a full buffer, short reads and writes, and reuse of the arrays |
| `transport_queue` | violation: queueing behind a short write corrupts the output | the same |
| `session_dispatch` | whole messages only, lock step, the client never ahead of the server, the server killed only in the CLOSE race; every client ends, the server comes back, clients are served | 2 clients, buffers of 3 cells, messages of 1 or 2, one fault (spurious wake-up, poll error or client crash) |
| `server_peers` | the server serves only the authenticated, never leaves a refused peer first, and is free again once its peer leaves | 2 peers, 4 messages between them, buffers of 3 cells, a frame of 4 cells that does not fit, one spurious wake-up |
| `session_handshake` | violation: no handshake completes as built | the same without faults |
| `flow` | limits hold, counters exact, an empty queue accepts | 16-value words, limits 0, 1, 6, 9 |
| `flow_wrap` | violation: the sum wraps around | limit 10, requests up to 8 |
| `heartbeat` | one ping, live peers kept, silent ones found, idle ones pinged, no needless pings | interval 3, period 2, round trip 2, timeout 7, the least that is enough (6 fails) |
| `php_server` | quota, bookkeeping, sweeps | 3 sessions with keys of their own, quota 2, calls nested to depth 3, clock to 3; sessions are symmetric |
| `async` | callbacks alternate, schedules are dropped on recovery, backoff holds, the application is told, retries go on to the last | 3 attempts with backoffs 2, 3, 3 (multiplier 1.5 and the cap both at work), calls nested to depth 3 and up to 2 ms long; the clock is relative and unbounded |
| `async_reconnect` | violation: a lost connection is never connected again | the same |
| `stream` | deliveries in order, the token only after acceptance, frames the daemon can read, a hello it cannot | a two-byte token, 3 peer frames and 1 message per connection, connections without bound, two cuts at any byte; the hello's 42 bytes are real bytes |

Deadlock checking is off where a system legitimately stops: all clients have
ended, a history or the clock has reached its bound.

**Fairness.** `Session` assumes weak fairness of each program's steps: the
kernel schedules both and completes their system calls, and poll returns when
something is ready. Faults are owed to nobody. Nothing is assumed of how much a
`recv` or `send` transfers. `ServerPeers` assumes the same of the server and
nothing of the peers: that they leave is a premise of the property.
`AsyncClient` assumes that the application keeps calling `tick()` and that a
call goes on (weak), that the clock advances (weak), and that callbacks end
(strong: a callback that ticks again is at its end only between two ticks).
What the native layer does is owed to nobody. The other modules state safety
only.

**What the session run teaches.** With *two* faults the dispatch loop can spin
for ever: a spurious wake-up sets `errno` to EAGAIN, then the client dies, and
`recv` returns 0 without touching `errno`, so `server_main.c:81` goes on. One
fault is therefore the bound of `session_dispatch`, and it is a real limit of
the code, not of the model. As built the same cannot hang a client: a server
that closes with the hello unread answers with a reset, which sets `errno`.
`KilledOnlyAnsweringClose` is not vacuous: when the server's CLOSE goes out in
two sends after the client has closed, the second meets a reset, and the
default action of SIGPIPE ends the server and resets everyone in its backlog.

**What the registry run teaches.** `Balanced` and `OnlyIdleEvicted` need keys
of their own for the sessions, as the constructor's random keys are. When an
application supplies a key twice, TLC finds that the first session is replaced
without ever being closed, and that a sweep, which judges the session in its
copy but removes by key, evicts a fresh session that a callback registered
under the key meanwhile. A connection is assumed not to be added again after it
was registered; a rejected one may be. Filters of `broadcast` are taken to be
predicates without effects.

**What the peers run teaches.** A peer that shows a wrong token or version is
not disconnected: CLOSING is not a state AUTHENTICATING or HANDSHAKING may move
to, the refusal is ignored, and the peer may simply try again on the same
connection. `WaitsForPeer` states this as it is; the server then serves nobody
else until the peer leaves. A frame that does not fit the buffer ends the
connection only because `errno` happens to be something other than EAGAIN
(`pw_transport.c:28` returns 0 without setting it). Peers wait for the server's
hello before they send frames: what the hello parser makes of frame bytes is
not modelled. The peers of the instance send no data that would be echoed.

**What the async run teaches.** The properties are stated for an `onClose` that
does not call `tick()`. With one that does (`Ticking` including `"close"`), the
outer tick goes on afterwards with the state and clock it read at
`AsyncClient.php:66-67` and schedules a retry for a connection that is up
again: `ScheduleDropped` and `BackoffHolds` fail. They fail as well when the
delay exceeds the range of an int (`WORD` 8 or less in this instance), since
line 59 casts before it takes the minimum. `disconnect()` on a READY connection
stops at CLOSING, which nothing in the extension leaves; `onClose` then never
comes, and `ToldInTheEnd` is stated for connections that reach a lost state.
How the native layer moves a connection is external: it may take any transition
of the life cycle except to begin a connection.

**What the stream run teaches.** A frame of which only a part has arrived costs
the connection: `readExact` takes an empty non-blocking read for its end
(`StreamClient.php:216`). `Delivered` says that what is returned is right, not
that the connection survives. A `connect()` that throws leaves the stream open;
sending and receiving on it is modelled too. `VarintEdges` and `HelloRoundTrip`
in `MCStreamClient` evaluate the native codec at the ends of its ranges.

## Findings

1. `session_handshake`: the server drops every connection (`server_main.c:68`), against `docs/end_to_end_validation.md:11`.
2. `transport_queue`: a reply queued after a short send overwrites unsent bytes (`server_main.c:117` and the other queueing sites), against `docs/production_readiness.md:12`.
3. `flow_wrap`: the 32-bit sum in `pw_flow.c:14` lets requests through over the limit, against `docs/production_readiness.md:13`.
4. `async_reconnect`: `tick()` counts attempts but never connects (`AsyncClient.php:93`), against `docs/php_usage.md:99` and `docs/exceptions_recovery.md:21`.
5. `stream`: the daemon refuses the stream client's hello (`StreamClient.php:64`), against `docs/production_readiness.md:39`; opcodes and flags differ as well.
6. `server_peers`: a wrong token is neither answered nor disconnected (`server_main.c:149`), against `docs/end_to_end_validation.md:11`.

## Proofs

All proofs are checked by TLAPS for arbitrary constants.

* `ReadHalfCorrect`, `WriteHalfCorrect`: any buffer size, any bytes. The
  inductive invariant says where the windows are and what they hold relative to
  the histories. The read half needs that the window fits the array *and* that
  its bytes are the next of the stream, since compaction moves the one because
  of the other; it holds however the write half is used. The write half is
  proved under `QueueAtFront`; without it the statement is false
  (`transport_queue`).
* `ReadHalfIsByteStream`, `WriteHalfIsByteStream`: the same invariants give the
  step simulation; `Parse` and `Write` are `Get`, `Arrive` and `Queue` are
  `Put`, the rest stutters.
* `BackpressureCorrect`: any word size and limits, if a limit plus a request is
  below the word (`NoWrap`). The limit alone is not inductive: it holds because
  the counter is exact.
* `HeartbeatCorrect`, `NoNeedlessPings`, `LivePeerIsKept`: any spans with no
  wrap-around. The invariant relates the timer's last firing to the last
  message (`TimerInv`) and the unanswered ping to both (`PingInv`); from it a
  live peer is kept when `timeout_ms >= interval + timer period + round trip`.
  The contract with the caller is that `on_recv` is called when the connection
  comes up, as the test does: `pw_heartbeat_init` leaves `last_recv_time` at 0.

* `AsyncCallbacksAlternate`: for any policy, stack depth and nesting of the
  callbacks, `onConnect` and `onClose` alternate.
* `AsyncScheduleDropped`: if `onClose` does not call `tick()`, nothing is
  scheduled while the connection is known to be up. It needs the shape of the
  call stack: a tick that has yet to reach its reconnect logic has nothing above
  it but its own `onClose`, and `wasConnected` is false as long as it is there.
* `AsyncTypeCorrect`, `AsyncBacksOff`: for any policy whose delays fit the
  integer (`DelaysFit`; otherwise `AsyncClient.php:58` wraps and the statement
  is false), and for the second an `onClose` that does not call `tick()`. The
  backoff needs to know who may still connect (`Pace`): only the innermost call,
  or the one that called `onClose`, has work left to do, and it read the clock
  no earlier than the moment the waiting is measured from; and a scheduled retry
  falls when the policy's delay is over (`Due`).
* `QuotaKept`, `PhpServerTypeCorrect`: any quota, keys and callbacks.
  `AnnouncementsBalanced` and `SweepEvictsOnlyIdle` suppose a key of its own for
  every connection (`DistinctKeys`; `Server.php:68` overwrites a session under a
  key already there) and the first one both handlers set. `SweepsAreComplete`
  needs onConnect to be set. The invariant describes every entry of the stack of
  calls, not only the innermost one: of the sessions a sweep has come past,
  those still registered are not idle, however many calls lie above it, and a
  session once announced is not added again.
* `ServesOnlyAuthenticated`: any number of peers, frames, sizes and faults, and
  any content of the server's reused buffers. `ServedOnlyAuthenticated` is far
  from inductive: the invariant follows what a peer has said through the network
  and the read window (`Carries`: the window is exactly the next stretch of the
  stream, whatever the array holds around it) to the parser, so that a state
  the parser grants is granted for something this peer said.
* `ServerWaits`: with `ConnectingFirst` and a `poll()` that does not fail, for
  every size and schedule. It rests on the fact that the server's socket is
  reset only by a peer that has gone.
* `PipesFramed`, `TakeTurns`, `StatesAgree`, `RepliesQueued`: any number of
  clients, any tokens, sizes and faults, if every message fits an empty buffer
  (`MessagesFit`; one that does not is dropped or never completes, and the
  conversation stops). None of them is inductive. The invariant
  (`ConversationInv`) says that at any time exactly one message of a
  conversation, or none once a token was refused, lies in order across the
  receiver's window, the network and the sender's window, and that the pair of
  connection states determines which message it is; a side that has gone away
  leaves a part of one. `LoopInv` ties each loop's position to its windows,
  `NetInv` the sockets to the processes, `BacklogInv` says that the
  accept queue holds open connections only, each once and never the one being
  served. `RepliesQueued` shows that the two
  loops meet the contract `QueueAtFront` under which `WriteHalfCorrect` is
  proved.
* `ServerKilledOnlyAnsweringClose`: the same constants. `OrderInv` adds, for a
  conversation without outside faults, that a client leaves only after its
  CLOSE is out, that no client waits while a complete message lies unheard in its
  window, and that the server sends only with output pending.

* `VarintsReadBack`, `FramesReadBack`: the two implementations of the codec,
  with their recursion, on real bytes. That a recursive function is what its
  definition says is proved by a measure (`MeasuredRecursion`: a recursion that
  descends has a solution, built from its approximations), and what it computes
  by a least counterexample (`NatMin`), both stated about functions, since the
  induction theorems of the library cannot be instantiated. The facts the rest
  uses are that a varint of either encoder has at most five bytes, all but the
  last with the top bit set (`WellEncoded`), that both decoders read it whatever
  follows (`WellEncodedRead`), that both parsers read a whole frame as what it
  was made of (`FramedRead`), and that a frame once there is read as the same
  frame whatever arrives behind it (`ReadFrameStable`).
* `TokenOnlyAfterAcceptance`, `NeverUpWithTheDaemon`: any peer, token, payloads
  and cutting, short writes included. The invariant (`GreetingInv`, theorem
  `Greeting`) says that while `connect()` waits, what is there and what is on its
  way together begin with the hello of this connection, that past it the status
  was 0, and that what is written begins with this client's hello, of which the
  daemon reads the third byte, a 0, for the version.
* `Dialects`: if every write is whole (`fwrite` of a large frame on the
  non-blocking stream may be short, and `StreamClient.php:173` does not look;
  then the statement is false), no payload is longer than a 32-bit length can
  say, and the token fits the 4096 bytes the native client gives its AUTH
  payload (`WholeFrames`). The invariant (`Written`) takes the bytes behind the
  hello apart into a chain of the frames meant; that the daemon's parser does
  the same is a second induction, over the chain.
* `DeliveredInOrder`: if the peer's stream ids and lengths fit 32 bits, as
  `pw_frame_t` has them, and it answers AUTH with an empty frame on stream 0, as
  `server_main.c:136-142` does (`PeerAsServer`). Without the second hypothesis
  an answer with a payload of its own choice, thrown away in the middle by a
  `connect()` that gives up, could go on with bytes that look like a frame. The
  invariant (`DeliveryInv`) knows four situations of a connection: nothing said;
  the hello unread; reading aligned with the frames, so that what is unread is a
  chain of them and their data is exactly what `said` has and `got` has not;
  and lost, behind a part of a hello or answer that was thrown away, where the
  next byte is not the first of a magic and nothing is ever read again. A hello
  that `receive()` takes for a frame, after a `connect()` that timed out before
  it came, is one of opcode 0 and leads to the last. (TLC had found no
  counterexample to the same invariant, with the chains enumerated, for two
  frames of the peer; it is not one of the runs, which check what it implies.)

Assumptions are the named `ASSUME`s of the modules, evaluated by TLC in every
run, and the hypotheses the theorems state, each of which the instance of the
run meets. Every invariant of the passing runs is proved. Only model-checked:
liveness under fairness (beyond this prover), and of the codecs the ends of the
ranges and the strict prefixes that `VarintEdges` and `HelloRoundTrip` evaluate
(with the fifth byte that overflows, and a client's hello with a session to
resume). The bytes of a payload are not inspected by any proof: data that looks
like a frame is read as data.

## Plan

Every component with behaviour of its own is modelled. What could be added:

1. The server facing malformed input: a bad magic (`pw_frame.c:58`), where the
   length the loop adds is uninitialised, and an overflowing varint.
2. Data echoed to a pipelining peer, at the limit of the write buffer.

## Not modelled

Option and statistics holders, which have no behaviour; class and constant
registration of the extension; benchmarks and tests. Failures of `socket`,
`bind`, `listen` and `accept`, the `NULL` guards no caller meets, and TLS, which
the native code does not contain and the stream client leaves to PHP, are left
out. `Client.php` declares a class of the same name as the extension's; the
model takes its methods for the delegation they are written as.
