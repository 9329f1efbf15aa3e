# ctunnel in TLA+

TLA+ models of ctunnel, a reverse tunnel in C: a client behind NAT keeps an
authenticated control connection to a public server, the server listens on
behalf of the client's services, and every external connection is relayed over
a work connection that the client opened. The modules model the code under
`src/src/`; `PROJECT.json` maps every definition to its lines.

## 1. Inventory

| part | source | state | operations |
|---|---|---|---|
| ring buffer | `util/ring.c` | array, head, length | write, read, peek, consume |
| replay window | `net/net.c:794`, `server.c:217`, `client.c:54` | highest number, 64-bit bitmap | accept or refuse a number |
| stream relay | `net/relay.c`, `platform/event_*.c` | three rings, two EOF flags, record counters | register events, process an event, close |
| server peer | `server/server.c` | `incoming[]`; per peer `pending[]`, `work[]`, `starting[]`, `relays[]`, listeners | accept, bind, pair, start, relay, expire, tear down |
| UDP sessions | `server.c:205-403`, `client.c:48-193` | a session table at each end, `next_stream` | datagram in from each of four sides, expiry |
| session establishment and recovery | `client_session`, `ct_run_client`, `register_service`, the handshakes of `net.c` | reconnect delay, `incoming[]`, `peers[]`, `auth_rate[]` | connect, HELLO, AUTH, register, heartbeat loss, retry |
| client work pool and streams | `client.c:195-217`, `409-488` | `work[]`, `relays[]` | add work, START_STREAM, local connect, STREAM_READY, refill |
| control channel | `net.c:447-530`, the heartbeats of both loops | sequence number each way, `last_rx_ms`, `last_tx_ms` | send, receive, PING, time out |
| configuration | `config/config.c`, `applets/common.c` | configuration records, seen keys, authorized clients | read a line, complete, validate, override |
| cryptography | `crypto/` | keys | key exchange, AEAD, signatures |
| PROXY protocol, logging, metrics, platform, applets | | | |

**How the parts interact.** Client and server are each one thread around
`event_loop_wait`. Every iteration registers all sockets again, dispatches the
batch of ready events one by one, then expires what is overdue. A relay is a
pair of sockets with rings between them; both ends of a stream run the same
relay code. The server's control messages (`REQUEST_WORK_CONNECTION`, PING,
UDP_DATAGRAM, GOAWAY) and the client's (REGISTER_SERVICE, PONG, UDP_DATAGRAM)
share one ordered control connection; every work connection is a connection of
its own, so work connections overtake each other and the control messages.

**What is hard.** The order of events within a batch, with descriptor numbers
and array slots reused between two of them; who owns a descriptor while it
passes through up to four arrays; backpressure of the relay against what three
event backends deliver unasked; half-close behind data that is still encrypted;
two ends that expire their halves of a UDP session on their own clocks;
reconnection while the server still holds the old session; a pool of work
connections that the two programs count apart, with requests that may be
dropped; a client that blocks in connect while the server's deadlines and both
heartbeats run on; a parser whose tables outlive a section. `PROJECT.json` lists
40 hazards, each at its line.

**What makes the parts correct.** A ring is a FIFO queue. A sequence number is
accepted once, and a new one never refused. A relay loses no byte, delivers
only what authenticates, forwards a half-close last and drains. A client's
streams stay within its limits, every descriptor has one owner, and a stream
is paired as soon as a work connection is there. Both ends mean the same
endpoint by a UDP session. A running client has its listeners, a listener has
one peer, and a client that lost its session gets it back. Both ends agree which
user a work connection carries, and every user is joined to a local connection
made for it or dropped, never left waiting. Nothing behind a lost control frame
is accepted, and a dead path is noticed while a live one is not given up. A
configuration in force is the one that was written.

## 2. Modules

Component modules hold state, actions and properties; `MC*` modules the
constants of the runs; `*Proofs` modules the theorems. A definition marked
*Faulty* is a plausible bug in the definition after it; the tables of
`PROJECT.json` say which property notices it.

**`Ring` / `BoundedFifo`** — `ct_ring` byte for byte, with both memcpy calls of a
wrapped copy. `BoundedFifo` is the queue the callers believe in; `Ring!Implements`
is the refinement, the abstract queue being read out of the array from `head`.

**`ReplayWindow`** — the window as the set of ages whose bit is set. Numbers
arrive in any order and any number of times. A shift by 64 or more is undefined
in C: `Bits` returns any single bit or none.

**`Relay`** — one `ct_relay` with its two sockets. Bytes are counted instead of
carried (that the rings keep the order is `Ring`), record boundaries of the
incoming ciphertext are kept. `Poll` registers and delivers as the chosen
backend does: epoll always arms EPOLLRDHUP and reports it as READ, poll and epoll
cannot mask hang-up, kqueue reports each filter apart. `ct_relay_process` is one
action: flush, drain, read, decrypt, forward half-closes, close.

**`ServerPeer`** — the streams of one client on the server. Descriptors are
numbers, and accept returns the lowest free one, so that a close and an accept
in the same batch reuse a number. A batch is the set of all registered refs;
one that is never dispatched was not ready. `match_pending` is the whole loop,
with any subset of the START_STREAM sends failing. Deadlines are kept as time
left.

**`UdpSessions`** — both session tables and the datagrams between them. The
replay window is the set of accepted numbers (`ReplayWindow` shows the bitmap
equal to that). `next_stream` counts from 0 instead of from the clock at
authentication.

**`Sessions`** — several clients and the server: backlog, incoming connections,
peers, blocked addresses, one FIFO channel each way per connection. A cut
connection delivers nothing and tells nobody. Handshake and registration are
message by message; cryptography is left out.

**`Tunnel` / `StreamService`** — the streams of a service across both programs.
A work connection is named by its sequence number and has an end in each
program; the modules joined here are the client's pool, its streams and the server's
queues. A handler is one step, except that the client's connect to the local
service is two (`StartStream`, then `LocalConnected` or `LocalRefused`), between
which the server goes on and its deadlines may pass. `StreamService` is what a user may
rely on, without work connections; `Tunnel!ServesUsers` is the
refinement, a user being *waiting* while it is in `pending[]` or `starting[]` and
*joined* while a relay of the server has it.

**`Control`** — the control channel of a running session at both ends. Time is in
ticks; a batch may take up to `Block` of them, a frame up to `Delay`. A frame
carries the distance of its sequence number from the frame before it: 1, or
2 if sends failed in between. A send that fails leaves nothing or the start
of a frame; what the receiver makes of such a start with other bytes
behind it is either "not complete yet" or a frame that does not authenticate.
A failure ends the session: the client leaves its loop and the batch with it, the
server closes the peer and goes on with the batch, where an event of the closed peer
may be left (`StaleEvent`).
`missed`, `torn`, `overdue` and `misread` record what happened for the properties.

**`Config`** — both configuration files, read line by line in the order of
`ct_applet_load_config`; which line comes next is open until it is read. A line
is what the parser tells apart after trimming; a number is what `strtol` makes of
the value. A read error refuses the configuration, but only ends the file of authorized
clients (`Unreadable`, `ClientsEnd`). The properties do not look at the
parser's state: they read the text again, by its section headers.

Otherwise each module abstracts its neighbours to the steps they can
take: a relay in `ServerPeer` or `Tunnel` closes or does not; a stream in `UdpSessions`
takes an id; datagrams in `Sessions` are messages that may come when a UDP
service is registered; a frame in `Control` has a kind and no content. `Tunnel`
repeats the queues of `ServerPeer` without descriptors and batches, and relies on it
for those.

## 3. Runs

| run | checks | states |
|---|---|---|
| `RingAndWindow` | ring: index bounds, refinement of `BoundedFifo`; window: bitmap exact, accepted at most once, fresh never refused | 41 392 |
| `RelayEncrypted` | conservation, no loss, no idle record, PROXY header accounting, draining (liveness) | 205 632 |
| `RelayFaults` | half-close order, only authentic bytes, with resets, truncation, corruption; encrypted and plaintext | |
| `ServerPeer` | limits, one owner per descriptor, prompt pairing, closes | 2 268 069 |
| `UdpSessions` | agreement of the ends, unique sessions, no request taken for a replay, limits | 3.1 M |
| `Sessions` | running clients are served, one peer per TCP listener, recovery (liveness) | 175 000 |
| `Tunnel` | one holder per connection end, the ends agree, no request forgotten, refinement of `StreamService` with its fairness | 497 701 |
| `Control` | nothing accepted behind a lost frame, no false timeout, silence noticed in time | 6 330 555 |
| `Config` | accepted means sound and as written, refused means for cause, ports authorized as listed | 1 597 758 |

Three runs state what a document says and find the code to differ; the
findings in `PROJECT.json` quote the lines. Section 5 has more such cases.

- `RelayEpollHangup`: on Linux a peer's half-close delivers READ while READ
  is paused; the ring overflows and the stream is dropped with data in it.
- `UdpReplies`: replies of a session that expired at the client only are
  dropped as replays.
- `ConfigDefaultBelow`: a `default_data_encryption` below a service section is
  accepted and does not reach the service (`AsWritten` leaves this case out). Two
  lines behind a usual client, `[common]` and the key, show it.

**Bounds, and why they are enough.** `Ring` and `ReplayWindow` share a run and no
variable; one moves while the other is empty. `Ring`: three bytes and requests of up to four
wrap head and tail in every way, including requests larger than the array.
`ReplayWindow`: width 4 and numbers to 9 let the window slide past twice.
`Relay`: a record is 4 bytes (header 1, payload up to 2, tag 1) in rings of
8, the smallest proportion the default configuration shares (a ring holds two
full records and the 32 bytes of slack; see below for smaller rings); in
`RelayEncrypted` the PROXY header of 7 bytes all but fills `to_direct`, so
that records wait in `work_input` and the gates are at their limit.
`ServerPeer`: two streams, two work connections, one incoming connection and
seven descriptors (one less than could be in use, so that accept also fails);
Timeout 1 lets every deadline race every event. `UdpSessions`: two services, one
limited to a single session, two endpoints (symmetric), three ids, two datagrams each
way and two in flight: enough for a session to expire at either end, come back and
meet a datagram of its earlier life. `Sessions`: two clients with two and one
services, three connections, so that a stale peer, a live one and an attempt
coexist, and one fault of any kind at any point. `Tunnel`: two users and room for
both, a pool of one, so that one of them always needs a request; five work
connections allow every stream a failed one; one connection breaks or cannot
be made. `Control`: timeout 5 with interval 2, delay 1 and batches of 1 is the
shortest ample one (at 4 a sound path does time out), and two faults let a failed send
and a cut, or two failed sends, meet; the ends keep no identities beyond those.
`Config`: an IPv6-only build without work pool and PROXY v1, so that each kind of
unavailable feature is met; up to five lines of 21 kinds behind a usual client, one
behind an empty or a usual server file, and up to five of 14 kinds in the
authorized clients, a header [common] among them, which is a client like any other there: two
services, two clients and two ranges are the limits, so that each can be exceeded.

**Deadlock** is checked in every run but those of three modules: `Tunnel` stops when
both ends of the session have ended and its users are gone, `Control` when both ends have
stopped, `Config` when the configuration is accepted or refused. In the others a step is
always left (`Relay!Done` is the closed relay).

**Fairness.** `Relay`: weak fairness of processing a batch (the loop never
abandons one) and strong fairness of a poll that finds both sockets writable,
i.e. both peers keep reading. Peers are never obliged to send or close.
`Sessions`: weak fairness of each client and of each connection at the server:
event loops run on, deadlines are noticed, delays are slept through.
Deadlines that pass on a live connection, cuts, refusals and restarts are faults,
limited in number, and never obliged.
`Tunnel`: weak fairness of the server's two deadlines (its loop wakes at least once a
second), of the end of the client's connect (`connect_timeout`), of noticing that
the other program ended the session (the heartbeat), and of ending a relay whose other half
is gone. The last one is more than the code gives by itself: a relay forwards
the end of the stream and stays until the application behind it closes, and that
application is assumed to close after it has read an end of file.
Nothing else is obliged: a request may never be answered and a work connection never come.
`Control` and `Config` state safety only; `NoticedInTime` bounds the time instead of
asking for fairness.

## 4. Proofs

For every value of the constants that satisfies the `ASSUME`s:

- `RingAndWindowProofs!TypeCorrect`, `RingAndWindowProofs!Refinement`: TypeOK is inductive; each call
  maps to the queue's call of the same name. The core is `Wrap`, which equates
  `%` and one subtraction, and the lemmas on what the two copies produce.
- `RingAndWindowProofs!WindowSafe`, `FreshNeverRefused`, for a window no wider than
  the bitmap. `AtMostOnce` alone is not inductive: it needs `BitmapExact`, which says
  which numbers the bitmap remembers; the work is in re-basing ages when the
  window moves.
- `ServerPeerProofs!Limits`, `SlotAvailable`. The inductive invariant adds the shape
  of the arrays to the limits; `MatchBound` shows that pairing moves
  streams and makes none. `SlotForStarting` follows by counting: a started stream
  never finds `relays[]` full, so the "no slot" branch of `start_relay_finish`
  is dead code under a validated configuration.
- `ServerPeerProofs!DescriptorsOwned`, `ClosedOnce`, `PeerTypes`, `PairedPromptly`.
  `OneOwner` counts, which no solver follows through a step; the inductive
  invariant `Kept` says the same elementwise: each array names a descriptor at most
  once, the nine sets of descriptors are disjoint and their union is what
  is open (`Owned`). Two operators carry the work. `Matches` says what the whole
  pairing loop does to these sets, with any START_STREAM failing. `Swapped` shows the expiry
  loop's swap-removal to be a bijection from the new positions to the kept ones: there
  are as many holes in the front as kept places behind it, and the k-th hole gets
  the k-th place from the back. `NoIdlePair` needs the limits too: pairing may also stop
  because `starting[]` is full, and then, with StreamLimit at most MAX_PENDING, no
  stream is pending.
- `UdpSessionsProofs!EndsAgree`, `SessionsUnique`, `TablesFit`. `Agreement` is not
  inductive without knowing that ids given out are at most `next_stream`
  (`Book`); uniqueness in the client's table rests on `known = {}` and
  at the server on the fresh id. The lemmas treat one table and one queue at a time.
- `UdpSessionsProofs!NoRequestReplayed`, `LimitsHold`. The first one needs `Numbered`:
  the datagrams of a session leave the server with rising numbers, and what the
  client's half has seen is below every number still on its way; a half that came back
  has seen nothing. The second one counts per service, where admission compares
  the limit with the sessions of all services together.
- `SessionsProofs!RunningIsServed`, `ListenersUnique`, `SessionTypes`. `RunningServed`
  relates a client to the server's entry for the same connection, with messages
  between them: `Phases` lists the combinations of client state, messages each way
  and entry that the handshake passes through, with any number of unsolicited messages
  in between. It rests on a connection having one client and one entry (`Ends`,
  `Owned`). The assumptions on the constants are that a client's services are a sequence
  and that limits and delays are positive. Nothing compares the two reconnect delays
  (section 5), so `SessionTypes` bounds the delay by the greater of them.
- `ControlProofs!ControlTypes`, `AcceptedInOrder`, `SilenceNoticed`, for every interval,
  timeout, delay, blocking time and number of faults. `ControlTypes` says of the batches
  that the client has no event of an ended session; of the server it cannot. `NoticedInTime` needs `Clocks`: a
  batch begins with an end that is not overdue, so its silence is at most the
  timeout and what the batch has taken. `InOrder` needs `Guarded`: as long as a
  lost frame has not been noticed, either the next frame will bear a number too high or
  one that shows the gap is already in the queues, in front of every later one
  (`Safe`); four lemmas follow `Safe` through a frame that is sent, arrives,
  is read, or grows older.
- `ControlProofs!HeartbeatNotPremature`. `Calm` bounds an end's silence by where
  the next sign of life is: not sent yet (the peer's own clock), on the wire (its age) or
  in the socket buffer (the time of the batch). The sum is the bound `Ample` asks for.
- `RelayProofs`, for every buffer size, record format, backend and fault:
  `RelayTypes`, `BytesConserved`, `HeaderCounted`, `HalfCloseLast`, `RecordsDrained`,
  `AuthenticOnly`. The properties are proved together, as each needs the others: `Inv` adds where the
  records end (`Records`), that what was decrypted was complete and authentic
  (`Opened`), why `decrypt_ready` stopped where it did (`Waiting`) and that an end of file
  is seen behind the last byte (`Ended`). A step of `ct_relay_process` is followed
  through its phases (flush, drain, read, decrypt) in that order.
- `RelayProofs!NothingLost`: `Lossless`, under the hypotheses under which it is true, each of them
  a divergence of section 5 where it fails: a backend without READ events behind
  a paused gate (kqueue), an encrypted stream, and a peer whose records are within
  CHUNK. `Gated` says that the events of a batch found room, and still do when they are
  dispatched.
- `TunnelProofs!TunnelTypes`, `EndsAlwaysHeld`, `EndsAlwaysAgree`. The ends of a
  connection agree only because of what is between them: `Inv` says that an idle or
  new connection carries no message (`Fresh`), and where START_STREAM or its answer
  is for each starting stream (`Started`): on its way, being dialled for, or
  answered; and that the arrays of each program hold its open ends, each once
  (`ServerSide`, `ClientSide`, with the sequence numbers given out in `Numbered`).
- `TunnelProofs!NoLostWakeup`: `Awaited`, for StreamLimit at most MAX_PENDING. `Quiet` adds
  that no stream waits next to an idle connection; the proof adds up requests,
  backlog, incoming and losses against the pending streams, handler by handler.
- `TunnelProofs!UsersServedSafely`: the safety half of `ServesUsers`, for StreamLimit at
  most MAX_PENDING. Every step of `Tunnel` maps to a step of `StreamService` or
  to a stutter. `UserInv` is what the mapping needs: a user is in one place of the server,
  is dialled for at most once, and a message that asks or answers for it
  finds it where the abstract specification expects it.

- `ConfigProofs!ConfigSound`, `ConfigAsWritten`, `ConfigRefusedForCause`, `ConfigAuthorized`
  and `ConfigAuthorizedOnEveryPort`, for files of any length and any set of features,
  limits and strings. The properties read a file as a whole, by its headers; the parser has
  it line by line. No induction over the text is needed, because every step reads one
  line: the lemmas say what one more line does to `Header`, `Under`, `Read` and `Rank`
  (a key adds itself under the last header and nothing elsewhere; a header takes no line
  from those above it and is the last in rank). `ConfigInv` then says that what is stored is
  what the lines so far say, and that the tables of seen keys have exactly the keys of
  [common] and of the open section (`SeenExactly`). A service has the default encryption of the
  lines above its header (`ServiceStored`); `StoredAsWritten` turns that into what `AsWritten` says
  of the whole file. Of the generated header the proofs assume what Kconfig and
  `ctkconfig.py` keep; for the pool's default that is only that it is a number, so `Sound`
  allows it beside what the key takes. The tables of 40, 16 and 4 entries
  never refuse a key: the first two have more room than there are keys, and when the
  third is full every further key is unknown or repeated (`CommonTableFits`,
  `SectionTableFits`, `ClientTableFits`). `AuthorizedAsListed` needs that each name has one
  section (`Duplicate` refuses the second), so that the first client `ct_authorized_find`
  meets is the only one; the theorem for every port says more than the run,
  which asks about the edges of the ranges.

`RingAndWindowProofs!BitmapRemembers` states the exactness of the bitmap by itself.
`RingAndWindowProofs` holds the proofs of the two small components, `Ring` and `ReplayWindow`.

Only model-checked: liveness under fairness, which is out of the prover's reach: the
draining of a relay, the recovery of a session, and the fairness of `ServesUsers`. `UdpSessions!RepliesFresh` and
`Config!DefaultApplies` do not hold and have runs that show it; `Control!StaleIgnored` and
`Config!PoolWithinLimit` do not hold either, see the next section.

## 5. Divergences without a run of their own

Other constants of the same modules show these; none is an accident of the model.

- `Relay`, DataEncryption = TRUE, Modes = {FALSE}, kqueue, no faults, MaxWork = 9,
  HeaderLen = 0: `Lossless` fails. In a build with data encryption the READ gate of the work
  socket tests `work_input` (relay.c:148), which a plaintext stream never fills, so a slow
  direct peer gets the stream dropped, where `docs/concurrency-and-lifecycle.md:62`
  says READ is paused.
- `Relay`, Backend = "poll": `Lossless` fails as in the run `RelayEpollHangup`. POLLHUP cannot
  be masked, and is delivered when both directions of a socket are shut although READ is paused.
- `Tunnel`, MAX_PENDING below StreamLimit (4 and 8 in `mini_defconfig`, 256 and
  512 in `full_defconfig`; the default has 256 for both): `Awaited` fails, and so does the consequent of `ServerPeer!NoIdlePair`. A work connection that
  comes while `starting[]` is full stays idle next to a pending stream, and the handlers that
  make room in `starting[]` do not call `match_pending` (server.c:649, 873); the stream
  waits for the next accept or work connection, or expires.
- `ServerPeer`: `misclosed` becomes TRUE, and only by `StartingInitFails`
  (`ClosedTwiceByInit`): when `ct_relay_init` fails, its `ct_relay_close` has closed both
  sockets (relay.c:55) and `remove_starting` closes the numbers again (server.c:933),
  where `docs/concurrency-and-lifecycle.md:48` makes the relay's close the only
  one. The client has the same path (client.c:461-471).
- `Sessions`, ServicesOf <- MCServicesFirst, one client, MaxFaults = 0: `Recovers` fails.
  `client_register` ends the session on any message but PING,
  REQUEST_WORK_CONNECTION and REGISTER_OK (client.c:256), so datagrams for a
  UDP service that is not the client's last keep it from ever finishing registration.
- `Control`, a timeout below Interval + Delay + 2 * Block: `overdue` is no longer empty
  on a sound path. The configuration only requires a timeout above the interval, and the client's
  batch can take `connect_timeout` for each START_STREAM in it, while
  `docs/concurrency-and-lifecycle.md:3` calls the loop non-blocking.
- `Control`, any constants with a fault: `StaleIgnored` fails. A UDP listener's handler that cannot
  forward a datagram closes the peer (server.c:994-995) and the batch goes on; the peer's
  REF_CONTROL event is then handled without a test of `active` and peeks at `ctl.fd`, which
  `peer_close` left 0 (server.c:911), where `docs/concurrency-and-lifecycle.md:38` says that
  stale events are ignored by a look-up or a closed flag.
- `Config` with the constants of `buildroot_defconfig` (WORK_POOL, DEFAULT_POOL_COUNT = 16,
  MAX_STREAMS = 8) or `openwrt_mini_defconfig`: `PoolWithinLimit` fails. Kconfig:97-101 bounds
  the default by 64, `ctkconfig.py` does not compare it with MAX_STREAMS, and
  `ct_config_validate` does not look at it, where `docs/build-configuration.md:149` and
  `docs/configuration.md:5` say that no resource exceeds its compiled limit. The work arrays
  stop at their size, so the excess costs nothing at run time.
- `Sessions`, InitialDelay above MaxDelay: the delay stays at InitialDelay.
  `reconnect_initial_delay` may be up to 3600 and `reconnect_max_delay` is 30 by default;
  neither config.c:243-244 nor `ct_config_validate` compares them, and client.c:551 caps the delay
  only when it doubles it.
- `Config`: a read error in the file of authorized clients ends it like its end would
  (config.c:688 has no `ferror`, unlike config.c:461), and what was read is accepted if its
  clients are complete. `AuthorizedAsListed` is about the lines read.
- `Config`: an empty value of a number whose range has 0 (`pool_count` in a build with the work
  pool, `log_rotate_days`, `reconnect_jitter_percent`) is taken for 0 with glibc, where `strtol` sets no error
  (config.c:115).
- `Tunnel`, pool_count = 0: a REQUEST_WORK_CONNECTION that arrives during registration is
  dropped (client.c:254), and its stream waits until it expires; `Awaited` counts it as lost.
- `ReplayWindow`, Window > Width (`CONFIG_UDP_REPLAY_WINDOW` may be 128): a number
  older than 64 may be accepted twice.
- `Relay`, DataEncryption = FALSE: the READ gate of the work socket leaves room for
  CHUNK bytes, but CHUNK + 32 are read; a stream can be dropped.
- `Relay`, Cap at most 2 * Chunk plus overhead (buffers below 32768 bytes): READ can
  stay paused in front of an incomplete record, and the relay never drains.
- `Relay`, PeerChunk > Chunk: a build with a small buffer rejects the records
  of one with the default buffer.
- `ServerPeer`: an expired pending stream is replaced by the youngest, so the
  queue is not first-in first-out after an expiry; a relay slot
  reused within a batch receives the events of its predecessor, which costs one
  futile system call.
- `Sessions`: two peers may hold the same UDP port, as `ct_udp_bind` sets
  SO_REUSEADDR and only TCP listeners are compared.
- `UdpSessions`: the sessions of all services count against the limit of each.

## 6. Not modelled

Cryptography (its arithmetic is out of TLC's reach; `Relay` knows only whether a
record authenticates), log output and rotation, metrics, command-line entry points,
scripts, tests. In modelled parts: payloads, the wording of messages, how a line of a
configuration is split and trimmed, the jitter of the reconnect delay (its product can
exceed an int, see the hazards), the growth of
`blocked_until` and the eviction of `auth_rate` entries, several listeners per
client in `ServerPeer`, the orderly shutdown of either process, and the
builds without `CONFIG_FEATURE_CLIENT_RECONNECT` or `CONFIG_FEATURE_UDP`.

## 7. Plan

Every safety property of the runs has its theorem. Left to model:

1. `AuthRate`: the table with eviction and the growing block.
2. The reconnect delay with its jitter in 32-bit arithmetic.
