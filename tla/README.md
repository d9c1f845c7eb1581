# QTRP in TLA+

QTRP is a reverse tunnel: a client behind a firewall connects to a server,
registers proxies, and users who connect to a proxy's port on the server are
forwarded to a service next to the client. This directory models the parts of
it in which goroutines, connections and failures meet, checks the models with
TLC and proves their safety properties, for all sizes, with TLAPS.

## The system

| Part | State it keeps | Operations | Hard because | What makes it correct |
|---|---|---|---|---|
| Server registry (`internal/server/server.go`) | `clients`, `proxies` (sync.Maps), a proxy table and a mutex per client, a listener and `closeCh` per proxy, gauges | accept, `handleAuth` with eviction, `handleNewProxy` with rollback, `cleanupClient`, `runProxy`, `Stop` | an evicting handler, the evicted one, the accept loops and `Stop` change the same tables step by step | nothing a connection opened outlives it; a port is not blocked by a dead proxy; accept loops and handlers end |
| Client life cycle (`internal/client/client.go`) | session, control stream, `pongCh`, `connCloseCh`, backoff | `Run`, `connect`, `keepalive`, `triggerReconnect`, `Stop` | fields are replaced by every connect and read by goroutines without a lock; timers; late pongs | no session leaks; a keepalive gives up only its own connection; the client reconnects |
| User connections (both) | messages on the control stream, streams not accepted yet | `registerProxy`, `handleControlStream`, `handleUserConnection`, `handleNewConn` | users arrive while proxies are being registered; streams are matched by order only | every stream finds its user and every user a stream; all is freed with the session |
| Forwarding (`handler.go`, both) | two `copyBuffer` goroutines per machine | `Join` | four goroutines over three links, blocked writes, half closes, resets | no gap in the data, complete transfers, everything ends |
| Codec (`pkg/protocol`) | bytes on the control stream | `Encode`, `Decode` | two writes per frame, partial reads, a size limit on one side | messages arrive in order, failures have a cause |
| Statistics (`pkg/stats`) | counters | atomic adds | decremented from several places | gauges match what they count |
| Authentication (`pkg/auth`) | the nonce cache | `Verify`, `cleanup` | look-up and insertion are separate critical sections; one limit in whole seconds, the other in instants | a request is accepted once; the cache does not grow for ever |
| gnet transport (`pkg/transport/gnet_transport.go`) | `acceptCh`, `readCh`, `readBuf`, `closeCh`, the engine | `OnOpen`, `OnTraffic`, `OnClose`, `Accept`, `Read`, `Close` | an event loop that must not wait feeds goroutines that do, over bounded channels | gaps only by overflow; readers are released; `Close` returns |
| ChaCha20 (`pkg/crypto/chacha_crypto.go`) | `readBuf`, frames on the wire | `Write`, `Read`, `readFrame` | frames are cut and put together over a stream that may have gaps | a damaged frame is never taken for data |
| QUIC transport (`pkg/transport/quic_transport.go`) | `stream`, `streamInit`, `mu` at each end | `initStream`, `Read`, `Write`, `Close` | two goroutines per end may be first; the lock is held while waiting for the peer | one stream; `Close` frees everybody |
| Configuration (`pkg/config`), certificates (`pkg/crypto/cert.go`), TLS, `main`, `New` | the files, the pair on disk, `CertManager` | `Load*Config`, `ParsePortRange`, `Expand`, `NewCertManager`, `saveCert`, `WrapConn` | crashes between and within writes; ends of ranges; many combinations of settings | a stable identity; the proxies are what the file says; ends that are configured alike connect |
| net wrappers, mux wrappers, pools, dashboard | | | | not modelled, see below |

The client's `connect` dials the server and opens a mux session (smux, or
mtmux over several TCP connections). The first stream is the control stream:
authentication, proxy requests, ping and pong from the client; answers, pongs
and NewConn messages from the server. For every NewConn the client opens a
data stream, and both sides run `Join`.

## Modules

* `ServerRegistry` – the server's tables. One *handler* is one accepted
  connection with its goroutine, session and `*Client`; `<<h, n>>` is the proxy
  it makes for name `n`. One action is one step other goroutines can see: a
  `sync.Map` call, a critical section, a listen, a close, a send. `pc` names
  the step a handler is about to take. `cleanupClient` is split into lock,
  close, delete, unlock, forget, because an evicting handler runs it on
  another handler's client. `handleNewProxy` counts a proxy up and down after it
  has released the mutex, in steps of their own. `handleConnectionStandard` and
  `handleConnectionMTMux` differ only in how the session is set up, which is
  one step here. The undecodable NewProxy request and refused requests change
  nothing beyond the answer. A receive on the control stream may fail at any
  time, also while the session is open (the stream alone was closed, or the
  message cannot be decoded).
* `SessionContract` – the abstract view of a connection: a proxy is opened at
  most once, only while its connection is served, and a connection ends with
  all its proxies closed.
* `MCServerRegistry` – instances for TLC.
* `ServerRegistryProofs`, `ClientLifecycleProofs`, `TunnelProofs`, `RelayProofs`,
  `ControlFramesProofs`, `AuthenticatorProofs`, `StartupProofs` – the proofs
  about the module each is named after; `TransportProofs` – those about
  `EncryptedConn` with `GnetTransport`, and about `QuicConn`.
* `ClientLifecycle` – connect number `e` has session, channels and keepalive
  number `e`; `cSession`, `cCtrl` and `conn` are the unlocked fields of
  `Client`. A pending `select` remembers in `kaCh` whose channels it waits on.
* `Tunnel` – one session: proxies are registered one by one while users
  already connect. Messages are whole; a user stands for its ConnID, both its
  goroutines and its data stream.
* `Relay` – user, server, client and service in a chain of three links and
  four `copyBuffer` goroutines. Links are bounded pipes; closing a TCP
  connection with unread data resets it.
* `ControlFrames` – the bytes of one direction of the control stream, written
  by any number of goroutines: the server's handler answers while the accept
  loops send NewConn. `mixed` is a history variable: a frame was begun inside
  another one. A receiver that gets an error from `Decode` gives up, except in
  `registerProxy`: `connect` only logs that error and the next registration
  decodes on, from wherever the stream is (`DecodeAgain`, counted in `retries`).
* `Authenticator` – a caller is a handler in `Verify`, which takes three steps:
  the checks against the clock, `Exists`, `Add` (the signature is compared
  after it, so `Add` happens for a wrong one as well). A nonce stands for the
  request that carries it, which may arrive any number of times. The clock counts
  ticks, several to a second, because `Verify` compares `Unix()` seconds and
  the cache compares instants. `accepted` and `raced` are history variables.
* `GnetTransport` – the listener, its engine with one event loop, and the
  channels of its connections, without a `Next` of its own. `loop` is the
  connection whose `OnOpen` waits in its select.
* `EncryptedConn` – extends `GnetTransport` by a client that writes and a server
  goroutine that reads, through `ChaCha20Conn` or in the clear. Byte `j` of
  frame `f` is `<<f, j>>`, so that a frame can be opened only when all its bytes
  are there and in order; a length that is not read from the start of a frame
  is any number.
* `QuicConn` – both ends of a QUIC connection with their reading and
  writing goroutine. `Close` takes no lock and may see `streamInit` late. Its
  specification is `QuicSpec`, so that `TransportProofs` can extend it beside
  `EncryptedConn`.
* `Config` – `ParsePortRange`, `Ports`, `Expand`, the defaults and the choice of
  transport and encryption, as operators. A port string is the sequence of its
  parts, a name the tuple of its parts, so that `web_0` made from `web` and an
  entry `web_0` are equal.
* `Startup` – composes `Config` with the certificate manager and the handshake:
  a server and a client whose files agree are started, the server crashes and
  restarts at any step, `os.WriteFile` truncates and then writes. Identities
  (a certificate and its key) are numbers; number 0 is the operator's.
  `failures` and `seen` are history variables.
* `MCStartup` – configuration files for TLC.

The operators introduced by "Deliberate bug" are mutated forms of the
definition that follows; no specification uses them. They are there to show that the
properties depend on the code they are about.

How the modules relate: `Startup` ends where a connection is encrypted;
`EncryptedConn` and `QuicConn` are the byte streams such a connection offers to
the mux session on it; `Authenticator` is the decision that `ServerRegistry`
takes at random; `ServerRegistry` leaves what happens on a session to `Tunnel`;
`Tunnel` leaves a joined pair to `Relay` and the bytes of a message to
`ControlFrames`; `ClientLifecycle` is the client's view of many sessions in
sequence.

## Runs that pass

| Run | Instance | Shows |
|---|---|---|
| `registry_safety` | 2 connections, 2 tokens, 2 proxies, symmetry | evictions and competing clients during registration, rollback, cleanup and `Stop`: `NoOrphanListener`, `NoGhostEntry`, `AcceptLoopCanStop`, `GaugeExact` (what `ActiveProxies` is worth, from both sides), and the inductive invariant `RegistryInv` |
| `registry_live` | 2 connections, 2 tokens (reconnects of one client, and a short one), 1 proxy | `HandlerEnds`, `EvictedEnds` (an evicted handler ends although its peer is silent), `DeadPortReleased`, and the registry implements `SessionContract` |
| `client` | 2 connects, 3 misses, MTMux | `NoSessionLeak`, `BackoffFollowsFailures`, `ClientInv` (no keepalive but that of the latest connect, and the unlocked fields are its), `ClosesOwnSession`, `Reconnects`, `SilenceNoticed` |
| `tunnel_streams` | 2 users, 2 proxies | `StreamsMatched`, `TunnelInv` (the gauge counts the joined users; a NewConn is handled once, a stream given away once), `WaitersServed`, `SessionEndFreesAll` |
| `relay` | 2 chunks down, 1 up, pipes and buffers of 2, the session may break, the user may stall | `PrefixDelivered`, `OneWayComplete`, `RelayInv` (where data are, who closes what and in which order), `RelayEnds` |
| `frames` | 3 messages of sizes up to one above the limit, two writers, one registration that fails and is followed by another | `FramesInv` (what is delivered was sent, and in order, and the bytes under way are those of whole frames, unless frames were mixed, and until the first failure), `FailsForCause` (a failure has one of three causes: mixed frames, a message above the limit, the end of the stream), `AllDelivered` |
| `channel` | 2 gnet connections, one of which carries 3 bytes in frames of at most 2; room for one piece and for one connection | `ChannelInv` (what is read was written, in order, and a frame is read as a whole or not at all; with the inductive invariant `Carried`), `GapsOnlyByOverflow`, `ReaderReleased`, `CloseReturns` |
| `quic` | one `Write` of each end, up to 2 streams | `StreamInv` (one stream, although two goroutines may be first), `CloseEndsCalls`, `ServerHears` |
| `auth` | 2 handlers, one request that arrives 4 times, 4 seconds of 2 ticks, limits of one second | `AuthInv`, `AcceptedOnce`, `ExpiredForgotten` |
| `startup` | ports 1 to 3, tunnels up to 2, 3 starts | `StartupInv` (a served identity is in the files, unless saving it failed), `FewIdentities`, `ProxiesAsConfigured`, `MatchedConnects` |

Bounds. Two connections are enough for an eviction and for two clients on one
port, and the proofs cover any number; two proxies are the first case in which
a cleanup is interrupted between two of them; two connects are the first
reconnect, and with a maximal delay below twice the minimal one the second
failure meets the cap. Two bytes stand for the 4 of the length, and a limit of
2 for 1 MB, so that a message at, below and above the limit occurs. A relay
needs two chunks in a buffer for a partial write. Two users and two proxies are
the least in which a NewConn can be swallowed and streams can be swapped. Proxy
names also stand for their ports, and in `registry_safety` tokens for their
ids, which makes them interchangeable. In `channel` a `readCh` of one piece
overflows with the second one, three bytes make a full and a partial frame, and
an `acceptCh` of one makes the event loop wait with the second connection; with
a limit of 4 for 65536 the length of a frame that is one byte too long wraps.
`quic` needs the two goroutines of each end and one message of each to have
every way to be first; a second stream is there for the client to open one too many.
In `auth` half a second is the least that tells whole seconds from instants;
requests with different nonces do not meet, four arrivals let one be accepted,
race, be forgotten and come again, and 8 ticks go past the moment at
which the nonce of the last possible accept of stamps 0 and 1 is forgotten (the
proof covers any number of all of these).
`startup` has a port below, at and above each limit, and three starts are a
first one, one that finds what a crash left, and one that finds the result; to
keep it small, either the settings or the proxies vary.

Deadlock is checked for the registry and the client, whose terminated states
have an explicit step. In the other modules it is not: a session, a
connection and a stream may simply end or fall silent, and `Authenticator`,
`EncryptedConn` and `Startup` stop at their bounds.

## Fairness

Weak fairness of a goroutine's own steps: the Go scheduler runs what can run,
and timers fire. Outside events (connections, requests, users, failures, the
stop signal) are never forced. A receive is forced to fail only when its
session is closed. Some places deserve a word:

* `ClientLifecycle`: dialing, authenticating and registering end at some time
  because a session whose peer is silent is closed by the mux keepalive (90 s in
  `pkg/mux/session.go`). `Wake` assumes that a sleep of at least a second is
  enough for a runnable goroutine to reach its next blocking operation; without
  it a keepalive of an old connection could read the fields of the new one,
  which the code does not exclude. `wg.Wait` is not assumed to return.
* `Relay`: an endpoint reads unless it has stalled, and `RelayEnds` says what
  a stalled endpoint costs: it holds both Joins.
* `Authenticator`: only the ticker of `cleanup` is fair.
* `EncryptedConn`: one fairness condition for the event loop, the accept loop
  and the readers together; all of them have finitely many steps, so it is as
  good as one for each.
* `QuicConn`: an end notices a dead or silent peer because of `MaxIdleTimeout`
  (30 s), and is not taken for dead because of `KeepAlivePeriod` (15 s); a
  session whose reader or writer failed closes the connection.

## Disagreements between documentation and code

Each is a run whose single property states what the quoted line says
(`findings` in `PROJECT.json`); TLC's counterexample is what the code does.

* `registry_v_served` – `SuccessorRegistered`: a connection that has evicted its
  predecessor keeps its entry while it is served and nobody evicts it. In the
  trace the second connection loads the first, cleans it up, closes its session
  and stores itself; then the first one's handler leaves its loop, runs
  `cleanupClient` again and deletes the id, which is the second one's by now.
  The property asks for an eviction because two connections that authenticate
  at the same time can also overwrite each other without one (see below).
* `tunnel_v_route` – concurrent users of different proxies may be swapped.

The models also have behaviours that no run is kept for:

* Server: the port check is not atomic with the registration, and with
  `SO_REUSEPORT` two listeners share a port; two connections of one client that
  authenticate at the same time both find no old one, and the second `Store`
  hides the first; a token of fewer than 8 bytes makes `handleAuth` panic after
  the answer, which leaves the session open without a handler; `cleanupClient`
  and `runProxy` both count a proxy down, so that `ActiveProxies` is -1 after one
  client with one proxy has come and gone (`GaugeExact` counts the ended accept
  loops for that reason, and shows that nothing else goes wrong with the gauge
  but for proxies that have no accept loop); a proxy whose
  positive answer cannot be sent is counted down twice if an eviction had
  cleaned it up before the rollback; `runProxy`'s
  deferred delete by port removes the entry of a successor; two tokens with the
  same first 8 bytes evict each other; `Stop` misses a proxy registered after its
  `Range` and waits for clients that stay connected.
* Client: a failed tunnel in MTMux mode ends the process, as the error of
  another call is used; `Stop`, called during a sleep or a connect, is
  followed by another connection.
* Session: a NewConn that arrives while proxies are being registered is
  dropped, and its user waits (`WaitersServed` shows that this is the only way
  to wait in vain); concurrent senders mix their frames (`mixed` in
  `ControlFrames`); a half close of a user ends both directions of its relay.
* gnet: `Listen` reports success when `gnet.Run` fails later; a `Close` before
  `OnBoot` leaves the engine running; data are dropped when `readCh` is full;
  `Read` may report the end of the stream although data are waiting.
* Authentication: overlapping calls with one nonce can both succeed (`raced`);
  a request with a time stamp of the current second or of a later one can be
  accepted once more when its nonce is forgotten, which is why `AcceptedOnce`
  asks for an earlier one.
* Start: a client without `skip_verify` never gets through a TLS handshake over
  TCP, since no `ServerName` is set (QUIC's dial takes it from the address, so
  there a certificate of the operator that an authority of the client's system
  has signed is accepted, `caSigned`); with both paths set and TLS over TCP the files
  must exist, no pair is generated; an unknown `crypto` means TLS without a
  manager; over QUIC an incomplete pair of the operator is overwritten; proxies
  with equal expanded names replace each other silently.

## Proofs

`ServerRegistryProofs` proves, for every set of connections, tokens, names
and ports, from `RegistryAssumption` only (short tokens are tokens, `ClientID`
and `RemotePort` are functions on tokens and names, `None` is none of the
values it is compared with):

* `RegistryInvariant` : `Spec => []RegistryInv`, and from it `TypeCorrect`,
  `ListenersReleased` (`NoOrphanListener`), `PortsReleased` (`NoGhostEntry`),
  `AcceptLoopsStop` (`AcceptLoopCanStop`);
* `ContractImplemented` : the registry implements `SessionContract` under the
  mapping `stageBar`, `phaseBar`;
* `GaugeAccounted` (`GaugeExact`), which also needs `FiniteAssumption`
  (finitely many connections and names, so that they can be counted).

`NoOrphanListener` says nothing about a handler that is still running, so it
is not inductive. `RegistryInv` adds who is responsible for a listener or an
entry at every moment: it is in its client's table, or the handler that made
it is about to put it there (`ListenersTracked`, `EntriesTracked`); inside a
critical section, what the cleanup has passed is closed and deleted
(`CleanupProgress`), which needs that the mutex has one holder (`MutexHeld`);
a handler that has ended, or has not begun, holds nothing (`HoldsNothing`).
The case that matters is an eviction that empties the table of a handler
between `PublishProxy` and `RecordProxy`: the entry is recorded afterwards and
is cleaned up by that handler itself. There is a lemma for each action whose
case takes several steps, and `InvariantStep` has one step per action. The
refinement uses the invariant: `End` of the contract needs that all listeners
of the connection are closed.

`GaugeExact` relates the gauge to the proxies in the tables from both sides.
While a cleanup goes through a table it has counted some proxies down that the
table still holds, so the tables are represented by `Counted`, the proxies that
no cleanup in progress has passed. A proxy is recorded before it is counted and
taken out of the table before it is uncounted, and an eviction may do its part
in between. For the induction (`GaugeBounds`), the upper bound therefore leaves
room for the proxies that are recorded and not counted (`Counting`), and the
lower bound names the proxies that may be missing more narrowly (`Missing`).
It also needs that a cleanup has still to visit only what is in the table
(`LeftHeld`), and that a name is decided once (`DecidedOnce`), so that the proxy
a handler records is new. Each step is then a move of at most one proxy among
these sets and of at most one in the gauge.

`AuthenticatorProofs` proves, from `AuthAssumption` (of which only
`MaxTimeDiff <= NonceExpiry` is more than types; both are 5 minutes in the
code):

* `AuthInvariant` : `Spec => []AuthInv`. What the code promises is
  `AcceptsApart`: accepts of one nonce that did not race are more than
  `NonceExpiry` apart. It is not inductive: the cache must still hold every nonce
  that was accepted recently (`RecentRemembered`), and a call that is between
  its steps must have compared the clock when the last accept was already old
  (`CallsApart`). The case that matters is a `cleanup` while a call is between
  its time check and `Exists`; such a nonce is in `raced`, as are two calls
  between `Exists` and `Add` (`AloneInAdd`).
* `RequestAcceptedOnce` : `Spec => []AcceptedOnce`, from the invariant and from
  `UnixLater`, which takes the expiry from instants to whole seconds.

`TransportProofs` is about both transports.

* `OneStreamUsed` : `QuicSpec => []StreamInv`. `OneStream` needs that whoever is
  in `initStream` holds the mutex and has seen `streamInit` unset
  (`InitExclusive`), so that nobody else of that end can be there.
* `ChannelSafety` : `Spec => []ChannelInv`, and from it `OnlyOverflowGaps`
  (`GapsOnlyByOverflow`), for any number of connections, any capacities, sizes of
  `Write`s, pieces and buffers, and any lengths of the fields of a frame
  (`GnetAssumption`, `ChannelAssumption`).

`FramesIntact`, the promise in `ChannelInv`, only compares what was read with
what was sent. The inductive invariant `Carried` says where every byte between
them is. A byte has a place among all that was written (`Rank`, from the sizes
of the frames before its own). The wire is a `Run`: the last places, one after
the other. The pieces in `readCh` and `readBuf` are runs too, in order, and end
before the wire begins (`InOrder`); dropping or discarding a piece makes a gap
and keeps the order. What `ReadFull` has and what was read lies before all of
them (`ReadInOrder`), and of a frame either every byte was read or none. When
nothing was dropped, there is no gap at all (`NothingMissing`), and the reader
expects a header where a frame begins and the body of that length after it,
so `readFrame` is never corrupt. After a gap the reader may take any bytes for a
length; what it then reads is opened only when it is the `Body` of one frame,
and that one lies behind all that was read before. `FramesIntact` follows by
counting: what was read of a frame is in bijection with its payload. That a
frame's length fits its field (`maxPayload`) is what the step `ReadLength` needs;
the deliberate bug `maxPayloadWide` is a length that wraps.

`ClientLifecycleProofs` proves, from `LifecycleAssumption` (numbers and their
order), `ClientSafety` (`ClientInv`), `SessionsClosed` (`NoSessionLeak`) and the
action property `KeepaliveClosesOwn` (`ClosesOwnSession`), for any number of
connects. The last one is what the unlocked fields put at risk: a keepalive
closes `cSession`, whichever that is by then. It rests on `OneKeepalive`, and that
on `KeepaliveEnds`: a keepalive that outlives its control stream has the closed
channel of its own connect in its select, and the client does not wake up for
the next connect before the keepalive has seen it. This is where the assumption
in `Wake` (see Fairness) enters. `BackoffExact` (`BackoffFollowsFailures`): `Run`
doubles a delay and counts failures separately; the property states the delay as
a function of the count when `Run` sleeps, and its inductive form `Backoff` at
every step of `Run`. That the recursive function `Doubled` exists is a lemma, by
the least number for which a finite part of it would be missing.

`TunnelProofs` proves, for any finite set of users (`TunnelAssumption`; counting
needs it), `TunnelSafety` (`TunnelInv`) and `StreamsFindUsers` (`StreamsMatched`).
`StreamsMatched` counts: at least as many users wait as streams are queued,
announced or about to be opened. To keep the inequality one must know that an
announcement is under way once and starts one handler (`NotifiedOnce`), and that
a stream is queued once and given away once (`StreamsOnce`). The step that
matters is `RecvAnswer` swallowing a NewConn: it takes an announcement away and
leaves the waiting user, which the inequality allows and an equality would not.

`RelayProofs` proves, for any amount of data, any capacities and any failing
links (`RelayAssumption`), `RelaySafety` (`RelayInv`), `RelayPrefix`
(`PrefixDelivered`) and `RelayComplete` (`OneWayComplete`). The invariant is stated
per direction over three links and two `copyBuffer`s. `InOrder` says that what is
held at each place continues what is after it, but only as far as the links
after it are open: behind a link that was closed or reset, chunks are lost, and
what is written there is never read. For completeness, `EndsInOrder` says
that with a silent receiver the goroutines end in the order of the data, each
with its source drained, so that no close discards anything (`Lossless`); who
has closed what is in `ClosedByCopy`.

`ControlFramesProofs` proves, for any number of writers, messages and sizes
(`FramesAssumption`), `FramesSafety` (`FramesInv`) and `FailsOnlyForCause`
(`FailsForCause`). That messages are delivered in order depends on the bytes:
`Unbroken` says that what has been read or is on the wire consists of whole
frames, from the place where `Decode` is to the place where the writers are.
It relates each byte to each later one, so that reading a piece of any length
needs no induction over the sequence. Both hold as long as the decoder is in
step (`InStep`): no frames were mixed, and it was not called again after an
error. The causes in `FailsForCause` do not go away, so they account for every
later failure too.

`StartupProofs` proves, for any settings and any number of starts
(`StartupAssumption`, `ConfigAssumption`), `StartupSafety` (`StartupInv`),
`IdentitiesFew` (`FewIdentities`) and `MatchedClientConnects` (`MatchedConnects`).
`FewIdentities` is about what clients have been shown, so the induction must
count what they may still be shown (`IdentitiesPaid`): what was seen, what the
running server shows and what the files hold cost one failed save each, but for
one pair that loads. That a new pair is written only over one that does not
load, the certificate first, is `SaveProgress`.

`ProxiesRight` (`ProxiesAsConfigured`) is about the operators of `Config`, for every
list of proxies whose names and ports are sequences (`ListsAssumption`):
`Expand` computes the proxies of an entry, and `ProxyTable` puts them one after the
other and lets the last of a name win, while the property speaks of entries and
offsets. `ParsedSpan` and `ExpandGood` give what one entry becomes. `FlattenLaid`
says at which place of the joined sequence each proxy of each entry is, `SlotsPlaced`
that places and slots correspond and keep their order, and `LastSlot` that the last
place with a name is that of the last slot with it. The entries of one range never
share a name (`NumbersDiffer`), so a slot is displaced only by a later entry.

In each module the inductive invariant, or the conjunction of properties that
is inductive, is checked by its run; only for the strengthening of `GaugeExact`,
which stands in `ServerRegistryProofs`, no run is kept.

With these, every invariant the runs check is proved, and so are the action
property `ClosesOwnSession` and the refinement of `SessionContract` (its steps).

Only model-checked: all liveness properties. Temporal reasoning with fairness is
out of the prover's reach.

## Not modelled

* smux, mtmux, TLS, quic-go, gnet and msgpack are external and appear through
  what they do to their users. `pkg/mux` and the net transport only
  pass calls on to them.
* `GnetConn.Write` hands data to gnet from another goroutine than the event
  loop's; what that does is inside the library. The deadlines of the gnet and
  QUIC connections are not set by the code above them on the paths modelled.
* `ConnPool` is constructed by nothing; the buffer pools have no state a user can
  see.
* The dashboard only reads; `Client.lastPing`, the traffic counters and
  `TotalConns` are written and only displayed.
* The computation of signatures, keys and certificates: a request has a wrong
  signature or not, two halves of an identity match or do not.

## Plan

1. Done: registry with contract and proofs; client life cycle; tunnel; relay;
   control frames; authenticator and QUIC with proofs; gnet with ChaCha20;
   configuration and start.
2. Done: theorems about the invariants of `ClientLifecycle`, `Tunnel`, `Relay`,
   `ControlFrames`, `Startup`, `EncryptedConn` with `GnetTransport`, about the
   registry's gauge, the client's backoff and the expansion of port ranges.
3. Models that would add something: keepalive with a clock (the README's 45 s
   against the ticks and timeouts of the code); an abstract byte pipe that
   `Relay` and `EncryptedConn` implement; one client reconnecting against the
   server's eviction (`ClientLifecycle` with `ServerRegistry`).
