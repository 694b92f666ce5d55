# Formal model of https-echo-server

TLA+ modules that model the stateful parts of this repository, TLC
configurations that check them on small instances, and TLAPS proofs of the
properties that matter most for every instance. Paths like `cache.go:57` are
relative to the package named with them under `internal/`; `spec` is
`docs/specification.md`.

## The system

`run` (`cmd/https-echo-server/main.go`) loads the configuration, builds a
`Server`, binds up to two listeners and serves until a signal or a listener
error. Every TLS handshake asks the TLS manager for a leaf certificate; every
request becomes a goroutine in `Handler.serve`.

| Component | State | Operations | Talks to |
| --- | --- | --- | --- |
| Certificate cache (`tlsmgr/cache.go`) | map and LRU list under `mu`, singleflight group | `Get`, `lookup`, `lookupStale`, `store` | handshake goroutines; issuer |
| TLS manager (`tlsmgr/tlsmgr.go`) | none after `Build` | `Build`, `loadOrCreateCA`, refresh policies | cache, CA, Vault |
| Auto CA (`tlsmgr/autoca`) | two PEM files, the CA in memory | `New`, `Load`, `Persist`, `Mint` | file system |
| Vault client (`tlsmgr/vaultpki`) | none | `Issue`, `CAChain` | Vault over HTTP, 5 s timeout |
| Request handler, recorder, WebSocket (`server`) | per request: recorder, echo, dump | `serve`, `handleForward`, `handleEcho`, `handleWebSocket`, `finish` | printer, metrics, forwarder, net/http |
| Forwarder (`forward`) | HTTP client | `Do` | upstream |
| Verbose printer (`verbose`) | sequence number, mutex, stdout | `Start`, the legs, `Flush` | all exchanges |
| Metrics (`metrics`) | counters | `Observe` | all exchanges |
| Lifecycle (`server/server.go`, `main.go`) | listeners, two `http.Server`s, error channel, context | `Start`, `Run` | signals, connections |
| Configuration (`config`) | none after `Load` | `Load`, `Validate` | flags, environment, file |
| Trusted proxies (`echo/proxies.go`) | the trusted prefixes | `Trusted`, `Resolve` | the echo |
| Echo capture, logging, version | none | pure functions | |

What is hard to get right here: handshakes that race for one SNI while
certificates expire, are evicted and fail to be re-issued; a CA that lives in
two files written one after the other by a process that may die; exchanges
that share a printer while their clients leave, stall or close half of the
connection; statuses that net/http treats differently from the recorder; the
drain of two servers under one deadline; a WebSocket loop that reads and writes
by turns; option sources that disagree; and requests that pass several servers,
each of which adds to what it was told of the client. `PROJECT.json` lists each
hazard with its line and the properties aimed at it.

## Modules

| Module | Models | Used by |
| --- | --- | --- |
| `CertService` | what the TLS stack may rely on: the abstract specification | refined by `CertCache` |
| `CertCache` | `cache.go`, the policies of `tlsmgr.go` | `MCCertCache`, `CertCacheProofs` |
| `CAStore` | `loadOrCreateCA`, `autoca.Load`, `New`, `Persist` | `MCCAStore`, `CAStoreProofs` |
| `ExchangeService` | what an exchange promises: one answer, one record, the two agree | refined by `Exchange` |
| `WebSocket` | the message loop of `ws.go` as operators on a session | `Exchange` |
| `Exchange` | `handler.go`, `recorder.go`, `ws.go`, `Forwarder.Do`, `verbose.go`, `Observe` | `MCExchange`, `ExchangeProofs` |
| `Config` | `config.Load`, `Validate`, what `server.New` takes from it, as operators | `Deployment` |
| `Relay` | `proxies.go`; `relayHeader`, the `X-Forwarded-*` headers and path joining of `forward.go`, as operators | `Deployment`, `RelayProofs` |
| `Deployment` | a chain of servers, each configured on its own, and a request relayed through it | `MCDeployment`, `DeploymentProofs` |
| `Lifecycle` | `main.go`, `Server.Start`, `Server.Run` | `MCLifecycle`, `LifecycleProofs` |

Definitions named `Mut...` are mutants: plausible bugs, each with the property
that catches it in `PROJECT.json`. No specification uses them.

### CertCache and CertService

A caller of `Get` is a process with a program counter; each critical section of
`c.mu` and of the singleflight mutex is one action (`Lookup`, `Do`, `Recheck`,
`Issue`/`IssueFails`, `Store`, `Complete`, `Woken`). Certificates are records
with an SNI, a serial in order of issue, and their validity; time is a counter.
`VaultMode` selects the cache `Build` assembles: refresh five minutes before
expiry and errors for auto, refresh after two thirds of the lifetime and serving
stale for Vault. `served`, `floor` and `used` are history that no guard reads;
so is the serial: it numbers the certificates in the order of issue so that
"older" can be said, while the real serials are random. `used` is touched by
`lookup`, `lookupStale` and `store`; handing a flight's certificate to its
waiters touches neither the list nor `used`. `TypeOK` includes the cache's
capacity, which `store` restores before it unlocks.

`CertService` has one step per call and one per return, and allows a return only
of a certificate for the SNI asked, unexpired at that moment, and not older than
the newest any handshake for that SNI had received before the call began.
`ImplementsService` is the refinement, with the intermediate program points
mapped to "pending".

`TimingAssumption` relates the policies to `MaxCall`, the longest a `Get` may
take: the code's margins are 5 minutes (auto) and a third of the lifetime
(Vault), its calls end within the 5 s request timeout or local key generation,
or within two of them for a caller that joins a flight late. `Validate` only
asks that `TLS_CERT_TTL` and `VAULT_PKI_TTL` be positive, so lifetimes of a few
seconds are accepted by the code and outside the assumption. `Tick` does not let
a call be outlasted. Without that assumption the promise is false: a waiter
that slept past `NotAfter` would be handed an expired certificate.

### CAStore

A start is `ReadCert`, `ReadKey`, then either the loaded CA or `New` and the
system calls of `Persist`: `Mkdir`, truncate and write of each file. Each may
fail, the process may die (`Stop`) between any two and is started again, and any
number of servers may use the same paths. A file is missing, torn, or belongs to
the n-th CA generated. `said` is the last log line; `found`, `trusted` and
`quiet` are history. `quiet` holds until two starts overlap, a read fails on a
file that is there, or a file is removed by others: what `ExistingCAReused` and
`AnnouncedIsDurable` promise, they promise until then, across any number of
crashes, failed writes and servers.

### Exchange

Each request is a goroutine: routing (`ServeReserved`, `UpgradeWS`, `ReadBody`),
echo (`Preflight`, `Delay`, `Echo`, `DelayAborted`) or forwarding (`Forward`,
`UpstreamHeader`, `UpstreamAnswers`, `UpstreamFails`, `Relay`, `RelayPanics`),
the response leg, the flush in three steps (lock, first piece, second piece and unlock) and
`Finish`, or `FinishPanics` when the metrics library refuses a label. The
metrics are a bag of label sets. An upgraded connection is a `WebSocket`
session: two directions that hold `PipeSize` frames and a loop that holds at
most one message (`ReadWS`, `MirrorWS`, `CloseWS`, `FailWS`), with a client that
sends, reads and closes as it likes (`ClientWS`). Bodies are lengths, so `MAX_BODY_SIZE`, the sentinel byte and the
capture bound keep their arithmetic; header contents, the choice of CORS values
and wording are left out. `WriteHeader`, `Write` and `abort` are operators on
the pair of the recorder and the net/http writer behind it; that writer
(`WireHeader`, `WireBody`, `BodyAllowed`, `Return`, `CanSend`) is external and
modelled for HTTP/1.1: the first final status wins, 1xx other than 101 is
interim, some statuses carry no body, a handler that wrote nothing yields 200, a
code below 100 panics. A client may leave, close its sending side, or stall
(`Departures`); the servers have no read or write timeout (`server.go:96-106`),
so a stalled client blocks its own handler where more than the buffers hold has
to be read or written.

Abstractions: the number of bytes of a 400 or 502 body is 1; a failed upgrade is
400 (405 and 426 behave alike); `FileLen = -1` is an unreadable override file; a
HEAD response is not distinguished. `up` keeps the upstream's response from its
header on (`resp`) apart from what `Do` returns (`answer`): a response that
breaks off in its body is dropped, and `RelayUnchanged` compares the wire with
`resp`. Log lines have no level, so `Finish` logs reserved paths like any other
(the code logs them at debug). A WebSocket frame is the number of its
message; fragments, pings and the contents are the library's.

`ExchangeService` knows clients that left, the final status each client got and
the status recorded for each exchange. `ImplementsExchange` maps the first to
the clients net/http takes for gone, the second to the wire and the third to
what `finish` recorded, and says that every step of a handler is a step of it.

### Lifecycle

`main` is the program counter of `run` and `Run`. Signals kill the process until
`NotifyContext` has been called and cancel the context afterwards. The serving
goroutines (`Serve`, `ServeFails`) may run late, even after `Shutdown` was
called. `Shutdown`, `Poll`, `PollAgain` and `GiveUp` follow
`http.Server.Shutdown`: close the tracked listener, close idle connections (and
new ones that stayed silent for five seconds), return when none is left, else
wait for the poll timer or the shared deadline. Connections move between the
states net/http gives them; a hijacked one leaves its books, and the requests
an h2c client sends on it are not requests of the model.

### Config, Relay and Deployment

`Config` keeps options and values as texts. `Effective` is viper's lookup (flag,
environment unless empty, file, default), `Decodes` and `Valid` are the checks
of `Load` and `Validate`, `Outcome` is how far `run` gets, and `Settings` is what
handler, listeners and forwarder are built from. What `strconv`, `url`, `netip`
and `regexp` make of a text is given by constants: functions on the texts in use.

`Relay` holds the functions a hop applies to a request. Addresses come in the
forms in which one host can be written (plain, IPv4-mapped, with a zone, junk);
header lines are lists, because `Connection` and `X-Forwarded-For` may come on
several lines; a path is a list of tokens in which an escaped slash is told from
a slash, so that `Path`, `RawPath` and `EscapedPath` differ as they do in
`net/url`.

`Deployment` composes the two. Each of `N` servers is `given` its own options and
starts at any moment (`Start`, `StartFails`). A client's request reaches the
first (`Arrive`); a hop with a target relays it to the next (`Forward`), one
without echoes it, and a reserved path is served where it is met (`ServeLocal`).
A hop whose upstream does not listen, fails or is late answers 502
(`Unreachable`, `GiveUp`) while the hops behind it go on; answers travel back
through `RelayBack`. After the last server comes the operator's own upstream.
Queries, redirects and bodies are not part of this module, nor are the headers
`http.Transport` adds to a request itself (`User-Agent`, `Accept-Encoding`), a
request without a path (`http://host` as the request line's target) and `*`.

`PathAt(i)` is the path a request means at hop `i`, computed without `Relay`'s
machinery from the client's path and the base paths of the way, all decoded.
`ReservedStaysLocal` compares it with what the hop reserves: the routing test
sees a `Path` that was joined with a `RawPath`, printed and parsed again at
every hop, and must come to the same verdict.

## Runs

Passing runs:

| Run | Instance | Shows |
| --- | --- | --- |
| `cache_auto` | 2 handshakes, 3 SNIs, 2 entries, auto | `TypeOK`, `CacheCoherent`, `OneMintPerSNI`, `FrontIsMostRecentlyUsed`, `ImplementsService` |
| `cache_vault` | 2 handshakes, 2 SNIs, 1 entry, Vault, an issuer that may hang | `ImplementsService`, `HangIsIsolated` |
| `ca_shared` | 2 servers, crashes, read and write faults, lost files | `TypeOK`, `PairMatches`, `ExistingCAReused`, `AnnouncedIsDurable` |
| `exchange_echo` | 2 exchanges, 11 kinds of request, clients that leave or half-close | `TypeOK`, `CountedOnce`, `ClosedRequestOffWire`, `BlocksAreAtomic`, `TruncationMarked`, `MirroredInOrder`, `ImplementsExchange` |
| `exchange_forward` | 2 exchanges, an upgrade among them, 3 upstream answers, clients that leave or stall | `CountedOnce`, `TruncationMarked`, `RelayUnchanged`, `EveryExchangeEnds`, `EveryMessageEchoed` |
| `deployment` | 3 servers, 48 chains and some 530 other sets of options, 4 requests | `UsableWhenServing`, `ShadowedIgnored`, `ReservedStaysLocal`, `NotSpoofed`, `ChainPreserved`, `OriginKept`, `HopByHopStays`, `EncodingKept`, `RequestAnswered` |
| `life_drain` | 2 connections, 2 listeners | `TypeOK`, `CleanExitIsDrained`, `NoRequestCutEarly`, `SignalEnds` |

Runs that end in a violation, each a disagreement between the code and one of
its own documents or comments (`findings` in `PROJECT.json`):

| Run | Property | What happens |
| --- | --- | --- |
| `ca_silent` | `NeverSilentlyReplaced` | a served CA whose key file could not be written is replaced without the warning |
| `exchange_unrecorded` | `EveryRequestRecorded` | with `PROMETHEUS_WITH_PATH`, a path such as `/%ff` panics in `finish`: no count and no log line |
| `life_accepting` | `StopsAccepting` | the TLS listener accepts while the plaintext server drains |
| `config_empty_env` | `EmptyDisables` | `TLS_CA_ENDPOINT=""` in the environment leaves `/ca` in force |
| `relay_link_local` | `NearbyTrusted` | a link-local peer, seen with its zone, is not trusted |

The models also contain behaviours that differ from a sentence somewhere in the
repository and that no run singles out:

* In Vault mode `lookupStale` does not move what it serves to the front, so
  during an outage the list is not the order of use (`tlsmgr/cache.go:19`).
  `FrontIsMostRecentlyUsed` is therefore stated for auto mode.
* A client that only closes its sending side during a delay gets the implicit
  200 of a handler that wrote nothing, while 499 is logged
  (`server/recorder.go:53`). `ExchangeService!Complete` allows it.
* A shaped status of 100 or 102 to 199 is sent as an interim response and the
  final one is 200, while the log keeps the shaped one (spec 6.3).
  `ExchangeService!AccountInterim` allows it, and a client of `exchange_echo`
  asks for a 103.
* An upstream status below 100, which Go's client accepts, panics in
  `WriteHeader` (`RelayPanics`): neither count nor log line, as in
  `exchange_unrecorded`. `RelayUnchanged` says that nothing of such an answer
  reaches the client.
* A relayed body larger than the write buffer is on its way to the client before
  the block that describes it is printed (spec 7.2 has it the other way round).
* Below a base path that ends in an escaped slash the escapes of a request are
  lost: the joined `RawPath` is no encoding of the joined `Path`.
  `EncodingKept` leaves such bases out.
* An `ADDITIONAL_TRUSTED_PROXIES` entry written as IPv4-mapped IPv6 is accepted
  and never matches (`echo/proxies.go:40`).
* The response leg of a shaped 204 or 304 shows the body the recorder captured,
  which net/http refused to send (spec 8). `TruncationMarked` leaves these
  statuses out.
* WebSocket and h2c connections are hijacked, so `Shutdown` does not know them
  and exit code 0 may cut them (spec 12), with the requests in progress on them
  and before the deadline. `CleanExitIsDrained` and `NoRequestCutEarly` speak of
  the connections net/http tracks.

Bounds. Two concurrent callers suffice for every pairwise race of the cache: a
leader with a waiter, and a leader with an evictor of another SNI; the proofs
cover any number. Three SNIs and two entries make eviction choose, a capacity of
one makes every second store evict. `MaxTime` lets a certificate become
refresh-worthy and expire, `MaxIssues` and `MaxCAs` allow a second and third
generation. `MaxBody` is 2, so lengths 2, 3 and 4 are a body that fits, one that
is one byte too long, and one that is not read to its end; `WriteBuffer` is 2 so
that a body of 3 is more than the buffers hold. `PipeSize` is 1, so that a client
that sends ahead blocks, and two messages can overtake each other. Two
connections put one on each listener, or both on one. Three servers are the
fewest in which a hop has a hop on either side; the second is seen under a public
address, so trust depends on the configuration of the third; one third server
reserves `/p/q/ca`, which a request for `/ca` means behind a base path with an
escaped slash. Options are
combined two sources at a time, one option or none from each, because
`Effective` looks at each option by itself.
Connections and exchanges are used once: the exchange, deployment and lifecycle
runs say `CHECK_DEADLOCK FALSE` because the system stops when the exchanges are
over or the process has exited. Symmetry is used in `cache_auto` and `ca_shared`, which
check no liveness.

Fairness. `LocalFairSpec` of the cache only says that goroutines inside `Get`
are scheduled; that the issuer ends (`Mint` is local computation, Vault calls
have `requestTimeout`) is the premise `IssuerAnswers(s)` of `HangIsIsolated`,
for the SNI in question alone. In `Exchange` handlers are scheduled, timers
fire and `FORWARD_TIMEOUT` (validated positive) ends a silent upstream; the
printer's lock is strongly fair because `sync.Mutex` hands over to a waiter
after a millisecond; nothing is assumed of clients, and `EveryExchangeEnds` only
speaks of exchanges whose own client does not stall; `EveryMessageEchoed` has
the client's reading as its premise. It is assumed that stdout is drained. In
`Deployment` handlers run and the timer of a relay fires; no server needs to
start and no upstream to answer. In `Lifecycle` the main goroutine runs and the deadline passes; a
polling loop whose deadline has passed does not miss it for ever. Handlers and
clients owe nothing.

## Proofs

Five modules hold theorems about the specifications, `RelayProofs` lemmas about
the operators of `Relay`. TLAPS checks all of them with no assumption beyond the
named `ASSUME`s of the modules, which TLC evaluates on every run. Every safety
property of a passing run is a theorem.

* **Cache.** `CacheImplementsService` is the refinement for any number of
  handshakes, SNIs and entries. `ImplementsService` is not inductive: that a
  served certificate is unexpired and not older than before depends on who
  leads a flight, how long calls last, and what waiters hold. `IndInv` says so:
  coherence of map and list, `FlightsLed` (a flight's leader and its SNI),
  `CallsBounded`, `HeldCertsGood` (what a leader or a woken waiter holds is for
  its SNI and lasts long enough), `SerialsBounded`, and `NewestKept` (nothing
  served or about to be served is newer than what is cached or carried).
  `OneMintPerSNI`, `CacheCoherent` and `TypeOK` follow from it.
  `RecencyKept` is `FrontIsMostRecentlyUsed`; its invariant `Leads` says that
  the list is the beginning of the order of use, as long as it is, and
  has no duplicates. It has `~VaultMode` as its hypothesis, because `lookupStale`
  serves without moving what it serves to the front (`tlsmgr/cache.go:106-118`).
* **CA files.** `AlwaysPairMatches` holds for any number of servers; its
  invariant `OneCA` is that a CA in memory never mixes two pairs
  (`StoreInductive`, with `TypeOK`). `AlwaysReused` and `AlwaysDurable` hold for
  any number of servers too. Neither property is inductive: `Orderly`
  (`OrderlyInductive`) adds, while `quiet` holds, that at most one server is
  between the start and the end of its `loadOrCreateCA`, that what it has read is
  what the files hold, how far it is with writing them, and that it replaces
  them only if no other server relies on what they hold.
* **Lifecycle.** `IndInv` of `Lifecycle`: a server in shutdown does not accept,
  a server the loop is past has no tracked connection unless its `Shutdown`
  gave up, which takes an expired deadline, and a pending listener error belongs
  to a failed listener. `AlwaysDrained` and `NeverCutEarly` follow for any
  number of connections.
* **Exchanges.** `ExchangeProofs!IndInv` has four parts. `Local` says of each
  exchange what its recorder, wire, body, dump, upstream leg and session hold at
  each point of its goroutine; a step of one exchange leaves the `Local` of the
  others alone (`LocalFrame`). `Printer` ties the mutex to the one exchange
  that writes, and `out` to whole blocks and at most one half. `Counted` says
  that the bag of observations has one copy for each exchange that is over.
  `TypeOK` is the fourth. From them follow `Accounting`, `ClosedOffWire`,
  `Blocks`, `Truncation`, `Mirrored` and `Relayed`, for any number of exchanges,
  any limits, bodies, buffers and upstream answers, and `Refinement`:
  every step is one of `ExchangeService` or none. What makes `Truncation` hold
  is `LimitShowsAll`: the limit of one byte beyond `MAX_BODY_SIZE` is neither
  seen in what is shown nor in the marker. `ExchangeAssumption` says of the
  upstream that none of its answers has an interim status, because
  `http.Transport` reads on until a final one.
* **Deployment.** `DeploymentProofs!IndInv` says of a chain of any length:
  `Started` (a server is what `Settings` makes of its options, and stays so),
  `Way` (the request has been at every hop before those that saw it, and each
  got exactly what the one before it sends), `Headers`, `Hosts`, `Peers`,
  `Paths` and `ChainPreserved` (what the hops together made of the client's
  request), and `Answered` (the answer of a hop comes from a hop that has
  answered, with the address that hop resolved, and an echo from one that does
  not reserve the path it saw; an answer of the operator's upstream went through
  `relayHeader`). None of the properties is inductive without
  `Way`: it is because nothing a hop has seen or decided changes any more that
  a later hop may speak of an earlier one. The step of each part rests on a
  lemma of `RelayProofs` about one hop: `ChainExtends` and `ResolveForeign` for
  addresses, `RelayedTwice` (what passed `relayHeader` once passes it
  unchanged) and `SetOnce` for headers, `UnescapeJoinPath` (decoding and joining
  commute, unless the base ends in an escaped slash), `SentURLIs` and
  `JoinPathKeeps` for paths. `ReservedLocal` rests on `SentPath`: whatever
  became of the escapes, the decoded path a hop sends is its decoded base
  followed by the decoded path it saw, because the path that is parsed again
  decodes to the joined `Path` whether the joined `RawPath` is used or not.
  Along `Way` this makes `PathAt(i)` the path hop `i` sees (`SeenDecoded`,
  `SeenPath`). `UsableWhenServing` and `ShadowedIgnored` follow
  from `Started` and the definitions of `Config`.

  The assumptions: `DeploymentAssumption` and `NumbersAssumption` give the
  constants their types; `HeadersAssumption` says that a request line has an
  absolute path and that all headers are functions on the same names, absent
  ones having no lines; `TargetsAssumption` is what `url.Parse` guarantees of a
  URL with a host: its path is empty or begins with a slash, and `Path` and
  `RawPath` are those of its escaped form.

`FlattenSeq`, which joins the lines of `X-Forwarded-For`, and `PathAt` are the
only recursions the proofs meet. Induction schemes are out of the prover's reach, so
`RelayProofs` derives that every set of naturals has a least element (`Least`)
from `WFMin`, and the proofs argue with smallest counterexamples
(`FlattensExists`, `FlattensTyped`, `SeenDecoded`, `SeenPath`).

Only model-checked: the liveness properties (`HangIsIsolated`,
`EveryExchangeEnds`, `EveryMessageEchoed`, `SignalEnds`, `RequestAnswered`),
which need fairness and are out of the prover's reach. The violations are
counterexamples, for which an instance is enough.

## Not modelled

The rest of the echo capture (JSON rendering, JWT and cookie decoding, client
certificates), logging set-up and version format their input and keep no state;
a model would restate them. Of the TLS manager, static mode and the fixed TLS
options; of the Vault client, the building of requests and the assembly of PEM.
HTTP/2 framing, TLS, X.509, WebSocket framing and the Prometheus exposition are
libraries. The CA's own expiry is read by nothing in the code. Queries are
copied from request to target unchanged. Log levels are not told apart. `MAX_BODY_SIZE` at the largest 64-bit
value, where adding the sentinel byte wraps, is out of the models' range.

## Plan

Done: the modules above, their runs, and the proofs of the safety properties of
all of them. Next: a composition of `Lifecycle` with the exchanges in flight
(what a drain that gives up cuts, and what is then missing from log and
metrics), checked first and then proved from the two invariants.
