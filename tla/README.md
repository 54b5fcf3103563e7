# A TLA+ model of tuyau

tuyau is a reverse tunnel over QUIC: a public server accepts TLS connections,
finds out from the SNI which hostname they are for, and forwards them over a
tunnel to the client that owns the hostname, or to a local upstream. This
directory models the server, the Rust client and the TypeScript SDK in TLA+,
checks the models with TLC on small instances, and proves all their safety
properties, and four of their liveness properties, with TLAPS for every instance.

The models are written from the code. `PROJECT.json` maps every definition to
the lines it stands for, and lists the runs, the mutants that show each property
can fail, the hazards, the findings and the theorems.

## 1. The system

| part | state | operations |
|---|---|---|
| routing table (`routes.rs`) | hostname → owner, mode, connections, cursor; local upstreams; terminated and offload sets | `install`, `remove_conn`, `kick`, `lookup`, `is_terminated`, `is_offload`, `routes_to_upstream`, `set_terminated` |
| tunnel listener (`server.rs`) | one task per QUIC connection | `handle_incoming`: accept a stream, read Hello, `admit`, install, Welcome, serve, clean up; `kick`; `shutdown` |
| control (`control.rs`) | registry of tunnels, event channel | `register`, `unregister`, `tunnels`, `subscribe` |
| start, cert resolver and ACME controller (`server.rs`, `config.rs`, `backend.rs`) | configuration, resolver, domains with an order | `start`, `start_with`, `admit`, `set_terminated_domains`, `ensure`, `resolve` |
| host certificates (`host_certs.rs`) | pattern → certificate | `select` |
| public listener (`public.rs`) | semaphore, count per address, one task per connection | `accept_loop`, permits |
| first bytes (`public.rs`, `sni.rs`) | the record read, the bytes given back | `read_client_hello`, `parse_sni`, `PrefixedStream` |
| dispatch (`public.rs`) | one task per connection | `handle_public`: ClientHello, terminate or not, handshake, HTTP or bytes, route |
| HTTP proxy (`h2proxy.rs`, `local_pool.rs`) | requests of a connection, backend connections, splices | `proxy`, `h1_roundtrip`, `ws_bridge`, `h1_upgrade`, `pooled_roundtrip` |
| byte pipe (`public.rs`, `client.rs`) | two copies per task | `pipe_bytes`, `forward_stream`, `splice_local` |
| client (`client.rs`, `listener.rs`, `tls.rs`), SDK (`index.ts`) | connection, queue of streams | `connect`, `serve`, `accept`; the CLI's process around them (`main.rs`) |
| frames (`codec.rs`, `protocol.ts`) | bytes read so far | `encode`, `decode`, `read_frame`, `readFrame` |
| tunnel certificate (`cert.rs`) | two files | `load_or_generate` |

The parts interact through the routing table. Handshake tasks write it, public
connections read it several times each without holding a lock in between, and a
dynamic backend replaces its terminated set. A client's tunnel carries streams
that the server opens; each starts with a framed header and goes on with raw
bytes.

What is hard about it: handshakes that overtake each other; decisions made from
a table that changes before they are used; permits and streams that must be
given back on every path; timers that are the only end of some waits; streams
that arrive before the client knows it is connected; two files that are written
one after another. `PROJECT.json` has the complete list under `hazards`, each at
its line.

## 2. The modules

| module | models | variables ↔ code |
|---|---|---|
| `Routes` | the writes of the routing table, as operators on a table | the table is `RoutingTable::inner` |
| `TunnelServer` | `accept_loop`, `handle_incoming`, `kick`, `shutdown`, `Control` | `pc[c]`: the await or lock the handler of `c` is at; `inner`: the table; `tunnels`, `announced`: registry and events; `displaced[c]`, `Doomed`: connections some task is about to close; `closed`: `close_reason()` |
| `TunnelTable` | what the tunnel listener promises: hostnames and the tunnels that serve them, changed in single steps | `open`, `live`; they are mapped to `Open` and `Live` of `TunnelServerProps` |
| `TunnelServerProps` | its properties, its inductive invariant and the mapping to `TunnelTable` | |
| `ControlEvents` | `Control` with its broadcast channel and an observer | `tunnels`: the registry; `queue`, `lagged`: the observer's receiver; `view`: the tunnels it takes for live |
| `RoundRobin` | `lookup` among the tunnels of a hostname, with concurrent lookups | `conns`, `cursor`: of `HostRoutes`; `left[p]`: the probes lookup `p` still has |
| `HostRouting` | validation, `from_config`, patterns, the reads of the table, `HostCerts::select` | operators only |
| `ServerStart` | `start`, `start_with`, `set_terminated_domains`, the ACME controller and the resolvers of certs, over `HostRouting` | `config`, `terminated`, `inner` (mode and whether a tunnel is open), `added`, `calls` (between the two halves of `set_terminated_domains`) |
| `PublicDispatch` | `handle_public` and the route lookup of `proxy`, over `ServerStart` | `conn`: where the task is, what it has decided and the cert it was shown; each read of the table is a step |
| `PublicListener` | `accept_loop` of the public listener, permits, the stages of a connection | permits left, `counts`, per connection its stage; `kind[c]`: how it is served, `h1_upload` while the backend of an HTTP/1.1 request does not read its body |
| `H2Proxy` | the requests of a terminated connection | `req[r]`: the step, backend connection, headers, response and splice of a request; `credit`: streams left on the tunnel |
| `DataPath` | the bytes of one public connection through server, tunnel and client, or through `splice_local` to an upstream | `link`: per direction three links with the bytes on them and their end; `gone`: links whose reader is gone; `over`: copies that are over; a link holds at most `Window` bytes, so that a reader that stops holds up the copies behind it |
| `TunnelClient` | `connect`, and taking up streams, for four kinds of client; signals and the end of the CLI's process | `queue`, `taken`, `stage[s]`, `process` |
| `Framing` | `encode`, the three readers of frames and `read_client_hello`, over a stream cut anywhere | `wire`, `pos`: the stream, and how much of it was taken; `buf`: the bytes the reader holds; `items`: the frames it returned |
| `ClientHello` | `parse_sni` and `PrefixedStream`, over `Framing`; what a TLS client sends (`Message`, `ClientBytes`) | `hello`: the ClientHello the client sends; `sni`: the name found; `consumed`: as in the code; `out`: the bytes read after it |
| `CertStore` | `load_or_generate` with interruptions | the content of the two files, `pinned` |

`MC…` modules give the constants of a module their small values. `…Proofs`
modules hold the theorems. Operators in a section "Faulty variants", or
commented as faulty, are not part of a model: each is a plausible bug, and
`PROJECT.json` says which definition it replaces and which property it breaks.

What is abstracted. A name is a sequence of labels with a flag for its spelling,
since patterns drop the first label and lowercasing matters. A connection, a
client and a stream are model values. Bytes are counted in `DataPath`; in
`Framing` and `ClientHello` they are numbers. A ClientHello is any record of its
fields that TLS can encode (`IsHello`); in the run, the fields that the parser skips
are zeros of small lengths. An address is one of four classes, since
`to_canonical` tells them apart. Timers are steps that may be taken whenever the
await they bound is pending. Logging, the 502 page and the rewriting of a
request into HTTP/1.1 are left out.

quinn, rustls and hyper are modelled by what the code uses of them: a closed
connection has a `close_reason`; streams that were queued before a loss are still
accepted; a dropped send stream is finished and a dropped receive stream is
stopped; `stable_id` may be reused when all handles are gone; a service future
is dropped with its stream or connection. The kernel delivers what was written to
a socket before it was closed. A broadcast channel drops its oldest event for a
receiver that is a whole capacity behind, and tells it so at its next `recv`.

## 3. The runs

Every run is `tlc -config <name>.cfg <module>`.

### Runs that pass

| run | checks | bounds, and why they are enough |
|---|---|---|
| `TunnelServer` | one owner per hostname (`OneOwner`), last-write-wins (`LastWriteWinsAlone`), cleaning up on every path (`NoGhost`), no open tunnel without its routes (`UnroutedIsDoomed`), the whole implements the table of `TunnelTable` (`ImplementsTable`), and a kick gets every registered tunnel of its client that serves a hostname (`KickReaches`); closed tunnels are forgotten, handshakes are decided, shutdown drains | 2 connections that may come back after they closed, 2 clients, 2 hostnames. Grants overlap on one and on both hostnames, with both balances, and one is empty. The safety properties are proved for any number of connections. |
| `RoundRobin` | picks are spread (`RoundRobinSpread`), an undisturbed lookup finds a live tunnel (`UndisturbedFinds`) | 3 tunnels, 2 lookups, `CursorBound` 10: the cursor passes every residue of 1, 2 and 3 several times. Both are proved for any number of tunnels and lookups |
| `PublicDispatch` | a static configuration decides how a connection is treated (`StaticTreatment`) and which cert it is shown (`OwnCertIsShown`); with a caller's backend offload hosts get no HTTP (`OffloadStaysBytes`), upstreams of an exact entry never plaintext in place of requests (`UpstreamIsHttp`), and provisioned names a cert that names them (`CertNamesHost`) | one connection, because tasks share only the table; static: a tunnel hostname and up to two upstreams of its name, its wildcard and the catch-all in all modes, and the same with certs; configurations that validation refuses; two spellings, a name that ends in a dot, a shared token, client certs, cert files, ACME. With a caller's backend: one that keeps the configured names in its sets and one that forgets them. Tunnels come and go, and sets are replaced, between its steps. All five are proved for any configurations |
| `PublicListener` | permits add up, counts are exact and no address exceeds its share (`LimiterIsExact`); permits return (`PermitReturns`), the backlog is answered | 3 connections that may come back, 2 of one address; `MaxConns` 2, `Share` 2, `Floor` 1, so that both caps are met; `ErrorBound` 1. All are proved for any number of connections and any caps, the liveness properties from a hypothesis about `ENABLED` (section 5) |
| `CertStore` | the fingerprint is stable, which states cannot be recovered | `Generations` 8; a pair is generated only by a start that did not find both files. Both are proved for any number |
| `Framing` | frames come out as sent, raw bytes are kept; the name found is the one sent (`SniAsSent`) and the bytes looked at are given back (`HelloIsReplayed`) | `MAX_FRAME_SIZE` 2, two frames behind their four bytes of length, written while the reader reads; payloads of up to three bytes, so that one is too large; tails that are cut frames, raw bytes, or lengths one over the limit and far over it. 180 ClientHellos: names of both types, empty, of the longest size, too long and not text, extensions missing, empty, twice and between others; whole, or cut within and before the name; `MAX_RECORD_SIZE` 36, which some exceed. All are proved for any bytes, ClientHellos, limits and cuts |
| `H2Proxy` | streams add up, pooled connections are never upgraded, the backend is told the client's address; setups end, a connection that is gone gives back its streams | 2 requests and `Credit` 1, so that one waits for the other's stream; the header absent, malformed, an address, and one in mapped form, and a peer in mapped form, so that the header's address is told apart from the peer's; `MaxStreams` 2. All are proved for any number of requests, addresses and streams, the liveness properties from a hypothesis about `ENABLED` (section 5) |
| `TunnelClient` | no stream is forgotten; streams are taken up, the loss of the tunnel ends `serve` and the process | 3 streams, 2 with an ingress rule, four kinds of client; `NoStreamForgotten` is proved for any number of streams |
| `DataPath` | a clean end means all bytes; ends are delivered, tasks end | 2 bytes up, 1 down, `Window` 1: a sink that does not read holds up both copies of its direction. `EndMeansAll` is proved for any number of bytes and any window |
| `ControlEvents` | an observer that did not lag will agree with the registry (`ViewWillAgree`); a tunnel that is gone leaves its view (`GoneLeavesView`) | 3 tunnels and a channel of 2 events, so that it overflows with one tunnel's events and with several's; `ViewWillAgree` is proved for any number of tunnels and any capacity |

`TunnelServer`, `RoundRobin` and `ControlEvents` check for deadlock. In the others
the system may really stop: every connection, request, stream or byte of the bound
has been handled, or the server has shut down.

`ImplementsTable` says more than the invariants beside it. `TunnelTable` changes in
single steps: a tunnel comes up and ousts the tunnels its grant replaces, is
revoked with all others of its client, or closes. In the code each of these is
spread over a lock, a loop of `close` calls after it and the clean-up of other
handlers. A connection is live in the abstract table while it is in the routing
table under all its hostnames and no task has taken charge of closing it.

### Runs that show a disagreement

Each checks what a comment says, and TLC shows a behaviour of the code that does
otherwise. The findings in `PROJECT.json` quote the comments.

| run | what happens |
|---|---|
| `LookupRace` | of two concurrent lookups one returns `None` though a tunnel is alive |
| `PermitLifetime` | an upgraded h1 connection goes on after its permit was dropped |

### Where the properties stop short of a comment

These are places where a comment claims more than the code does, or claims it of one
path only. Each was tried as a property, and TLC had a counterexample; the properties
that are kept leave them out, and the hazards of `PROJECT.json` note them at their lines.

- `kick` does not reach a tunnel that was admitted without hostnames
  (`server.rs:273`), nor one that is admitted and not yet installed; `KickReaches` and
  `TunnelTable` are about tunnels that serve.
- The late grant of an older connection that is still open displaces a newer one
  (`server.rs:625`).
- With ACME and nothing terminated in the configuration there is no controller
  (`server.rs:340`), and provisioned hostnames get no order (`server.rs:299`);
  `CertNamesHost` is about servers with a controller.
- `start_with` does not ignore `config.hostnames` (`server.rs:77`).
- A tunnel hostname without a certificate is shown that of a wildcard upstream
  which never routes it (`host_certs.rs:49`); `OwnCertIsShown` is about entries
  with a certificate.
- `HostCerts::select` drops the dots at the end of a name and the routing table does
  not (`host_certs.rs:49` says "as the routing table does"): a client that asks for
  `a.x.` is shown the certificate of `a.x` and routed by the wildcards and the
  catch-all, and an entry spelled with a final dot never shows its own certificate.
  `OwnCertIsShown` is about the entry for the name without final dots.
- Keep-alive sees that dead h2 connections "don't pin a permit forever"
  (`h2proxy.rs:61`). An h1 connection has a timer for its headers only: while a backend
  does not read the body of a request, hyper does not read the client's socket, nothing
  finds out that the client left, and both permits are kept until the backend goes on.
  `PermitReturns` leaves this wait out, and that of a pipe.
- Entries that differ in case only pass validation (`config.rs:184`);
  `StaticTreatment` is about names in lower case.
- With a caller's backend, a stream's header tells the mode of the grant, not the
  one applied (`frame.rs:39`), and raw TLS bytes reach a wildcard upstream in
  terminated mode when a tunnel goes away between two reads (`public.rs:443`).
- A request waits for a free tunnel stream without a timer, so that hung backends
  of others stall its setup (`h2proxy.rs:64`); `SetupOrAnswer` leaves this wait out,
  and that for the header to be written, which has no timer either. The same wait comes
  before a pipe, and `EndIsDelivered` leaves it out.
- A copy that failed finishes its destination like one that ended
  (`public.rs:662`); `EndMeansAll` is about directions in which nothing failed.
- `splice_local` goes on when one end has closed (`public.rs:542`): an upstream that
  neither writes nor closes keeps the task. `TasksEnd` asks that both are gone.
- A TLS listener's `accept` has no timer for the handshake (`tls.rs:48`):
  `StreamsAreTaken` is about runs in which no handshake hangs for good.
- An observer that ignores `Lagged` may list a gone tunnel for good
  (`control.rs:51`); the one in `ControlEvents` takes a new snapshot.

## 4. Fairness

Only steps a task takes by itself are fair: steps between two awaits, timers, and
the reaction to a closed connection. What a peer, a backend, a local service or a
client does is never fair. Where the code waits for one of them without a timer a
liveness property says so, by an alternative in its conclusion or by a condition on
the peer: the handshake and the pipe of a public connection, an upload, a free stream,
a receiver that has to read, a TLS handshake with the client's listener.

- `TunnelServer!FairSpec`: the handlers' own steps, their timers, `kick` and
  `shutdown` once begun. Writing Welcome or Reject to an open connection has no
  timer and is not fair; `HandshakeResolves` says so.
- `PublicListener!FairSpec`: the accept loop; the timers of the ClientHello and
  of the TLS accept; the tasks' ends when their client has left. The TLS
  handshake after the accept has no timer, and is fair only for a client that left,
  and so is the end of an HTTP connection, unless it is in a stalled upload.
- `H2Proxy!FairSpec`: `proxy`'s own steps and timers, and errors of a lost tunnel.
  Opening a stream is fair only when one is free. Writing its header, and reading a body,
  which goes on as the client takes it, are not fair while the tunnel is up.
- `TunnelClient!FairSpec`: the loop of the Rust client and its header timer. The
  SDK sets no timer on `connect` or on a header, and none is assumed. A handshake
  of the TLS listener ends only with the tunnel. `run_client` returns once `serve`
  has, or its grace is over.
- `DataPath!FairPathSpec`: the copies of each task, where there is a byte to copy and
  room for it; the dials, which have timers or fail by themselves; and the failure of
  `open_bi` on a lost tunnel, but not its success. No end reads by fairness:
  `EndIsDelivered` supposes that the link to the receiver has room again and again.
- `ControlEvents!FairSpec`: a handler that changed the registry goes on to send,
  since `send` never waits; the observer goes on to read.

tokio runs every ready task eventually, so weak fairness per task is what the
runtime gives.

## 5. The proofs

`tlapm` checks eight modules. The assumptions are those named in the modules
(`…Assumption`), which say what kind of values the constants are: a grant is a
grant, an entry of a configuration has the fields of its struct, bytes are numbers
below 256, `MAX_FRAME_SIZE` fits the four bytes of a length, a client's ClientHello is
one that TLS can encode, a channel has room for an event. TLC evaluates each of them in the run of its module.

**TunnelServerProofs**. For any sets of connections, clients, hostnames and
grants: `TypeCorrect`, `RoutesHaveOneOwner`, `LastWriteWins`, `HandlersCleanUp`,
`NoZombieTunnels` and `KickReachesTunnels`. The invariant is `IInv`: all the
invariants together with `HandlerState`, which says how the other variables follow
the phase of a handler. It is needed because the properties speak of grants, while
a step such as `InstallRoutes` is only right if a handler at that phase has a grant
and a connection whose handler is not at such a phase has no route; and because a
displaced connection is doomed only as long as the handler that displaced it
is at the loop that closes it. Its first lemmas say what `Install`, `RemoveConn`
and `Kick` leave in an entry of the table, and that what `Install` and `Kick` take
out is what they return. The step proof has one case per action.

`Refinement` proves `ImplementsTable`, and `TableShowsServing` that apart from
connections somebody is about to close the routing table shows exactly what the
abstract table has serving. Under `IInv` a connection is live just when it is in
the table and not doomed, so a step refines the abstract one by what it does to
the table and to the doomed connections: `InstallRoutes` is `Up`, `kick` is
`Revoke`, and removing or closing a connection is `Close` or, when it was doomed,
a stutter. `DoomedHeld` is needed beside `IInv`: with `stable_id`s reused, a
connection that somebody is about to close must not be a new one.

**ForwardingProofs**. Of `RoundRobin`, for any number of tunnels and lookups:
`RoundRobinTypes`, `UndisturbedLookups` and `SpreadIsEven`. For undisturbed lookups the invariant adds
`SeenClosed`: what such a lookup has probed are the positions just behind the
cursor, and these are closed; after as many probes as there are tunnels these are
all positions. `RoundRobinSpread` compares any two tunnels and is not inductive;
`InTurn` says which of them may be one ahead: in the order in which the cursor will
come to them, tunnels have won ever more lookups, the last at most one more than
the first. A pick takes the first and makes it the last. The steps are arithmetic
modulo the number of tunnels, in lemmas of their own.

Of `H2Proxy`, for any finite set of requests and any limit of streams:
`NoStreamLeaks`, `PoolStaysPlain` and `AddressReaches`. A step of a request
replaces its record; the invariant says what a record may hold at each stage of
`proxy` (`Stage`, `Told`), and one lemma (`OneStepInv`) turns a record step into a
step of the whole.

`ProxyIsAnswered` and `GoneStreamsReturn` prove `SetupOrAnswer` and `GoneGivesBack`.
`EachStep` says which stages can follow a stage, and that a lost tunnel and a client
that is gone stay so; `FairStep` that a step of a request's own leads on. A request
therefore goes through finitely many stages in one direction, and weak fairness of its
steps takes it through each, as long as they are enabled there. That they are is
`NeverStuck`, a hypothesis of the two theorems: see below. Writing a stream's header and
reading a body are among the stages and are not fair; the theorems leave a request there.

**PublicDispatchProofs**. For any configurations with any names, any grants and any
calls of the backend. `ServerInv` says what the server keeps of its configuration:
the table is the one `from_config` makes of a valid one, the terminated set and the
calls under way hold only names that are configured or have an ACME order, and
tunnels are those granted. `ConnInv` says what a connection has at each step of
`handle_public`. On top of these two (`DispatchInvariance`) each theorem has an
invariant of its own.

- `OffloadGetsNoHttp`: a host in the offload set is told so by its own entry, before
  any lock that can change is read, and the flag stays until the bytes are piped.
- `ExactUpstreamsGetHttp`: for a host with an upstream entry outside the offload set,
  `is_offload` says no, since no pattern answers for it, and `routes_to_upstream` says
  yes by the entry itself, so that plaintext is never piped.
- `EntriesShowTheirCerts` and `CertsNameTheirHosts`: `HostCerts` holds other
  entries than the table and is asked for a name without its final dots, so lemmas show
  that the first pattern with a certificate is that of the entry for this name, and that a host terminated by name is in the set that was
  configured or ordered when `is_terminated` read it. Orders are never withdrawn, so
  it still is when the handshake ends. With the halves of `set_terminated_domains`
  exchanged this invariant fails.
- `StaticServersKeepToTheConfig`: each question reads one lock after another, and
  tunnels come and go between the reads. `StaticInv` compares every step with the
  answer given at once by a table without tunnels (`is_terminated`, `is_offload`,
  `routes_to_upstream` and `LookupUpstream` of `HostRouting`): tunnels of a static
  server are of configured hostnames, which no pattern answers for, so that they
  change no answer. Validation leaves one entry per name, and lemmas on `EntriesFor`
  compute the answers from its mode.

**PublicListenerProofs**. For any number of connections and addresses and any
caps: `PermitsNeverLeak` and `LimiterCounts`. The invariant `LInv` is what they
state together with the type invariant: a count may be compared with
the cap because it is exact, and a drop may take one from it because the
connection is among those it counts. Steps that move no task into or out of the
states that hold a permit are covered by one lemma, and five actions move one.

`PermitsComeBack` proves `PermitReturns`: once a connection has a task only that task
moves it, a client that is gone stays gone, and the stages of a task follow one
another up to the drop of the permits, or to a wait in which the task does not see its
client leave (`Unwatched`). `BacklogIsServed` proves `QueuedIsAnswered`:
the loop comes back to `accept()` again and again, so that the strong fairness of
accepting a connection in the backlog takes it from there; a loop that has stopped
has no backlog. Both have `NothingIsStuck` as a hypothesis.

**StreamProofs**. The lemmas that the next two modules share: the types of a reader's
state, and pieces of a wire. `Piece(s, w, a, b)` says that `s` stands in `w` between
two offsets; the lemmas about it (pieces of pieces, pieces that meet, a growing wire)
are all that is used of sequences, so that steps are argued with offsets. A number of
up to four bytes is read as it was written (`to_be_bytes`, `from_be_bytes`).

**ClientHelloProofs**. For any ClientHello, any bytes behind it and any sizes of reads:
`ClientBytesAreReplayed` and `RoutedOnTheNameSent`. For the first, `Replay` counts
what `PrefixedStream` has given out by `consumed` and the place in the stream. For the
second, `SniInv` says that the record read is the first one of the client's stream and
that the name is what `parse_sni` finds in it. What it finds is a fact about all
ClientHellos, in four steps. The message is laid out as vectors behind one another,
and reading a length at the place of a vector gives its length (`Vectors`). The
recursive functions `ServerNames` and `Extensions` satisfy their equations: a recursive
function is a choice, so lemmas show that one such function exists for every walk that
only goes forward (`WalkIs`). At the start of a name or of an extension such a walk
stops, or goes on at the start of the next. And from the last extension back to the
first, what the walk finds is the first host name that is left (`NameFound`,
`HostFound`); the induction takes the least counterexample, since the induction
theorems of the library cannot be used. A ClientHello that is cut by its record makes
a read fail before the parser comes to its extensions, so that there is no name.

**EndpointProofs**. For any number of streams and each kind of client:
`LoopForgetsNoStream`. `NoStreamForgotten` needs beside it that the queue has a stream
only once and that the loop holds one just between its acceptance and its header or
handshake: otherwise taking the first of the queue could leave it queued. For any
number of generated key pairs: `CertStoreTypes`, `FingerprintIsStable` and
`OnlyAnInterruptedKeyWriteWedges`. The invariant says which pairs of file contents
occur at each step: once a server has run both files are whole and of the pinned
pair.

For any payloads, limits and sizes of reads: `FramesArriveAsSent` and
`HeaderLeavesTheRest`. The properties compare frames; the readers see bytes. The
invariant `FrameInv` says where everything lies on the wire: there are offsets at which
the frames that were written meet one another (`Layout`), the frames returned are the
first of these, and the bytes held are those from the end of the last frame returned up
to where the reader has come (`Progress`). A whole frame at the reader's place is the
writer's because four bytes hold its length, which is `MAX_FRAME_SIZE` at most.

**DeliveryProofs**. For any number of tunnels and any capacity:
`ObserverEndsUpRight`. `ViewWillAgree` is about an observer with a snapshot, so the
invariant adds what holds without one: the last waiting event about a tunnel
whose handler is not between its two steps is true, also after a lag. A snapshot
then makes the view right wherever it falls. For any number of bytes: `EndIsWhole`. A
sink's end says nothing of the links before it, so the invariant carries the end
along the path (`EndsInOrder`, `OverIsRead`) and counts the bytes (`BytesKept`).

### Only model-checked

- That a fair step is enabled where a request, a task or the loop waits for nobody. The
  prover takes `ENABLED` for an unknown, so no theorem can conclude it: the four liveness
  theorems have it as a hypothesis (`NeverStuck`, `NothingIsStuck`), and everything else
  that they need is proved. TLC evaluates `ENABLED` itself, and its runs check the four
  properties without the hypothesis.
- `ClosedIsForgotten`, `HandshakeResolves` and `ShutdownDrains` of `TunnelServer`,
  `StreamsAreTaken` and `LossEndsServe` of `TunnelClient`, `EndIsDelivered` and
  `TasksEnd` of `DataPath`, `GoneLeavesView` of `ControlEvents`. Each has a stage that
  takes as many steps as a set, a queue or a link has elements: the connections a
  handler displaced, the streams or events before one in a queue, the bytes before an
  end. Such a stage ends by an induction over a number in a temporal formula, which the
  prover cannot do; the four that are proved go through a fixed number of stages.

## 6. What is not modelled

- `meter.rs`: two counters that are only logged.
- The ACME orders, their tasks and their cache, which are rustls-acme's: a name
  that was ordered counts as named by its cert from then on. When `start_inner`
  fails after it has spawned such a task, nothing cancels the task
  (`server.rs:182`); the failed start leaves nothing that could be observed.
- The SDK's splice of a stream with a socket (`index.ts`, `handleDataStream`): when
  it ends depends on the half-open behaviour of Node's sockets and of the QUIC
  binding.
- The precedence of arguments, environment and file in the command line
  (`build_client_config`, `resolve_token`), and the reading of configuration files:
  functions of their inputs without state, covered by unit tests. `run_server` adds
  only a grace period to the `shutdown` of `TunnelServer`.
- CBOR and the serde forms of the messages, UTF-8 beyond ASCII, the comparison of
  fingerprints, the rewriting of a request into HTTP/1.1, error types.
- A request with the header `CF-Connecting-IP` more than once: `AddressIsTold` is about
  one value.
- A loop around the SDK's streams: it has none, and `NoStreamForgotten` is about the three
  clients that do.
- Two connections of one client from one peer address at a time, which control
  events do not tell apart.
- The order between the grants of two open connections of one client: the code keeps
  none, and `install` displaces whatever is there.
- The cursor's wrap at 2^64, which shifts the round-robin once.
- A composition of `TunnelServer` with `TunnelClient`: they share only the streams
  that the server opens, which `TunnelClient` allows at any time, also before
  Welcome, and the loss of the connection, which both allow at any time.
