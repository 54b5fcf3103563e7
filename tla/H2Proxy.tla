------------------------------- MODULE H2Proxy -------------------------------
(***************************************************************************)
(* h2proxy.rs and local_pool.rs: the requests of one terminated public     *)
(* connection, each proxied to a backend over HTTP/1.1 by a run of proxy   *)
(* of its own: on a new stream of a tunnel, on a pooled connection to a    *)
(* local upstream, or on a connection for itself when the request asks for *)
(* an upgrade.  The requests of an h2 connection run concurrently, those   *)
(* of an h1 connection one after another.  Which route lookup returns is   *)
(* the subject of PublicDispatch; here it may return any.                  *)
(***************************************************************************)
EXTENDS Naturals, FiniteSets

CONSTANTS Req,         \* the requests
          Versions,    \* the protocols ALPN may have chosen
          MaxStreams,  \* MAX_CONCURRENT_STREAMS (256)
          Credit,      \* streams the tunnel's client allows at once (quinn's 100)
          Cf,          \* what a client may send as CF-Connecting-IP
          Peers        \* what the TCP peer's address may be

ASSUME ProxyAssumption == MaxStreams \in Nat /\ Credit \in Nat /\ IsFiniteSet(Req)

VARIABLES
    version,  \* "h2" or "h1"
    client,   \* Client: "Proxy" or "Direct"
    peer,     \* the address of the TCP peer
    open,     \* whether the public connection is open
    tunnel,   \* whether the tunnel that lookup returns is up
    credit,   \* streams that can be opened on it
    req       \* the requests

vars == <<version, client, peer, open, tunnel, credit, req>>

conn == <<version, client, peer>>

\* A plain request, an h1 upgrade, a WebSocket over h2, another CONNECT.
Kinds == IF version = "h2" THEN {"plain", "websocket", "connect"}
         ELSE {"plain", "upgrade", "connect"}

NoHeaders == [cf |-> "none", x_real_ip |-> "none", x_forwarded_for |-> "none"]

Init ==
    /\ version \in Versions
    /\ client \in {"Proxy", "Direct"}
    /\ peer \in Peers
    /\ open = TRUE
    /\ tunnel = "up"
    /\ credit = Credit
    /\ req = [r \in Req |-> [pc |-> "none", kind |-> "plain", io |-> "none", cf |-> "none",
                             headers |-> NoHeaders, response |-> "none", splice |-> "none"]]
-----------------------------------------------------------------------------
(* set_client_address *)

\* Whether a header value parses as an address; IPv4 in IPv6 is made IPv4.
IsAddress(value) == value \notin {"none", "malformed"}

to_canonical(address) == IF address = "mapped" THEN "v4" ELSE address

\* Faulty: a client that is not a proxy may send CF-Connecting-IP on.
LeavesCf(cf) ==
    LET forwarded == client = "Proxy" /\ IsAddress(cf)
        address == to_canonical(IF forwarded THEN cf ELSE peer)
    IN  [cf |-> cf, x_real_ip |-> address, x_forwarded_for |-> address]

set_client_address(cf) ==
    LET forwarded == client = "Proxy" /\ IsAddress(cf)
        address == to_canonical(IF forwarded THEN cf ELSE peer)
    IN  [cf |-> IF forwarded THEN cf ELSE "none",
         x_real_ip |-> address, x_forwarded_for |-> address]

\* The bridge of a WebSocket writes a request of its own, with two of the headers.
SentHeaders(r) ==
    IF req[r].kind = "websocket" THEN [req[r].headers EXCEPT !.cf = "none"]
    ELSE req[r].headers
-----------------------------------------------------------------------------
(* Faulty variants. *)

PoolsUpgrades(kind) == kind = "connect"

\* A request that ends keeps its stream.
KeepsStream(r) == 0

\* A connect that fails is tried again.
DialTriedAgain(r) ==
    /\ req[r].pc = "dial"
    /\ req' = [req EXCEPT ![r].pc = "lookup"]
    /\ UNCHANGED <<conn, open, tunnel, credit>>

\* The splice task ends and keeps its stream.
SpliceKeepsStream(r) ==
    /\ req[r].splice = "runs" \/ (req[r].splice = "waits" /\ ~open)
    /\ req' = [req EXCEPT ![r].splice = "over"]
    /\ UNCHANGED <<conn, open, tunnel, credit>>
-----------------------------------------------------------------------------
Active(r) == req[r].pc \notin {"none", "done"}

Holds(r) == req[r].io = "tunnel"

\* The stream that request r gives back to the tunnel's client, if it has one.
Returned(r) == IF Holds(r) THEN 1 ELSE 0

needs_own_connection(kind) == kind \in {"websocket", "upgrade", "connect"}

Set(r, new) == req' = [req EXCEPT ![r] = new]

GoesTo(r, pc) ==
    /\ Set(r, [req[r] EXCEPT !.pc = pc])
    /\ UNCHANGED <<conn, open, tunnel, credit>>

\* A 502 page: the backend connection, if any, is dropped.
bad_gateway(r) ==
    /\ Set(r, [req[r] EXCEPT !.pc = "done", !.response = "502", !.io = "none"])
    /\ credit' = credit + Returned(r)
    /\ UNCHANGED <<conn, open, tunnel>>

\* A request arrives; max_concurrent_streams bounds those of an h2 connection,
\* and an h1 connection that was upgraded has no more.
Request(r, kind, cf) ==
    /\ open /\ req[r].pc = "none" /\ kind \in Kinds
    /\ Cardinality({q \in Req : Active(q)}) < (IF version = "h2" THEN MaxStreams ELSE 1)
    /\ version = "h1" => \A q \in Req : req[q].response # "101"
    /\ Set(r, [req[r] EXCEPT !.pc = "lookup", !.kind = kind, !.cf = cf,
                             !.headers = set_client_address(cf)])
    /\ UNCHANGED <<conn, open, tunnel, credit>>

LookupRoute(r) ==
    /\ req[r].pc = "lookup"
    /\ \/ GoesTo(r, "open_bi")
       \/ GoesTo(r, IF needs_own_connection(req[r].kind) THEN "dial" ELSE "pool")
       \/ bad_gateway(r)

\* open_tunnel_stream: open_bi waits for a free stream, and the DataStreamHeader
\* for room in the windows of the tunnel, for as long as it takes.
OpenStream(r) ==
    /\ req[r].pc = "open_bi" /\ tunnel = "up" /\ credit > 0
    /\ credit' = credit - 1
    /\ Set(r, [req[r] EXCEPT !.pc = "header", !.io = "tunnel"])
    /\ UNCHANGED <<conn, open, tunnel>>

OpenFails(r) == req[r].pc = "open_bi" /\ tunnel = "lost" /\ bad_gateway(r)

HeaderSent(r) == req[r].pc = "header" /\ tunnel = "up" /\ GoesTo(r, "serve")

\* The client stops the stream, or the tunnel is lost.
HeaderFails(r) == req[r].pc = "header" /\ bad_gateway(r)

\* connect_tcp and connect_unix
Dialled(r) ==
    /\ req[r].pc = "dial"
    /\ Set(r, [req[r] EXCEPT !.pc = "serve", !.io = "own"])
    /\ UNCHANGED <<conn, open, tunnel, credit>>

DialFails(r) == req[r].pc = "dial" /\ bad_gateway(r)

serve_request(r) ==
    /\ req[r].pc = "serve"
    /\ IF req[r].kind = "connect" THEN bad_gateway(r) ELSE GoesTo(r, "handshake")

HandshakeDone(r) == req[r].pc = "handshake" /\ GoesTo(r, "send")

\* The handshake fails, or its timer does.
HandshakeFails(r) == req[r].pc = "handshake" /\ bad_gateway(r)

\* The backend's response to the request; its body is streamed.
Answered(r) ==
    /\ Set(r, [req[r] EXCEPT !.pc = "body", !.response = "backend"])
    /\ UNCHANGED <<conn, open, tunnel, credit>>

BackendAnswers(r) ==
    /\ req[r].pc = "send"
    /\ IF req[r].kind = "websocket" THEN bad_gateway(r) ELSE Answered(r)

\* The backend's 101.  That of h1_upgrade goes to the client while a task waits
\* to splice; ws_bridge first takes the backend's side.
BackendSwitches(r) ==
    /\ req[r].pc = "send" /\ req[r].kind # "plain"
    /\ IF req[r].kind = "websocket" THEN GoesTo(r, "upgrade")
       ELSE /\ Set(r, [req[r] EXCEPT !.pc = "done", !.response = "101", !.splice = "waits"])
            /\ UNCHANGED <<conn, open, tunnel, credit>>

BackendFails(r) == req[r].pc \in {"send", "upgrade"} /\ bad_gateway(r)

\* The 200 that completes a WebSocket over h2.
Upgraded(r) ==
    /\ req[r].pc = "upgrade"
    /\ Set(r, [req[r] EXCEPT !.pc = "done", !.response = "200", !.splice = "waits"])
    /\ UNCHANGED <<conn, open, tunnel, credit>>

\* pooled_roundtrip
PoolAnswers(r) ==
    /\ req[r].pc = "pool"
    /\ Set(r, [req[r] EXCEPT !.pc = "body", !.io = "pooled", !.response = "backend"])
    /\ UNCHANGED <<conn, open, tunnel, credit>>

PoolFails(r) == req[r].pc = "pool" /\ bad_gateway(r)

\* The body ends or breaks off; the backend connection is closed or idle again.
BodyEnds(r) ==
    /\ req[r].pc = "body"
    /\ Set(r, [req[r] EXCEPT !.pc = "done", !.io = "none"])
    /\ credit' = credit + Returned(r)
    /\ UNCHANGED <<conn, open, tunnel>>
-----------------------------------------------------------------------------
(* The task that splices an upgraded client with its backend. *)

ClientUpgraded(r) ==
    /\ req[r].splice = "waits" /\ open
    /\ Set(r, [req[r] EXCEPT !.splice = "runs"])
    /\ UNCHANGED <<conn, open, tunnel, credit>>

\* The client's side cannot be taken any more, or copy_bidirectional is over.
SpliceEnds(r) ==
    /\ req[r].splice = "runs" \/ (req[r].splice = "waits" /\ ~open)
    /\ Set(r, [req[r] EXCEPT !.splice = "over", !.io = "none"])
    /\ credit' = credit + Returned(r)
    /\ UNCHANGED <<conn, open, tunnel>>
-----------------------------------------------------------------------------
\* The client resets the h2 stream of a request.
StreamReset(r) ==
    /\ version = "h2" /\ Active(r)
    /\ Set(r, [req[r] EXCEPT !.pc = "done", !.io = "none"])
    /\ credit' = credit + Returned(r)
    /\ UNCHANGED <<conn, open, tunnel>>

\* The public connection ends: the runs of proxy and the bodies are dropped, and
\* what they held; splices are tasks of their own.
ConnectionEnds ==
    /\ open
    /\ open' = FALSE
    /\ LET dropped == {r \in Req : Active(r)}
       IN  /\ req' = [r \in Req |-> IF r \in dropped THEN [req[r] EXCEPT !.pc = "done", !.io = "none"]
                                    ELSE req[r]]
           /\ credit' = credit + Cardinality({r \in dropped : Holds(r)})
    /\ UNCHANGED <<conn, tunnel>>

TunnelLost ==
    /\ tunnel = "up"
    /\ tunnel' = "lost"
    /\ UNCHANGED <<conn, open, credit, req>>

Proxy(r) ==
    \/ LookupRoute(r) \/ OpenStream(r) \/ OpenFails(r) \/ HeaderSent(r) \/ HeaderFails(r)
    \/ Dialled(r) \/ DialFails(r) \/ serve_request(r) \/ HandshakeDone(r) \/ HandshakeFails(r)
    \/ BackendAnswers(r) \/ BackendSwitches(r) \/ BackendFails(r) \/ Upgraded(r)
    \/ PoolAnswers(r) \/ PoolFails(r) \/ BodyEnds(r) \/ ClientUpgraded(r) \/ SpliceEnds(r)
    \/ StreamReset(r)

Next ==
    \/ \E r \in Req : Proxy(r) \/ \E kind \in Kinds, cf \in Cf : Request(r, kind, cf)
    \/ ConnectionEnds \/ TunnelLost

Spec == Init /\ [][Next]_vars

\* What a run of proxy does by itself: its local steps, its timers, and what it
\* waits for from a tunnel that is lost.  The body of a response is read only as the
\* client takes it.
Steps(r) ==
    \/ LookupRoute(r) \/ OpenStream(r) \/ OpenFails(r) \/ DialFails(r) \/ serve_request(r)
    \/ HandshakeFails(r)
    \/ Holds(r) /\ tunnel = "lost" /\ (HeaderFails(r) \/ BackendFails(r))
    \/ ~open /\ req[r].splice = "waits" /\ SpliceEnds(r)

Fairness(r) == WF_vars(Steps(r))

FairSpec == Spec /\ \A r \in Req : Fairness(r)
-----------------------------------------------------------------------------
\* No stream of the tunnel leaks and none is returned twice: the free ones and
\* those of requests and splices add up, however a request ends.
StreamsAddUp == credit + Cardinality({r \in Req : Holds(r)}) = Credit

\* A connection that is shared is never given to an upgrade: no request that may
\* switch protocols runs on a pooled connection, and a splice that is not over
\* still has the backend connection it was made for.
PoolIsNotSpliced ==
    \A r \in Req :
        /\ req[r].io = "pooled" => req[r].kind = "plain" /\ req[r].splice = "none"
        /\ req[r].splice \in {"waits", "runs"} => req[r].io \in {"tunnel", "own"}

\* The backend of every request is told the client's address, the one that a
\* trusted proxy gives or else the TCP peer's, and no other in any header.
AddressIsTold ==
    \A r \in Req : req[r].pc \in {"send", "upgrade", "pool", "body"} =>
        LET given == client = "Proxy" /\ IsAddress(req[r].cf)
            address == to_canonical(IF given THEN req[r].cf ELSE peer)
            told == SentHeaders(r)
        IN  /\ told.x_real_ip = address /\ told.x_forwarded_for = address
            /\ told.cf # "none" => to_canonical(told.cf) = address

\* Unanswered, and its tunnel is what the request waits for or talks through.
OnTunnel(r) ==
    \/ req[r].pc = "open_bi"
    \/ Holds(r) /\ req[r].pc \in {"header", "serve", "handshake", "send", "upgrade"}

\* The connection stays usable though backends hang: a request for a local
\* upstream is on its way to it or answered, and one on a tunnel that is lost is
\* answered, or has been and its body is being read.
SetupOrAnswer ==
    \A r \in Req :
        /\ req[r].pc \in {"lookup", "dial", "serve", "handshake"} ~>
              req[r].pc \in {"open_bi", "pool", "send", "upgrade", "body", "done"}
        /\ (tunnel = "lost" /\ OnTunnel(r)) ~> req[r].pc \in {"body", "done"}

\* When the public connection is gone, only splices that run still use the tunnel.
GoneGivesBack ==
    \A r \in Req : ~open ~> (Holds(r) => req[r].splice = "runs")
=============================================================================
