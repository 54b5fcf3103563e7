--------------------------- MODULE PublicDispatch ----------------------------
(***************************************************************************)
(* public.rs, handle_public: what becomes of one public connection while   *)
(* tunnels come and go and, with a caller's backend, the set of terminated *)
(* hostnames is replaced (ServerStart).  Each question the connection asks *)
(* of the routing table reads a lock of its own: is_terminated before the  *)
(* TLS handshake, is_offload and routes_to_upstream after it, and lookup   *)
(* last (or once per request of an HTTP connection, h2proxy.rs proxy).     *)
(***************************************************************************)
EXTENDS ServerStart

CONSTANT Sni  \* the server names of public clients, as they spell them

ASSUME SniAssumption == Sni \subseteq Name

VARIABLE conn  \* the public connection

vars == <<server, conn>>

Alpn == {"acme-tls/1", "h2", "http/1.1", "none"}

\* What the connection's bytes become: untouched TLS, plaintext, HTTP requests.
Via == {"raw", "plain", "http"}

Nowhere == [to |-> "nowhere", tls_mode |-> "passthrough"]

BadGateway == [to |-> "502", tls_mode |-> "passthrough"]

NoCert == [from |-> "none", names |-> {}]

\* pc is the next question or await of handle_public; step the lock that a
\* question reads next; cert what the TLS handshake showed; got where the bytes or
\* the last request went.
InitConn(sni) ==
    conn = [pc |-> "hello", step |-> "own", sni |-> sni, cert |-> NoCert,
            alpn |-> "none", offload |-> FALSE, via |-> "raw", got |-> Nowhere]

Host == to_ascii_lowercase(conn.sni)
-----------------------------------------------------------------------------
(* Faulty variants of the decisions below. *)

\* HTTP is served to every client that negotiated it, also on an offload host.
ServesOffloadAsHttp(alpn, offload) == alpn \in {"h2", "http/1.1"}

\* A client without ALPN is never taken for an HTTP client.
AfterRoutesPiping(yes) == [conn EXCEPT !.step = "own", !.pc = "lookup", !.via = "plain"]
-----------------------------------------------------------------------------
(* What handle_public does with an answer. *)

Done == [conn EXCEPT !.step = "own", !.pc = "done"]

AfterIsTerminated(yes) ==
    IF yes THEN [conn EXCEPT !.step = "own", !.pc = "tls"]
    ELSE [conn EXCEPT !.step = "own", !.pc = "lookup", !.via = "raw"]

IsHttp(alpn, offload) == ~offload /\ alpn \in {"h2", "http/1.1"}

AfterIsOffload(yes) ==
    LET c == [conn EXCEPT !.step = "own", !.offload = yes]
    IN  IF IsHttp(conn.alpn, yes) THEN [c EXCEPT !.pc = "http", !.via = "http"]
        ELSE IF conn.alpn = "none" THEN [c EXCEPT !.pc = "routes_to_upstream"]
        ELSE [c EXCEPT !.pc = "lookup", !.via = "plain"]

AfterRoutesToUpstream(yes) ==
    IF yes /\ ~conn.offload THEN [conn EXCEPT !.step = "own", !.pc = "http", !.via = "http"]
    ELSE [conn EXCEPT !.step = "own", !.pc = "lookup", !.via = "plain"]

\* The bytes, or this request, go to a route, or to nobody: a 502 page for HTTP
\* and for plaintext of a host that is not in offload mode, else a drop.
Delivered(route) ==
    [conn EXCEPT !.step = "own", !.got = route, !.pc = "forward"]

NoRoute ==
    IF conn.via = "http" \/ (conn.via = "plain" /\ ~conn.offload) THEN BadGateway ELSE Nowhere

\* A route that cannot be reached: a 502 page for a request, else a drop.
Unreachable == IF conn.via = "http" THEN BadGateway ELSE Nowhere

AfterLookupUpstream(up) ==
    IF up = NoUpstream THEN [conn EXCEPT !.step = "own", !.pc = "lookup_tunnel"]
    ELSE Delivered([to |-> "upstream", tls_mode |-> up.tls_mode])

\* The question is answered: up is the upstream that was found.
Answer(up) ==
    \/ /\ conn.pc = "is_terminated"
       /\ conn' = AfterIsTerminated(UpstreamIn(up, {"terminated", "tls_offload"}))
    \/ conn.pc = "is_offload" /\ conn' = AfterIsOffload(UpstreamIn(up, {"tls_offload"}))
    \/ conn.pc = "routes_to_upstream" /\ conn' = AfterRoutesToUpstream(up # NoUpstream)
    \/ conn.pc = "lookup" /\ conn' = AfterLookupUpstream(up)

\* The host's own entry does not answer it.
AskWildcard == [conn EXCEPT !.step = "terminated"]
-----------------------------------------------------------------------------
(* The steps of the connection. *)

ClientHello ==
    /\ conn.pc = "hello" /\ phase = "running"
    /\ conn' = [conn EXCEPT !.pc = "is_terminated"]
    /\ UNCHANGED server

\* No ClientHello in time, one that cannot be read, or one without SNI.
NoClientHello ==
    /\ conn.pc = "hello" /\ phase = "running"
    /\ conn' = Done
    /\ UNCHANGED server

\* The host's own entry, by the lock that the question reads first.
OwnEntry ==
    /\ conn.step = "own"
    /\ \/ /\ conn.pc = "is_terminated"
          /\ conn' = IF Host \in terminated THEN AfterIsTerminated(TRUE) ELSE AskWildcard
       \/ /\ conn.pc = "is_offload"
          /\ conn' = IF Host \in table.offload THEN AfterIsOffload(TRUE) ELSE AskWildcard
       \/ /\ conn.pc = "routes_to_upstream"
          /\ conn' = IF Host \in DOMAIN table.local THEN AfterRoutesToUpstream(TRUE)
                     ELSE AskWildcard
       \/ /\ conn.pc = "lookup"
          /\ conn' = IF Host \in DOMAIN table.local THEN AfterLookupUpstream(table.local[Host])
                     ELSE AskWildcard
    /\ UNCHANGED server

\* wildcard_upstream reads the terminated set, lets go of it and reads inner.
WildcardTerminated ==
    /\ conn.step = "terminated"
    /\ IF NamedByConfig(table, Host) \/ Host \in terminated
       THEN Answer(NoUpstream)
       ELSE conn' = [conn EXCEPT !.step = "inner"]
    /\ UNCHANGED server

WildcardInner ==
    /\ conn.step = "inner"
    /\ Answer(IF NamedByTunnel(DOMAIN inner, Host) THEN NoUpstream
              ELSE PatternUpstream(table, Host))
    /\ UNCHANGED server

\* The TLS handshake ends, with the cert it was answered with and the protocol
\* it chose; challenges are offered with ACME only.  A challenge is over then, and
\* so is a connection without the client cert the listener needs.
TlsAccepted(alpn, client_cert) ==
    /\ conn.pc = "tls"
    /\ alpn = "acme-tls/1" => AcmeController
    /\ conn' = IF alpn = "acme-tls/1" \/ (config.client_ca_file /\ ~client_cert) THEN Done
               ELSE [conn EXCEPT !.cert = resolve(Host), !.alpn = alpn, !.pc = "is_offload"]
    /\ UNCHANGED server

TlsFails ==
    /\ conn.pc = "tls"
    /\ conn' = Done
    /\ UNCHANGED server

\* A request of an HTTP connection is routed by a lookup of its own.
Request ==
    /\ conn.pc = "http"
    /\ conn' = [conn EXCEPT !.pc = "lookup", !.got = Nowhere]
    /\ UNCHANGED server

HttpEnds ==
    /\ conn.pc = "http"
    /\ conn' = Done
    /\ UNCHANGED server

\* lookup finds the entry by the name as the client spelled it; the header of
\* the stream opened on the tunnel carries the entry's mode.
LookupTunnel ==
    /\ conn.pc = "lookup_tunnel"
    /\ conn' = IF conn.sni \in DOMAIN inner /\ inner[conn.sni].open
               THEN Delivered([to |-> "tunnel", tls_mode |-> inner[conn.sni].tls_mode])
               ELSE Delivered(NoRoute)
    /\ UNCHANGED server

\* The stream on the tunnel or the connection to the upstream is opened, or not.
\* An HTTP connection then waits for its next request.
Forward ==
    /\ conn.pc = "forward"
    /\ \E got \in {conn.got, Unreachable} :
          conn' = [conn EXCEPT !.got = got, !.pc = IF conn.via = "http" THEN "http" ELSE "done"]
    /\ UNCHANGED server

Handle ==
    \/ ClientHello \/ NoClientHello \/ OwnEntry \/ WildcardTerminated \/ WildcardInner
    \/ \E alpn \in Alpn, client_cert \in BOOLEAN : TlsAccepted(alpn, client_cert)
    \/ TlsFails \/ Request \/ HttpEnds \/ LookupTunnel \/ Forward

InitAll == Init /\ \E sni \in Sni : InitConn(sni)

Next == Handle \/ (ServerNext /\ UNCHANGED conn)

Spec == InitAll /\ [][Next]_vars
-----------------------------------------------------------------------------
Sent == conn.got.to \in {"upstream", "tunnel"}

IsTunnel(i) == i <= Len(hostnames)

\* A static server: the connection goes to the one entry that the config gives
\* its host to, in that entry's mode.  Raw bytes reach only a passthrough entry,
\* requests only a terminated one, plaintext an offload one or the tunnel of a
\* terminated one; and the header sent to a tunnel tells the mode that was
\* applied, whatever tunnels do between is_terminated, the handshake and lookup.
\* A host that no entry covers goes nowhere.  (For configs in lowercase: validation
\* tells two spellings of a host apart, the table does not.)
StaticTreatment ==
    (~dynamic /\ Sent /\ \A i \in DOMAIN Entries : Entries[i].host.lower) =>
        /\ EntriesFor(Entries, Host) # {}
        /\ \A i \in EntriesFor(Entries, Host) :
              /\ conn.got.to = "tunnel" <=> IsTunnel(i)
              /\ conn.got.tls_mode = Entries[i].tls_mode
              /\ conn.via = "raw" <=> Entries[i].tls_mode = "passthrough"
              /\ conn.via = "http" => Entries[i].tls_mode = "terminated"
              /\ (conn.via = "plain" /\ Entries[i].tls_mode = "terminated") => IsTunnel(i)

\* The caller's set always keeps the config's terminated hostnames, as
\* set_terminated_domains asks.
KeepsConfig == \A D \in domains : terminated_hostnames \subseteq Lowercase(D)

\* A host that the config puts in offload mode gets no HTTP: no request of it is
\* proxied and no 502 page is written to it, with any ALPN and however the
\* terminated set changes.  Its TLS ends at the server, also after a replacement
\* of the set, with a caller that keeps to the contract.
OffloadStaysBytes ==
    Host \in table.offload =>
        /\ conn.via # "http" /\ conn.got.to # "502"
        /\ (Sent /\ KeepsConfig) => conn.via = "plain"

\* The upstream of an exact entry is sent requests or untouched TLS, never a
\* byte-pipe of plaintext, so that it always sees the client's address, unless an
\* entry of the same name asks for offload mode.
UpstreamIsHttp ==
    (conn.got.to = "upstream" /\ Host \in DOMAIN table.local \ table.offload) =>
        conn.via # "plain"

\* A client is shown the cert of the entry that the config gives its host to, if the
\* entry has one: HostCerts, which looks at other entries than the routing table,
\* never prefers a more general cert.  The host is taken without its final dots, which
\* certs do not have; a host that is spelled without them is routed to that entry too
\* (StaticTreatment).
OwnCertIsShown ==
    conn.cert # NoCert =>
        \A i \in EntriesFor(Entries, WithoutFinalDots(Host)) :
            Entries[i].cert = "pair" =>
                conn.cert = [from  |-> "entry",
                             names |-> {to_ascii_lowercase(Entries[i].host)}]

\* A connection whose host is terminated by name, not by a pattern, is shown a
\* cert that was made or ordered for that name, unless a cert file decides: also
\* for a name provisioned a moment ago, however set_terminated_domains calls
\* interleave.  With a caller's backend this takes the ACME controller.
CertNamesHost ==
    (/\ conn.cert.from \notin {"none", "file", "entry"}
     /\ AcmeController \/ ~dynamic
     /\ PatternUpstream(table, Host) = NoUpstream) => Host \in conn.cert.names
=============================================================================
