------------------------ MODULE PublicDispatchProofs -------------------------
(***************************************************************************)
(* What becomes of a public connection, for every config, every name that  *)
(* a client asks for, any number of tunnels and any calls of               *)
(* set_terminated_domains.                                                 *)
(***************************************************************************)
EXTENDS PublicDispatch, TLAPS

\* A leaf is for Zenon unless it names another backend.
USE Zenon

(* The server. *)

\* The config's hostnames and upstreams are sequences of entries.
Typed ==
    hostnames \in Seq(HostnameEntry) /\ upstreams \in Seq(UpstreamEntry)

Valid == IF dynamic THEN validate_dynamic(config) ELSE validate(config)

\* What the server keeps true: the table is the one of the config, the terminated
\* set only has names that the config terminates or that were provisioned, with a
\* cert of their own where ACME runs, and tunnels are there by their grants.
ServerInv ==
    /\ Typed
    /\ phase = "running" => table = from_config(hostnames, upstreams) /\ Valid
    /\ ~dynamic => calls = {}
    /\ (~dynamic /\ phase = "running") => terminated = terminated_hostnames
    /\ calls \subseteq domains
    /\ (phase = "running" /\ KeepsConfig) => terminated_hostnames \subseteq terminated
    /\ AcmeController => /\ terminated \subseteq added \cup terminated_hostnames
                         /\ \A names \in calls : Lowercase(names) \subseteq added \cup terminated_hostnames
    /\ DOMAIN inner \subseteq DOMAIN Grants
    /\ \A n \in DOMAIN inner : /\ DOMAIN inner[n] = {"tls_mode", "open"}
                               /\ inner[n].tls_mode = Grants[n]

\* The invariant holds of a server that starts.
LEMMA InitServer == Init => ServerInv
<1> SUFFICES ASSUME Init PROVE ServerInv
  OBVIOUS
<1>1. Typed
  BY StartsAssumption DEF Init, Typed, hostnames, upstreams
<1>2. inner = <<>> /\ DOMAIN inner = {} /\ calls = {} /\ terminated = {} /\ phase = "starting"
  BY SMTT(30) DEF Init
<1> QED
  BY <1>1, <1>2 DEF ServerInv

\* What the config says stays as it is.
LEMMA ConfigStays ==
    ASSUME UNCHANGED constants
    PROVE  /\ hostnames' = hostnames /\ upstreams' = upstreams /\ Entries' = Entries
           /\ terminated_hostnames' = terminated_hostnames
           /\ AcmeController' = AcmeController /\ KeepsConfig' = KeepsConfig
           /\ Grants' = Grants /\ Typed' = Typed /\ Valid' = Valid
<1>1. config' = config /\ dynamic' = dynamic /\ domains' = domains
  BY DEF constants
<1> QED
  BY SMTT(30), <1>1 DEF hostnames, upstreams, Entries, terminated_hostnames, AcmeController,
     KeepsConfig, Grants, Typed, Valid

\* Steps of the server keep its invariant.
LEMMA NextServer == ServerInv /\ (ServerNext \/ UNCHANGED server) => ServerInv'
<1> SUFFICES ASSUME ServerInv, ServerNext \/ UNCHANGED server PROVE ServerInv'
  OBVIOUS
<1>0. UNCHANGED constants
  BY Zenon DEF ServerNext, server, constants, Start, Refuse, TunnelUp, TunnelCloses, TunnelDown,
     Ensure, SetTerminated
<1>1. /\ hostnames' = hostnames /\ upstreams' = upstreams
      /\ terminated_hostnames' = terminated_hostnames
      /\ AcmeController' = AcmeController /\ KeepsConfig' = KeepsConfig
      /\ Grants' = Grants /\ Typed' = Typed /\ Valid' = Valid
      /\ dynamic' = dynamic /\ domains' = domains
  BY <1>0, ConfigStays DEF constants
<1>2. CASE Start
  <2>1. /\ phase' = "running" /\ Valid /\ table' = from_config(hostnames, upstreams)
        /\ terminated' = terminated_hostnames /\ UNCHANGED <<inner, added, calls>>
    BY <1>2 DEF Start, Valid, TerminatedOf, terminated_hostnames, Entries
  <2> QED
    BY <1>1, <2>1 DEF ServerInv
<1>3. CASE Refuse
  BY <1>1, <1>3 DEF Refuse, ServerInv
<1>4. ASSUME NEW n \in DOMAIN Grants, TunnelUp(n) PROVE ServerInv'
  <2>1. /\ DOMAIN inner' = DOMAIN inner \cup {n}
        /\ inner'[n] = [tls_mode |-> Grants[n], open |-> TRUE]
        /\ \A k \in DOMAIN inner \ {n} : inner'[k] = inner[k]
        /\ UNCHANGED <<phase, table, terminated, added, calls>>
    BY <1>4 DEF TunnelUp
  <2>2. DOMAIN inner' \subseteq DOMAIN Grants
    BY <2>1 DEF ServerInv
  <2>3. DOMAIN inner'[n] = {"tls_mode", "open"} /\ inner'[n].tls_mode = Grants[n]
    BY SMTT(30), <2>1
  <2> QED
    BY <1>1, <2>1, <2>2, <2>3 DEF ServerInv
<1>5. ASSUME NEW n \in DOMAIN Grants, TunnelCloses(n) PROVE ServerInv'
  <2>1. /\ n \in DOMAIN inner /\ inner' = [inner EXCEPT ![n].open = FALSE]
        /\ UNCHANGED <<phase, table, terminated, added, calls>>
    BY <1>5 DEF TunnelCloses
  <2>2. DOMAIN inner[n] = {"tls_mode", "open"} /\ inner[n].tls_mode = Grants[n]
    BY <2>1 DEF ServerInv
  <2>3. /\ DOMAIN inner' = DOMAIN inner /\ \A k \in DOMAIN inner \ {n} : inner'[k] = inner[k]
        /\ DOMAIN inner'[n] = DOMAIN inner[n] /\ inner'[n].tls_mode = inner[n].tls_mode
    BY <2>1, <2>2
  <2> QED
    BY <1>1, <2>1, <2>2, <2>3 DEF ServerInv
<1>6. ASSUME NEW n \in DOMAIN Grants, TunnelDown(n) PROVE ServerInv'
  <2>1. /\ DOMAIN inner' = DOMAIN inner \ {n}
        /\ \A k \in DOMAIN inner \ {n} : inner'[k] = inner[k]
        /\ UNCHANGED <<phase, table, terminated, added, calls>>
    BY <1>6 DEF TunnelDown
  <2> QED
    BY <1>1, <2>1 DEF ServerInv
<1>7. ASSUME NEW names \in domains, Ensure(names) PROVE ServerInv'
  <2>1. /\ dynamic /\ calls' = calls \cup {names} /\ added \subseteq added'
        /\ UNCHANGED <<phase, table, terminated, inner>>
    BY <1>7 DEF Ensure
  <2>2. AcmeController => Lowercase(names) \subseteq added' \cup terminated_hostnames
    BY <1>7 DEF Ensure
  <2> QED
    BY <1>1, <2>1, <2>2 DEF ServerInv
<1>8. ASSUME NEW names \in domains, SetTerminated(names) PROVE ServerInv'
  <2>1. /\ names \in calls /\ terminated' = Lowercase(names) /\ calls' = calls \ {names}
        /\ UNCHANGED <<phase, table, inner, added>>
    BY <1>8 DEF SetTerminated
  <2>2. dynamic
    BY <2>1 DEF ServerInv
  <2>3. KeepsConfig => terminated_hostnames \subseteq terminated'
    BY <2>1 DEF KeepsConfig
  <2> QED
    BY <1>1, <2>1, <2>2, <2>3 DEF ServerInv
<1>9. CASE UNCHANGED server
  BY <1>1, <1>9 DEF ServerInv, server
<1> QED
  BY <1>2, <1>3, <1>4, <1>5, <1>6, <1>7, <1>8, <1>9 DEF ServerNext

(* The connection. *)

Running == phase = "running"

\* The bytes are on their way: the connection is not over without a decision.
Routed == conn.pc \in {"lookup", "lookup_tunnel", "forward"} \/ Sent

\* What a connection knows at each point: before the handshake is over there is no
\* cert, and before the first lookup its bytes have gone nowhere.
ConnInv ==
    /\ DOMAIN conn = {"pc", "step", "sni", "cert", "alpn", "offload", "via", "got"}
    /\ conn.sni \in Sni /\ conn.offload \in BOOLEAN /\ conn.via \in Via
    /\ conn.pc # "hello" \/ Sent \/ conn.cert # NoCert => Running
    /\ conn.step # "own" =>
          conn.pc \in {"is_terminated", "is_offload", "routes_to_upstream", "lookup"}
    /\ conn.pc \in {"hello", "is_terminated", "tls", "is_offload", "routes_to_upstream"} =>
          conn.via = "raw" /\ conn.got = Nowhere
    /\ conn.pc \in {"hello", "is_terminated", "tls"} => conn.cert = NoCert
    /\ conn.pc = "is_offload" => conn.alpn \in Alpn \ {"acme-tls/1"}
    /\ conn.pc = "http" => conn.via = "http"

\* A connection that has not begun.
LEMMA InitConnInv == InitAll => ConnInv
BY SMTT(30) DEF InitAll, InitConn, ConnInv, Sent, Nowhere, Via

\* The name that was asked for is a sequence of labels.
LEMMA HostIsName == ConnInv => Host \in Seq(STRING)
BY SniAssumption DEF ConnInv, Host, to_ascii_lowercase, Name

\* Steps of the connection leave the server and the name that was asked for alone.
LEMMA HandleKeeps ==
    ASSUME ConnInv, Handle
    PROVE  UNCHANGED server /\ conn'.sni = conn.sni /\ Host' = Host
<1>1. UNCHANGED server
  BY Zenon DEF Handle, ClientHello, NoClientHello, OwnEntry, WildcardTerminated, WildcardInner,
     TlsAccepted, TlsFails, Request, HttpEnds, LookupTunnel, Forward
<1>2. conn'.sni = conn.sni
  <2> USE DEF ConnInv
  <2>1. CASE ClientHello \/ NoClientHello \/ TlsFails \/ Request \/ HttpEnds
    BY <2>1, Zenon DEF ClientHello, NoClientHello, TlsFails, Request, HttpEnds, Done
  <2>2. CASE OwnEntry
    BY <2>2, ZenonT(60) DEF OwnEntry, AskWildcard, AfterIsTerminated, AfterIsOffload,
       AfterRoutesToUpstream, AfterLookupUpstream, Delivered
  <2>3. CASE WildcardTerminated \/ WildcardInner
    BY <2>3, ZenonT(60) DEF WildcardTerminated, WildcardInner, Answer, AfterIsTerminated, AfterIsOffload,
       AfterRoutesToUpstream, AfterLookupUpstream, Delivered
  <2>4. ASSUME NEW alpn \in Alpn, NEW client_cert \in BOOLEAN, TlsAccepted(alpn, client_cert)
        PROVE  conn'.sni = conn.sni
    BY <2>4 DEF TlsAccepted, Done
  <2>5. CASE LookupTunnel \/ Forward
    BY <2>5, ZenonT(60) DEF LookupTunnel, Delivered, Forward
  <2> QED
    BY <2>1, <2>2, <2>3, <2>4, <2>5 DEF Handle
<1> QED
  BY <1>1, <1>2 DEF Host, to_ascii_lowercase

\* An answer is yes or no, or the upstream that was found.
LEMMA Answers ==
    ASSUME NEW up, Answer(up)
    PROVE  \/ /\ conn.pc = "is_terminated"
              /\ \E yes \in BOOLEAN : /\ yes <=> UpstreamIn(up, {"terminated", "tls_offload"})
                                      /\ conn' = AfterIsTerminated(yes)
           \/ /\ conn.pc = "is_offload"
              /\ \E yes \in BOOLEAN : /\ yes <=> UpstreamIn(up, {"tls_offload"})
                                      /\ conn' = AfterIsOffload(yes)
           \/ /\ conn.pc = "routes_to_upstream"
              /\ \E yes \in BOOLEAN : /\ yes <=> up # NoUpstream
                                      /\ conn' = AfterRoutesToUpstream(yes)
           \/ conn.pc = "lookup" /\ conn' = AfterLookupUpstream(up)
<1>1. ASSUME conn.pc = "is_terminated",
             conn' = AfterIsTerminated(UpstreamIn(up, {"terminated", "tls_offload"}))
      PROVE  \E yes \in BOOLEAN : /\ yes <=> UpstreamIn(up, {"terminated", "tls_offload"})
                                 /\ conn' = AfterIsTerminated(yes)
  BY <1>1, Zenon DEF UpstreamIn
<1>2. ASSUME conn.pc = "is_offload", conn' = AfterIsOffload(UpstreamIn(up, {"tls_offload"}))
      PROVE  \E yes \in BOOLEAN : /\ yes <=> UpstreamIn(up, {"tls_offload"})
                                 /\ conn' = AfterIsOffload(yes)
  BY <1>2, Zenon DEF UpstreamIn
<1>3. ASSUME conn.pc = "routes_to_upstream", conn' = AfterRoutesToUpstream(up # NoUpstream)
      PROVE  \E yes \in BOOLEAN : /\ yes <=> up # NoUpstream
                                 /\ conn' = AfterRoutesToUpstream(yes)
  BY <1>3, ZenonT(60)
<1> QED
  BY <1>1, <1>2, <1>3 DEF Answer

\* An answer keeps what the connection knows.
LEMMA AnswerConn ==
    ASSUME ConnInv, UNCHANGED phase, NEW yes \in BOOLEAN, NEW up,
           \/ conn.pc = "is_terminated" /\ conn' = AfterIsTerminated(yes)
           \/ conn.pc = "is_offload" /\ conn' = AfterIsOffload(yes)
           \/ conn.pc = "routes_to_upstream" /\ conn' = AfterRoutesToUpstream(yes)
           \/ conn.pc = "lookup" /\ conn' = AfterLookupUpstream(up)
    PROVE  ConnInv'
<1> USE DEF ConnInv, Sent, Running, Nowhere, Via, Alpn
<1>1. CASE conn.pc = "is_terminated" /\ conn' = AfterIsTerminated(yes)
  BY <1>1 DEF AfterIsTerminated
<1>2. CASE conn.pc = "is_offload" /\ conn' = AfterIsOffload(yes)
  BY <1>2 DEF AfterIsOffload, IsHttp
<1>3. CASE conn.pc = "routes_to_upstream" /\ conn' = AfterRoutesToUpstream(yes)
  BY <1>3 DEF AfterRoutesToUpstream
<1>4. CASE conn.pc = "lookup" /\ conn' = AfterLookupUpstream(up)
  BY <1>4, ZenonT(60) DEF AfterLookupUpstream, Delivered
<1> QED
  BY <1>1, <1>2, <1>3, <1>4

\* Steps of the connection keep what it knows.
LEMMA HandleConn == ConnInv /\ Handle => ConnInv'
<1> SUFFICES ASSUME ConnInv, Handle PROVE ConnInv'
  OBVIOUS
<1> USE DEF ConnInv, Sent, Running, Nowhere, Via, Alpn
<1>0. UNCHANGED phase
  BY HandleKeeps DEF server
<1>1. CASE ClientHello
  BY <1>0, <1>1 DEF ClientHello
<1>2. CASE NoClientHello \/ TlsFails \/ Request \/ HttpEnds
  BY <1>0, <1>2, ZenonT(60) DEF NoClientHello, TlsFails, Request, HttpEnds, Done
<1>3. CASE OwnEntry
  <2>1. CASE /\ conn.pc \in {"is_terminated", "is_offload", "routes_to_upstream", "lookup"}
             /\ conn' = AskWildcard
    BY <1>0, <2>1 DEF AskWildcard
  <2> QED
    BY <1>0, <1>3, <2>1, AnswerConn, Zenon DEF OwnEntry
<1>4. ASSUME NEW up, Answer(up) PROVE ConnInv'
  BY <1>0, <1>4, Answers, AnswerConn, SMTT(30)
<1>5. CASE WildcardTerminated
  <2>1. CASE Answer(NoUpstream)
    BY <1>4, <2>1
  <2>2. CASE conn.step = "terminated" /\ conn' = [conn EXCEPT !.step = "inner"]
    BY <1>0, <2>2
  <2> QED
    BY <1>5, <2>1, <2>2 DEF WildcardTerminated
<1>6. CASE WildcardInner
  BY <1>4, <1>6 DEF WildcardInner
<1>7. ASSUME NEW alpn \in Alpn, NEW client_cert \in BOOLEAN, TlsAccepted(alpn, client_cert)
      PROVE  ConnInv'
  BY <1>0, <1>7 DEF TlsAccepted, Done
<1>8. CASE LookupTunnel
  BY <1>0, <1>8 DEF LookupTunnel, Delivered, NoRoute, BadGateway
<1>9. CASE Forward
  BY SMTT(30), <1>0, <1>9 DEF Forward, Unreachable, BadGateway
<1> QED
  BY <1>1, <1>2, <1>3, <1>5, <1>6, <1>7, <1>8, <1>9, ZenonT(60) DEF Handle

\* A server that runs keeps running, with its config and its table.
LEMMA ServerKeeps ==
    ASSUME ServerNext \/ UNCHANGED server
    PROVE  UNCHANGED constants /\ (Running => Running' /\ table' = table)
BY Zenon DEF Running, ServerNext, server, constants, Start, Refuse, TunnelUp, TunnelCloses, TunnelDown,
   Ensure, SetTerminated

\* Steps of the server keep what a connection knows.
LEMMA ServerConn ==
    ASSUME ConnInv, ServerNext \/ UNCHANGED server, UNCHANGED conn
    PROVE  ConnInv' /\ Host' = Host /\ (Running \/ conn.pc = "hello")
BY ServerKeeps DEF ConnInv, Sent, Host, to_ascii_lowercase

Dispatch == ServerInv /\ ConnInv

\* The server and the connection together.
THEOREM DispatchInvariance == Spec => []Dispatch
<1>1. InitAll => Dispatch
  BY InitServer, InitConnInv DEF InitAll, Dispatch
<1>2. Dispatch /\ [Next]_vars => Dispatch'
  <2> SUFFICES ASSUME Dispatch, [Next]_vars PROVE Dispatch'
    OBVIOUS
  <2>1. CASE Handle
    BY <2>1, HandleKeeps, HandleConn, NextServer DEF Dispatch
  <2>2. CASE (ServerNext \/ UNCHANGED server) /\ UNCHANGED conn
    BY <2>2, ServerConn, NextServer DEF Dispatch
  <2> QED
    BY <2>1, <2>2 DEF Next, vars
<1> QED
  BY <1>1, <1>2, PTL DEF Spec

(* Offload hosts. *)

\* A host in offload mode is asked for its mode once, and told yes: the flag stays
\* until the bytes are piped.  It is terminated as long as the set has it.
OffloadInv ==
    Host \in table.offload =>
        /\ conn.pc = "is_offload" => conn.step = "own"
        /\ conn.pc # "http" /\ conn.via # "http" /\ conn.got.to # "502"
        /\ (conn.pc = "routes_to_upstream" \/ conn.via = "plain") => conn.offload
        /\ KeepsConfig => /\ conn.pc = "is_terminated" => conn.step = "own"
                          /\ Routed => conn.via = "plain"

\* The config's offload hosts are terminated, in a set that keeps the config's.
LEMMA OffloadIsTerminated ==
    ASSUME ServerInv, Running
    PROVE  /\ table.offload \subseteq terminated_hostnames
           /\ KeepsConfig => table.offload \subseteq terminated
<1>1. table.offload = HostsInMode(Entries, {"tls_offload"})
  BY SMTT(30) DEF ServerInv, Running, from_config, OffloadOf, Entries
<1>2. table.offload \subseteq terminated_hostnames
  BY <1>1, ZenonT(60) DEF HostsInMode, terminated_hostnames
<1> QED
  BY <1>2 DEF ServerInv, Running

\* Steps of the connection keep it.
LEMMA HandleOffload == Dispatch /\ OffloadInv /\ Handle => OffloadInv'
<1> SUFFICES ASSUME Dispatch, OffloadInv, Handle, Host \in table.offload PROVE OffloadInv'
  BY HandleKeeps DEF Dispatch, OffloadInv, server
<1>0. /\ UNCHANGED table /\ Host' = Host /\ KeepsConfig' = KeepsConfig
      /\ conn.pc # "hello" /\ KeepsConfig => Host \in terminated
  BY HandleKeeps, ConfigStays, OffloadIsTerminated DEF Dispatch, server, ConnInv
<1> USE DEF Dispatch, ConnInv, OffloadInv, Routed, Sent, Nowhere, Via, Alpn
<1>1. CASE ClientHello \/ NoClientHello \/ TlsFails
  BY <1>0, <1>1, ZenonT(60) DEF ClientHello, NoClientHello, TlsFails, Done
<1>2. CASE Request \/ HttpEnds
  BY <1>0, <1>2 DEF Request, HttpEnds
<1>3. ASSUME NEW up, conn.pc = "lookup", conn' = AfterLookupUpstream(up) PROVE OffloadInv'
  BY <1>0, <1>3 DEF AfterLookupUpstream, Delivered
<1>4. CASE OwnEntry
  <2>1. CASE conn.pc = "is_terminated"
    BY <1>0, <1>4, <2>1, ZenonT(60) DEF OwnEntry, AskWildcard, AfterIsTerminated
  <2>2. CASE conn.pc = "is_offload"
    BY <1>0, <1>4, <2>2, ZenonT(60) DEF OwnEntry, AfterIsOffload, IsHttp
  <2>3. CASE conn.pc = "routes_to_upstream"
    BY <1>0, <1>4, <2>3, ZenonT(60) DEF OwnEntry, AskWildcard, AfterRoutesToUpstream
  <2>4. CASE conn.pc = "lookup" /\ conn' = AskWildcard
    BY <1>0, <2>4, ZenonT(60) DEF AskWildcard
  <2> QED
    BY <1>3, <1>4, <2>1, <2>2, <2>3, <2>4, Zenon DEF OwnEntry
<1>5. ASSUME NEW up, Answer(up), conn.step # "own" PROVE OffloadInv'
  <2>1. ASSUME NEW yes \in BOOLEAN, conn.pc = "is_terminated", conn' = AfterIsTerminated(yes)
        PROVE  OffloadInv'
    BY <1>0, <1>5, <2>1 DEF AfterIsTerminated
  <2>2. ASSUME NEW yes \in BOOLEAN, conn.pc = "routes_to_upstream",
               conn' = AfterRoutesToUpstream(yes)
        PROVE  OffloadInv'
    BY <1>0, <2>2 DEF AfterRoutesToUpstream
  <2> QED
    BY <1>3, <1>5, <2>1, <2>2, Answers
<1>6. CASE WildcardTerminated
  <2>1. CASE conn.step = "terminated" /\ conn' = [conn EXCEPT !.step = "inner"]
    BY <1>0, <2>1, SMTT(30)
  <2> QED
    BY <1>5, <1>6, <2>1 DEF WildcardTerminated
<1>7. CASE WildcardInner
  BY <1>5, <1>7 DEF WildcardInner
<1>8. ASSUME NEW alpn \in Alpn, NEW client_cert \in BOOLEAN, TlsAccepted(alpn, client_cert)
      PROVE  OffloadInv'
  BY <1>0, <1>8 DEF TlsAccepted, Done
<1>9. CASE LookupTunnel
  BY <1>0, <1>9 DEF LookupTunnel, Delivered, NoRoute
<1>10. CASE Forward
  BY SMTT(30), <1>0, <1>10 DEF Forward, Unreachable
<1> QED
  BY <1>1, <1>2, <1>4, <1>6, <1>7, <1>8, <1>9, <1>10 DEF Handle

\* An offload host is never spoken HTTP to, and its TLS ends at the server
\* (handle_public).
THEOREM OffloadGetsNoHttp == Spec => []OffloadStaysBytes
<1>1. InitAll /\ Dispatch => OffloadInv
  BY SMTT(30) DEF InitAll, InitConn, Dispatch, ConnInv, OffloadInv, Routed, Sent, Nowhere
<1>2. OffloadInv /\ Dispatch /\ Dispatch' /\ [Next]_vars => OffloadInv'
  <2> SUFFICES ASSUME OffloadInv, Dispatch, Dispatch', [Next]_vars PROVE OffloadInv'
    OBVIOUS
  <2>1. CASE Handle
    BY <2>1, HandleOffload
  <2>2. CASE (ServerNext \/ UNCHANGED server) /\ UNCHANGED conn
    <3>1. CASE Running
      BY SMTT(30), <2>2, <3>1, ServerKeeps, ServerConn, ConfigStays
         DEF Dispatch, OffloadInv, Routed, Sent
    <3>2. CASE conn'.pc = "hello"
      BY SMTT(30), <3>2 DEF Dispatch, ConnInv, OffloadInv, Routed, Sent, Nowhere
    <3> QED
      BY <2>2, <3>1, <3>2, ServerConn DEF Dispatch
  <2> QED
    BY <2>1, <2>2 DEF Next, vars
<1>3. OffloadInv /\ Dispatch => OffloadStaysBytes
  BY SMTT(30) DEF OffloadInv, OffloadStaysBytes, Dispatch, Routed
<1> QED
  BY <1>1, <1>2, <1>3, DispatchInvariance, PTL DEF Spec

(* Upstreams of exact entries. *)

\* A host with an upstream of its own, and no offload entry, is never taken for an
\* offload host, and one without ALPN is always routed as HTTP.
HttpInv ==
    Host \in DOMAIN table.local \ table.offload =>
        /\ conn.step # "inner" /\ conn.via # "plain"
        /\ conn.pc = "routes_to_upstream" => conn.step = "own" /\ ~conn.offload

\* Steps of the connection keep it.
LEMMA HandleHttp == Dispatch /\ HttpInv /\ Handle => HttpInv'
<1> SUFFICES ASSUME Dispatch, HttpInv, Handle, Host \in DOMAIN table.local, Host \notin table.offload
             PROVE  HttpInv'
  BY HandleKeeps DEF Dispatch, HttpInv, server
<1>0. UNCHANGED table /\ Host' = Host
  BY HandleKeeps DEF Dispatch, server
<1> USE DEF Dispatch, ConnInv, HttpInv, Via, Alpn
<1>1. CASE ClientHello
  BY <1>0, <1>1 DEF ClientHello
<1>2. CASE Request
  BY <1>0, <1>2 DEF Request, Nowhere, Sent
<1>3. CASE NoClientHello \/ TlsFails \/ HttpEnds
  BY <1>0, <1>3, ZenonT(60) DEF NoClientHello, TlsFails, HttpEnds, Done
<1>4. ASSUME NEW up, conn.pc = "lookup", conn' = AfterLookupUpstream(up) PROVE HttpInv'
  BY <1>0, <1>4 DEF AfterLookupUpstream, Delivered
<1>5. CASE OwnEntry
  <2>1. CASE conn.pc = "is_terminated"
    BY <1>0, <1>5, <2>1, ZenonT(60) DEF OwnEntry, AskWildcard, AfterIsTerminated
  <2>2. CASE conn.pc = "is_offload"
    BY SMTT(30), <1>0, <1>5, <2>2 DEF OwnEntry, AskWildcard
  <2>3. CASE conn.pc = "routes_to_upstream"
    BY <1>0, <1>5, <2>3, ZenonT(60) DEF OwnEntry, AfterRoutesToUpstream
  <2> QED
    BY <1>4, <1>5, <2>1, <2>2, <2>3, Zenon DEF OwnEntry
<1>6. CASE WildcardTerminated
  <2>1. Answer(NoUpstream)
    BY <1>6 DEF WildcardTerminated, NamedByConfig
  <2>2. ASSUME NEW yes \in BOOLEAN, conn.pc = "is_terminated", conn' = AfterIsTerminated(yes)
        PROVE  HttpInv'
    BY <1>0, <2>2 DEF AfterIsTerminated
  <2>3. ASSUME conn.pc = "is_offload", conn' = AfterIsOffload(FALSE) PROVE HttpInv'
    BY <1>0, <2>3 DEF AfterIsOffload, IsHttp
  <2> QED
    BY <1>4, <1>6, <2>1, <2>2, <2>3, Answers, Zenon DEF UpstreamIn, WildcardTerminated
<1>7. ASSUME NEW alpn \in Alpn, NEW client_cert \in BOOLEAN, TlsAccepted(alpn, client_cert)
      PROVE  HttpInv'
  BY <1>0, <1>7 DEF TlsAccepted, Done
<1>8. CASE LookupTunnel \/ Forward
  BY <1>0, <1>8, ZenonT(60) DEF LookupTunnel, Delivered, Forward
<1> QED
  BY <1>1, <1>2, <1>3, <1>5, <1>6, <1>7, <1>8 DEF Handle, WildcardInner

\* The upstream of an exact entry is sent no byte-pipe of plaintext (handle_public's
\* routes_to_upstream).
THEOREM ExactUpstreamsGetHttp == Spec => []UpstreamIsHttp
<1>1. InitAll /\ Dispatch => HttpInv
  BY SMTT(30) DEF InitAll, InitConn, Dispatch, HttpInv
<1>2. HttpInv /\ Dispatch /\ Dispatch' /\ [Next]_vars => HttpInv'
  <2> SUFFICES ASSUME HttpInv, Dispatch, Dispatch', [Next]_vars PROVE HttpInv'
    OBVIOUS
  <2>1. CASE Handle
    BY <2>1, HandleHttp
  <2>2. CASE (ServerNext \/ UNCHANGED server) /\ UNCHANGED conn
    <3>1. CASE Running
      BY <2>2, <3>1, ServerKeeps, ServerConn DEF Dispatch, HttpInv
    <3>2. CASE conn'.pc = "hello"
      BY <3>2 DEF Dispatch, ConnInv, HttpInv
    <3> QED
      BY <2>2, <3>1, <3>2, ServerConn DEF Dispatch
  <2> QED
    BY <2>1, <2>2 DEF Next, vars
<1>3. HttpInv => UpstreamIsHttp
  BY DEF HttpInv, UpstreamIsHttp
<1> QED
  BY <1>1, <1>2, <1>3, DispatchInvariance, PTL DEF Spec

(* The config. *)

\* The entries are the hostnames, followed by the upstreams.
LEMMA EntriesAre ==
    ASSUME Typed
    PROVE  /\ Entries \in Seq(HostnameEntry \cup UpstreamEntry)
           /\ \A i \in DOMAIN hostnames :
                 i \in DOMAIN Entries /\ Entries[i] = hostnames[i] /\ IsTunnel(i)
           /\ \A j \in DOMAIN upstreams :
                 LET i == Len(hostnames) + j
                 IN  i \in DOMAIN Entries /\ Entries[i] = upstreams[j] /\ ~IsTunnel(i)
           /\ \A i \in DOMAIN Entries :
                 \/ i \in DOMAIN hostnames
                 \/ \E j \in DOMAIN upstreams : i = Len(hostnames) + j
<1> DEFINE E == HostnameEntry \cup UpstreamEntry
<1>1. hostnames \in Seq(E) /\ upstreams \in Seq(E)
  BY SMTT(30) DEF Typed
<1> HIDE DEF E
<1>2. /\ Entries \in Seq(E) /\ Len(Entries) = Len(hostnames) + Len(upstreams)
      /\ \A i \in 1..Len(Entries) :
            Entries[i] = IF i <= Len(hostnames) THEN hostnames[i] ELSE upstreams[i - Len(hostnames)]
  BY SMTT(30), <1>1 DEF Entries
<1>3. /\ DOMAIN hostnames = 1..Len(hostnames) /\ DOMAIN upstreams = 1..Len(upstreams)
      /\ DOMAIN Entries = 1..Len(Entries) /\ Len(hostnames) \in Nat /\ Len(upstreams) \in Nat
  BY SMTT(30), <1>1, <1>2
<1>4. ASSUME NEW i \in DOMAIN hostnames
      PROVE  i \in DOMAIN Entries /\ Entries[i] = hostnames[i] /\ IsTunnel(i)
  BY SMTT(30), <1>2, <1>3 DEF IsTunnel
<1>5. ASSUME NEW j \in DOMAIN upstreams
      PROVE  LET i == Len(hostnames) + j
             IN  i \in DOMAIN Entries /\ Entries[i] = upstreams[j] /\ ~IsTunnel(i)
  <2>1. (Len(hostnames) + j) - Len(hostnames) = j
    BY SMTT(30), <1>3
  <2> QED
    BY SMTT(30), <1>2, <1>3, <2>1 DEF IsTunnel
<1>6. ASSUME NEW i \in DOMAIN Entries, i \notin DOMAIN hostnames
      PROVE  \E j \in DOMAIN upstreams : i = Len(hostnames) + j
  <2>1. i - Len(hostnames) \in DOMAIN upstreams /\ i = Len(hostnames) + (i - Len(hostnames))
    BY SMTT(30), <1>2, <1>3, <1>6
  <2> QED
    BY <2>1
<1> QED
  BY <1>2, <1>4, <1>5, <1>6 DEF E

\* An entry's name is a sequence of labels.
LEMMA EntryNames ==
    ASSUME Typed, NEW i \in DOMAIN Entries
    PROVE  Entries[i].host.host \in Seq(STRING) /\ Entries[i].host \in Name
BY SMTT(30), EntriesAre DEF HostnameEntry, UpstreamEntry, Name

\* In a valid config every upstream is in the table, with a target.
LEMMA LocalHosts ==
    ASSUME ServerInv, Running
    PROVE  /\ DOMAIN table.local = Hosts(upstreams)
           /\ \A k \in DOMAIN table.local : table.local[k] # NoUpstream
<1>1. /\ table.local = LocalOf(upstreams)
      /\ \A i \in DOMAIN upstreams : upstreams[i].local_addr # upstreams[i].local_socket
  BY SMTT(30) DEF ServerInv, Running, from_config, Valid, validate, validate_dynamic,
     validate_upstream_targets, upstreams
<1>2. \A i \in DOMAIN upstreams : upstreams[i].local_addr \/ upstreams[i].local_socket
  <2> SUFFICES ASSUME NEW i \in DOMAIN upstreams
               PROVE  upstreams[i].local_addr \/ upstreams[i].local_socket
    OBVIOUS
  <2>1. upstreams[i] \in UpstreamEntry
    BY SMTT(30) DEF ServerInv, Typed
  <2>2. upstreams[i].local_addr \in BOOLEAN /\ upstreams[i].local_socket \in BOOLEAN
    BY <2>1 DEF UpstreamEntry
  <2> QED
    BY <1>1, <2>2, Zenon
<1>3. \A k \in Hosts(upstreams) : \E i \in DOMAIN upstreams :
          to_ascii_lowercase(upstreams[i].host) = k
          /\ (upstreams[i].local_addr \/ upstreams[i].local_socket)
  BY <1>2 DEF Hosts
<1>4. DOMAIN LocalOf(upstreams) = Hosts(upstreams)
  BY <1>3, Zenon DEF LocalOf
<1>5. \A k \in DOMAIN LocalOf(upstreams) : LocalOf(upstreams)[k].target \in {"unix", "tcp"}
  BY Zenon DEF LocalOf
<1> QED
  BY <1>1, <1>4, <1>5, SMTT(30) DEF NoUpstream

(* Certs. *)

\* HostCerts looks for the cert in the order in which the config gives a host to
\* an entry.
LEMMA SelectsOwn ==
    ASSUME NEW host, NEW i \in EntriesFor(Entries, host), Entries[i].cert = "pair"
    PROVE  FirstMatch(host, CertHosts(Entries)) = <<Entries[i].host.host>>
<1> USE DEF to_ascii_lowercase
<1>1. \A k \in CertHosts(Entries) : \E j \in DOMAIN Entries : Entries[j].host.host = k
  BY DEF CertHosts
<1>2. i \in DOMAIN Entries
  BY DEF EntriesFor
<1>3. Entries[i].host.host \in CertHosts(Entries)
  BY <1>2 DEF CertHosts
<1>4. CASE \E j \in DOMAIN Entries : Entries[j].host.host = host
  BY <1>3, <1>4 DEF EntriesFor, FirstMatch
<1>5. CASE /\ ~\E j \in DOMAIN Entries : Entries[j].host.host = host
           /\ Len(host) > 1 /\ \E j \in DOMAIN Entries : Entries[j].host.host = Parent(host)
  <2>1. Entries[i].host.host = Parent(host) /\ host \notin CertHosts(Entries)
    BY <1>1, <1>5 DEF EntriesFor
  <2> QED
    BY <1>3, <1>5, <2>1 DEF FirstMatch, FirstPattern
<1>6. CASE /\ ~\E j \in DOMAIN Entries : Entries[j].host.host = host
           /\ ~(Len(host) > 1 /\ \E j \in DOMAIN Entries : Entries[j].host.host = Parent(host))
  <2>1. Entries[i].host.host = CatchAll /\ host \notin CertHosts(Entries)
    BY <1>1, <1>6 DEF EntriesFor
  <2>2. ~(Len(host) > 1 /\ Parent(host) \in CertHosts(Entries))
    BY <1>1, <1>6
  <2> QED
    BY <1>3, <2>1, <2>2, SMTT(30) DEF FirstMatch, FirstPattern
<1> QED
  BY <1>4, <1>5, <1>6

\* A pattern is its own parent or the catch-all.
LEMMA PatternsMatchThemselves ==
    ASSUME NEW host \in Seq(STRING), Len(host) >= 1, host[1] = "*"
    PROVE  (Len(host) > 1 /\ Parent(host) = host) \/ host = CatchAll
<1>1. CASE Len(host) > 1
  <2>1. /\ Parent(host) \in Seq(STRING) /\ Len(Parent(host)) = Len(host)
        /\ \A k \in 1..Len(host) : Parent(host)[k] = host[k]
    BY SMTT(30), <1>1 DEF Parent
  <2> QED
    BY SMTT(30), <1>1, <2>1
<1>2. CASE Len(host) = 1
  BY SMTT(30), <1>2 DEF CatchAll
<1>3. Len(host) > 1 \/ Len(host) = 1
  <2> DEFINE n == Len(host)
  <2>1. n \in Nat /\ n >= 1
    BY SMTT(30)
  <2> HIDE DEF n
  <2>2. n > 1 \/ n = 1
    BY SMTT(30), <2>1
  <2> QED
    BY <2>2 DEF n
<1> QED
  BY <1>1, <1>2, <1>3, Zenon

\* A terminated hostname of the config is a plain name, or a pattern answers it.
LEMMA TerminatedByName ==
    ASSUME ServerInv, Running, NEW host \in terminated_hostnames,
           PatternUpstream(table, host) = NoUpstream
    PROVE  \A k \in DOMAIN host : host[k] # "*"
<1> SUFFICES ASSUME NEW k \in DOMAIN host, host[k] = "*" PROVE FALSE
  OBVIOUS
<1>1. PICK i \in DOMAIN Entries : Entries[i].host.host = host
  BY ZenonT(60) DEF terminated_hostnames, HostsInMode, to_ascii_lowercase
<1>2. Typed /\ validate_host_patterns(hostnames, upstreams)
  BY DEF ServerInv, Running, Valid, validate, validate_dynamic, hostnames, upstreams
<1>3. i \notin DOMAIN hostnames
  <2> SUFFICES ASSUME i \in DOMAIN hostnames PROVE FALSE
    OBVIOUS
  <2>1. hostnames[i].host.host = host
    BY <1>1, <1>2, EntriesAre
  <2> QED
    BY <1>2, <2>1, Zenon DEF validate_host_patterns
<1>4. PICK j \in DOMAIN upstreams : upstreams[j].host.host = host
  BY SMTT(30), <1>1, <1>2, <1>3, EntriesAre
<1>5. host \in Seq(STRING) /\ k \in 1..Len(host)
  BY SMTT(30), <1>1, <1>2, EntryNames
<1>6. k = 1
  <2>1. k > 1 => upstreams[j].host.host[k] # "*"
    BY <1>2, <1>4, Zenon DEF validate_host_patterns
  <2> QED
    BY SMTT(30), <1>4, <1>5, <2>1
<1>7. host \in DOMAIN table.local /\ table.local[host] # NoUpstream
  BY <1>4, LocalHosts DEF Hosts, to_ascii_lowercase
<1>8. FirstPattern(host, DOMAIN table.local) = <<host>>
  <2>1. Len(host) >= 1 /\ (host = CatchAll => ~(Len(host) > 1))
    BY SMTT(30), <1>5 DEF CatchAll
  <2>2. (Len(host) > 1 /\ Parent(host) = host) \/ host = CatchAll
    BY <1>5, <1>6, <2>1, PatternsMatchThemselves
  <2> QED
    BY <1>7, <2>1, <2>2, Zenon DEF FirstPattern
<1>9. <<host>> # <<>> /\ <<host>>[1] = host
  OBVIOUS
<1> QED
  BY <1>7, <1>8, <1>9, Zenon DEF PatternUpstream

\* A handshake with a host that no pattern covers is about to answer a name that
\* the config terminates or that ACME was started for; and the cert it showed is
\* right.
CertInv ==
    /\ (conn.pc = "tls" /\ PatternUpstream(table, Host) = NoUpstream
        /\ (AcmeController \/ ~dynamic)) => Host \in added \cup terminated_hostnames
    /\ OwnCertIsShown
    /\ CertNamesHost

\* The cert is that of the handshake's end.
LEMMA CertOfHandshake ==
    ASSUME ConnInv, Handle
    PROVE  \/ conn'.cert = conn.cert
           \/ conn.pc = "tls" /\ conn'.pc # "tls" /\ conn'.cert = resolve(Host)
<1> USE DEF ConnInv
<1>1. CASE ClientHello \/ NoClientHello \/ TlsFails \/ Request \/ HttpEnds
  BY <1>1, Zenon DEF ClientHello, NoClientHello, TlsFails, Request, HttpEnds, Done
<1>2. CASE OwnEntry
  BY <1>2, ZenonT(60) DEF OwnEntry, AskWildcard, AfterIsTerminated, AfterIsOffload,
     AfterRoutesToUpstream, AfterLookupUpstream, Delivered
<1>3. CASE WildcardTerminated \/ WildcardInner
  BY <1>3, ZenonT(60) DEF WildcardTerminated, WildcardInner, Answer, AfterIsTerminated, AfterIsOffload,
     AfterRoutesToUpstream, AfterLookupUpstream, Delivered
<1>4. ASSUME NEW alpn \in Alpn, NEW client_cert \in BOOLEAN, TlsAccepted(alpn, client_cert)
      PROVE  \/ conn'.cert = conn.cert
             \/ conn.pc = "tls" /\ conn'.pc # "tls" /\ conn'.cert = resolve(Host)
  BY <1>4 DEF TlsAccepted, Done
<1>5. CASE LookupTunnel \/ Forward
  BY <1>5, Zenon DEF LookupTunnel, Delivered, Forward
<1> QED
  BY <1>1, <1>2, <1>3, <1>4, <1>5 DEF Handle

\* A handshake begins with a host of the terminated set or of a pattern.
LEMMA HandshakeBegins ==
    ASSUME ConnInv, Handle, conn'.pc = "tls"
    PROVE  Host \in terminated \/ PatternUpstream(table, Host) # NoUpstream
<1> USE DEF ConnInv
<1>1. CASE ClientHello \/ NoClientHello \/ TlsFails \/ Request \/ HttpEnds
  BY <1>1, Zenon DEF ClientHello, NoClientHello, TlsFails, Request, HttpEnds, Done
<1>2. ASSUME NEW up, conn.pc = "lookup", conn' = AfterLookupUpstream(up) PROVE FALSE
  BY <1>2 DEF AfterLookupUpstream, Delivered
<1>3. CASE OwnEntry
  BY <1>2, <1>3, ZenonT(60) DEF OwnEntry, AskWildcard, AfterIsTerminated, AfterIsOffload,
     AfterRoutesToUpstream
<1>4. ASSUME NEW up, Answer(up) PROVE up # NoUpstream
  <2>1. ASSUME NEW yes \in BOOLEAN, conn.pc = "is_terminated", conn' = AfterIsTerminated(yes)
        PROVE  yes
    BY <2>1 DEF AfterIsTerminated
  <2>2. ASSUME NEW yes \in BOOLEAN, conn' = AfterIsOffload(yes) \/ conn' = AfterRoutesToUpstream(yes)
        PROVE  FALSE
    BY <2>2, ZenonT(60) DEF AfterIsOffload, AfterRoutesToUpstream
  <2> QED
    BY <1>2, <1>4, <2>1, <2>2, Answers DEF UpstreamIn
<1>5. CASE WildcardTerminated
  <2>1. CASE conn.step = "terminated" /\ conn' = [conn EXCEPT !.step = "inner"]
    BY <2>1
  <2> QED
    BY <1>4, <1>5, <2>1 DEF WildcardTerminated
<1>6. CASE WildcardInner
  BY <1>4, <1>6 DEF WildcardInner
<1>7. ASSUME NEW alpn \in Alpn, NEW client_cert \in BOOLEAN, TlsAccepted(alpn, client_cert)
      PROVE  FALSE
  BY <1>7 DEF TlsAccepted, Done
<1>8. CASE LookupTunnel \/ Forward
  BY <1>8, Zenon DEF LookupTunnel, Delivered, Forward
<1> QED
  BY <1>1, <1>3, <1>5, <1>6, <1>7, <1>8 DEF Handle

\* The cert that a name is answered with.
LEMMA ResolvesRight ==
    ASSUME ServerInv, Running, NEW host, NEW cert, cert = resolve(host),
           PatternUpstream(table, host) = NoUpstream, host \in added \cup terminated_hostnames,
           cert.from \notin {"none", "file", "entry"}
    PROVE  host \in cert.names
<1>1. select(Entries, host) = <<>> /\ cert = SharedResolver(host)
  BY DEF resolve
<1>2. CASE host \in added
  BY SMTT(30), <1>1, <1>2 DEF SharedResolver
<1>3. CASE host \notin added
  <2>1. host \in shared_hostnames
    BY <1>1, <1>3, TerminatedByName DEF shared_hostnames
  <2> QED
    BY SMTT(30), <1>1, <1>3, <2>1 DEF SharedResolver, ServerWide
<1> QED
  BY <1>2, <1>3

\* Steps of the connection keep it.
LEMMA HandleCerts == Dispatch /\ CertInv /\ Handle => CertInv'
<1> SUFFICES ASSUME Dispatch, CertInv, Handle PROVE CertInv'
  OBVIOUS
<1>1. /\ UNCHANGED <<table, added, dynamic, terminated>> /\ Host' = Host /\ Entries' = Entries
      /\ AcmeController' = AcmeController /\ terminated_hostnames' = terminated_hostnames
  BY HandleKeeps, ConfigStays DEF Dispatch, server, constants
<1>2. conn.pc # "hello" => Running
  BY DEF Dispatch, ConnInv
<1>3. ASSUME conn'.pc = "tls", PatternUpstream(table, Host) = NoUpstream, AcmeController \/ ~dynamic
      PROVE  Host \in added \cup terminated_hostnames
  <2>1. Host \in terminated
    BY <1>3, HandshakeBegins, Zenon DEF Dispatch
  <2>2. Running
    BY <1>2, <1>3, HandleKeeps, HandleConn, ZenonT(60) DEF Dispatch, ConnInv, server, Running
  <2> QED
    BY <1>3, <2>1, <2>2 DEF Dispatch, ServerInv, Running
<1>4. CASE conn'.cert = conn.cert
  BY <1>1, <1>3, <1>4 DEF CertInv, OwnCertIsShown, CertNamesHost, PatternUpstream
<1>5. CASE conn.pc = "tls" /\ conn'.pc # "tls" /\ conn'.cert = resolve(Host)
  <2>1. OwnCertIsShown'
    <3> SUFFICES ASSUME NEW i \in EntriesFor(Entries, WithoutFinalDots(Host)),
                        Entries[i].cert = "pair"
                 PROVE  conn'.cert = [from |-> "entry", names |-> {to_ascii_lowercase(Entries[i].host)}]
      BY <1>1 DEF OwnCertIsShown
    <3>1. select(Entries, Host) = <<Entries[i].host.host>>
      BY SelectsOwn DEF select
    <3> QED
      BY <1>5, <3>1, SMTT(30) DEF resolve, to_ascii_lowercase
  <2>2. CertNamesHost'
    <3> SUFFICES ASSUME conn'.cert.from \notin {"none", "file", "entry"}, AcmeController \/ ~dynamic,
                        PatternUpstream(table, Host) = NoUpstream
                 PROVE  Host \in conn'.cert.names
      BY <1>1 DEF CertNamesHost, PatternUpstream
    <3>1. Host \in added \cup terminated_hostnames
      BY <1>5 DEF CertInv
    <3> QED
      BY <1>2, <1>5, <3>1, ResolvesRight DEF Dispatch
  <2> QED
    BY <1>5, <2>1, <2>2 DEF CertInv
<1> QED
  BY <1>4, <1>5, CertOfHandshake DEF Dispatch

\* The certs, with the server.
LEMMA CertInvariance == Spec => []CertInv
<1>1. InitAll /\ Dispatch => CertInv
  <2> SUFFICES ASSUME InitAll PROVE CertInv
    OBVIOUS
  <2>1. conn.pc = "hello" /\ conn.cert = NoCert
    BY SMTT(30) DEF InitAll, InitConn
  <2> QED
    BY SMTT(30), <2>1 DEF CertInv, OwnCertIsShown, CertNamesHost, NoCert
<1>2. CertInv /\ Dispatch /\ Dispatch' /\ [Next]_vars => CertInv'
  <2> SUFFICES ASSUME CertInv, Dispatch, Dispatch', [Next]_vars PROVE CertInv'
    OBVIOUS
  <2>1. CASE Handle
    BY <2>1, HandleCerts
  <2>2. CASE (ServerNext \/ UNCHANGED server) /\ UNCHANGED conn
    <3>1. /\ UNCHANGED conn /\ Host' = Host /\ Entries' = Entries /\ dynamic' = dynamic
          /\ AcmeController' = AcmeController /\ terminated_hostnames' = terminated_hostnames
      BY <2>2, ServerKeeps, ServerConn, ConfigStays DEF Dispatch, constants
    <3>2. added \subseteq added'
      BY <2>2, ZenonT(60) DEF ServerNext, server, Start, Refuse, TunnelUp, TunnelCloses, TunnelDown, Ensure,
         SetTerminated
    <3>3. CASE Running
      <4>1. table' = table
        BY <2>2, <3>3, ServerKeeps, ZenonT(60)
      <4> QED
        BY <3>1, <3>2, <4>1 DEF CertInv, OwnCertIsShown, CertNamesHost, PatternUpstream
    <3>4. CASE conn.pc = "hello"
      <4>1. conn'.pc = "hello" /\ conn'.cert = NoCert
        BY <3>1, <3>4 DEF Dispatch, ConnInv
      <4> QED
        BY <4>1, SMTT(30) DEF CertInv, OwnCertIsShown, CertNamesHost, NoCert
    <3> QED
      BY <2>2, <3>3, <3>4, ServerConn DEF Dispatch
  <2> QED
    BY <2>1, <2>2 DEF Next, vars
<1> QED
  BY <1>1, <1>2, DispatchInvariance, PTL DEF Spec

\* An entry's own cert is shown for every host that the config gives to the entry
\* once its final dots are dropped (HostCertResolver::resolve, HostCerts::select).
THEOREM EntriesShowTheirCerts == Spec => []OwnCertIsShown
<1>1. CertInv => OwnCertIsShown
  BY DEF CertInv
<1> QED
  BY <1>1, CertInvariance, PTL

\* A host terminated by name is shown a cert that names it, however
\* set_terminated_domains calls interleave with the handshake: ensure comes before
\* set_terminated.
THEOREM CertsNameTheirHosts == Spec => []CertNamesHost
<1>1. CertInv => CertNamesHost
  BY DEF CertInv
<1> QED
  BY <1>1, CertInvariance, PTL

(* A static server. *)

\* What the table answers a static server's connection at once, whatever tunnels do.
Wild == wildcard_upstream(table, terminated_hostnames, {}, Host)

IsTerminated == is_terminated(table, terminated_hostnames, {}, Host)

IsOffload == is_offload(table, terminated_hostnames, {}, Host)

RoutesToUpstream == routes_to_upstream(table, terminated_hostnames, {}, Host)

Found == LookupUpstream(table, terminated_hostnames, {}, Host)

\* Every question is answered so, in all of its steps, and the connection is
\* treated and sent according to these answers.
StaticInv ==
    ~dynamic =>
        /\ conn.step # "own" =>
              /\ conn.pc = "is_terminated" => Host \notin terminated_hostnames
              /\ conn.pc = "is_offload" => Host \notin table.offload
              /\ conn.pc \in {"routes_to_upstream", "lookup"} => Host \notin DOMAIN table.local
        /\ conn.step = "inner" => ~NamedByConfig(table, Host) /\ Host \notin terminated_hostnames
        /\ (conn.pc \in {"tls", "is_offload", "routes_to_upstream", "http"} \/ conn.via # "raw") =>
              IsTerminated
        /\ (Routed /\ conn.via = "raw") => ~IsTerminated
        /\ conn.pc = "routes_to_upstream" => (conn.offload <=> IsOffload)
        /\ conn.via = "http" => ~IsOffload
        /\ conn.via = "plain" => IsOffload \/ ~RoutesToUpstream
        /\ conn.pc = "lookup_tunnel" => Found = NoUpstream
        /\ conn.got.to = "upstream" => Found # NoUpstream /\ conn.got.tls_mode = Found.tls_mode
        /\ conn.got.to = "tunnel" => /\ Found = NoUpstream /\ conn.sni \in DOMAIN Grants
                                     /\ conn.got.tls_mode = Grants[conn.sni]

\* A static server grants the config's hostnames, in the config's modes.
LEMMA GrantsOfConfig ==
    ASSUME ~dynamic, NEW n \in DOMAIN Grants
    PROVE  \E i \in DOMAIN hostnames : hostnames[i].host = n /\ Grants[n] = hostnames[i].tls_mode
<1>1. PICK token \in Token : n \in DOMAIN admit(config, token) /\ Grants[n] = admit(config, token)[n]
  BY DEF Grants
<1> DEFINE matched == {i \in DOMAIN config.clients : config.clients[i].token = token}
           client  == config.clients[CHOOSE i \in matched : \A j \in matched : j <= i]
           granted == {i \in DOMAIN hostnames : matched # {} /\ hostnames[i].client = client.name}
<1>2. admit(config, token) = [m \in {hostnames[i].host : i \in granted} |->
                                 hostnames[CHOOSE i \in granted : hostnames[i].host = m].tls_mode]
  BY DEF admit, hostnames
<1>3. granted \subseteq DOMAIN hostnames
  OBVIOUS
<1> HIDE DEF granted
<1>4. \E i \in granted : hostnames[i].host = n
  BY <1>1, <1>2
<1> DEFINE first == CHOOSE i \in granted : hostnames[i].host = n
<1>5. first \in granted /\ hostnames[first].host = n
  BY <1>4
<1>6. Grants[n] = hostnames[first].tls_mode
  BY <1>1, <1>2, <1>4, ZenonT(60)
<1> QED
  BY <1>3, <1>5, <1>6, Zenon

\* The answers, spelled out.
LEMMA StaticAnswers ==
    /\ NamedByConfig(table, Host) \/ Host \in terminated_hostnames => Wild = NoUpstream
    /\ ~NamedByConfig(table, Host) /\ Host \notin terminated_hostnames =>
          Wild = PatternUpstream(table, Host)
    /\ IsTerminated <=> \/ Host \in terminated_hostnames
                        \/ UpstreamIn(Wild, {"terminated", "tls_offload"})
    /\ IsOffload <=> Host \in table.offload \/ UpstreamIn(Wild, {"tls_offload"})
    /\ RoutesToUpstream <=> Host \in DOMAIN table.local \/ Wild # NoUpstream
    /\ Found = IF Host \in DOMAIN table.local THEN table.local[Host] ELSE Wild
BY DEF Wild, IsTerminated, IsOffload, RoutesToUpstream, Found, wildcard_upstream,
   is_terminated, is_offload, routes_to_upstream, LookupUpstream, NamedByTunnel

\* wildcard_upstream answers the same, whatever tunnels are there: they serve
\* hostnames of the config.
LEMMA WildIsStatic ==
    ASSUME ServerInv, Running, ~dynamic, ~NamedByConfig(table, Host)
    PROVE  ~NamedByTunnel(DOMAIN inner, Host)
<1> SUFFICES ASSUME Spelled(Host, TRUE) \in DOMAIN inner PROVE FALSE
  BY Zenon DEF NamedByTunnel
<1>1. PICK i \in DOMAIN hostnames : hostnames[i].host = Spelled(Host, TRUE)
  BY GrantsOfConfig, Zenon DEF ServerInv
<1>2. Host \in Hosts(hostnames)
  BY SMTT(30), <1>1 DEF Hosts, to_ascii_lowercase, Spelled
<1>3. table.tunnel_hosts = Hosts(hostnames)
  BY SMTT(30) DEF ServerInv, Running, from_config
<1> QED
  BY <1>2, <1>3 DEF NamedByConfig

\* Steps of the connection keep it.
LEMMA HandleStatic == Dispatch /\ StaticInv /\ Handle => StaticInv'
<1> SUFFICES ASSUME Dispatch, StaticInv, Handle, ~dynamic PROVE StaticInv'
  BY HandleKeeps, Zenon DEF Dispatch, StaticInv, server, constants
<1>0. /\ UNCHANGED <<table, dynamic, inner>> /\ Host' = Host /\ conn'.sni = conn.sni
      /\ terminated_hostnames' = terminated_hostnames /\ Grants' = Grants
  BY HandleKeeps, ConfigStays, ZenonT(60) DEF Dispatch, server, constants
<1>1. /\ IsTerminated' = IsTerminated /\ IsOffload' = IsOffload /\ Found' = Found
      /\ RoutesToUpstream' = RoutesToUpstream
      /\ NamedByConfig(table, Host)' = NamedByConfig(table, Host)
  BY <1>0 DEF IsTerminated, IsOffload, Found, RoutesToUpstream, NamedByConfig, is_terminated,
     is_offload, routes_to_upstream, LookupUpstream, wildcard_upstream, PatternUpstream
<1>2. conn.pc # "hello" => Running /\ terminated = terminated_hostnames
  BY DEF Dispatch, ConnInv, ServerInv, Running
<1> USE DEF Dispatch, ConnInv, StaticInv, Routed, Sent, Nowhere, Via, Alpn
<1>3. CASE ClientHello \/ NoClientHello \/ TlsFails
  BY <1>0, <1>1, <1>3, ZenonT(60) DEF ClientHello, NoClientHello, TlsFails, Done
<1>4. CASE Request \/ HttpEnds
  <2>1. CASE Request
    BY <1>0, <1>1, <2>1 DEF Request
  <2>2. CASE HttpEnds
    BY <1>0, <1>1, <2>2 DEF HttpEnds, Done
  <2> QED
    BY <1>4, <2>1, <2>2, ZenonT(60)
<1>5. ASSUME NEW yes \in BOOLEAN, conn.pc = "is_terminated", yes <=> IsTerminated,
             conn' = AfterIsTerminated(yes)
      PROVE  StaticInv'
  BY <1>0, <1>1, <1>5 DEF AfterIsTerminated
<1>6. ASSUME NEW yes \in BOOLEAN, conn.pc = "is_offload", yes <=> IsOffload,
             conn' = AfterIsOffload(yes)
      PROVE  StaticInv'
  BY <1>0, <1>1, <1>6 DEF AfterIsOffload, IsHttp
<1>7. ASSUME NEW yes \in BOOLEAN, conn.pc = "routes_to_upstream", yes <=> RoutesToUpstream,
             conn' = AfterRoutesToUpstream(yes)
      PROVE  StaticInv'
  BY <1>0, <1>1, <1>7 DEF AfterRoutesToUpstream
<1>8. ASSUME conn.pc = "lookup", conn' = AfterLookupUpstream(Found) PROVE StaticInv'
  BY <1>0, <1>1, <1>8 DEF AfterLookupUpstream, Delivered
<1>9. CASE OwnEntry
  <2>1. CASE conn.pc = "is_terminated"
    BY <1>0, <1>1, <1>2, <1>5, <1>9, <2>1, StaticAnswers, ZenonT(60) DEF OwnEntry, AskWildcard
  <2>2. CASE conn.pc = "is_offload"
    BY <1>0, <1>1, <1>6, <1>9, <2>2, StaticAnswers, Zenon DEF OwnEntry, AskWildcard
  <2>3. CASE conn.pc = "routes_to_upstream"
    BY <1>0, <1>1, <1>7, <1>9, <2>3, StaticAnswers, ZenonT(60) DEF OwnEntry, AskWildcard
  <2>4. CASE conn.pc = "lookup"
    BY <1>0, <1>1, <1>8, <1>9, <2>4, StaticAnswers DEF OwnEntry, AskWildcard
  <2> QED
    BY <1>9, <2>1, <2>2, <2>3, <2>4, Zenon DEF OwnEntry
<1>10. ASSUME Answer(Wild), conn.step # "own" PROVE StaticInv'
  BY <1>5, <1>6, <1>7, <1>8, <1>10, Answers, StaticAnswers, ZenonT(60)
<1>11. CASE WildcardTerminated
  <2>1. CASE NamedByConfig(table, Host) \/ Host \in terminated
    BY <1>2, <1>10, <1>11, <2>1, StaticAnswers DEF WildcardTerminated
  <2>2. CASE ~(NamedByConfig(table, Host) \/ Host \in terminated)
    BY <1>0, <1>1, <1>2, <1>11, <2>2, ZenonT(60) DEF WildcardTerminated
  <2> QED
    BY <2>1, <2>2, Zenon
<1>12. CASE WildcardInner
  <2>1. ~NamedByTunnel(DOMAIN inner, Host) /\ Wild = PatternUpstream(table, Host)
    BY <1>2, <1>12, WildIsStatic, StaticAnswers, Zenon DEF WildcardInner
  <2> QED
    BY <1>10, <1>12, <2>1, Zenon DEF WildcardInner
<1>13. ASSUME NEW alpn \in Alpn, NEW client_cert \in BOOLEAN, TlsAccepted(alpn, client_cert)
       PROVE  StaticInv'
  BY <1>0, <1>1, <1>13, Zenon DEF TlsAccepted, Done
<1>14. CASE LookupTunnel
  <2>1. conn.pc = "lookup_tunnel" /\ Found = NoUpstream
    BY <1>14, Zenon DEF LookupTunnel
  <2>2. ASSUME NEW route, conn' = Delivered(route), route.to # "upstream",
               route.to = "tunnel" => /\ conn.sni \in DOMAIN Grants
                                      /\ route.tls_mode = Grants[conn.sni]
        PROVE  StaticInv'
    <3>1. /\ conn'.pc = "forward" /\ conn'.step = "own" /\ conn'.got = route
          /\ conn'.via = conn.via /\ conn'.offload = conn.offload
      BY <2>2, Zenon DEF Delivered
    <3> QED
      BY <1>0, <1>1, <2>1, <2>2, <3>1, Zenon
  <2>3. NoRoute.to \notin {"upstream", "tunnel"}
    BY Zenon DEF NoRoute, BadGateway
  <2>4. ASSUME conn.sni \in DOMAIN inner
        PROVE  conn.sni \in DOMAIN Grants /\ inner[conn.sni].tls_mode = Grants[conn.sni]
    BY <2>4, Zenon DEF ServerInv
  <2>5. CASE conn.sni \in DOMAIN inner /\ inner[conn.sni].open
    <3> DEFINE route == [to |-> "tunnel", tls_mode |-> inner[conn.sni].tls_mode]
    <3>1. route.to = "tunnel" /\ route.tls_mode = inner[conn.sni].tls_mode
      OBVIOUS
    <3>2. conn' = Delivered(route)
      BY <1>14, <2>5, Zenon DEF LookupTunnel
    <3> HIDE DEF route
    <3> QED
      BY <2>2, <2>4, <2>5, <3>1, <3>2, ZenonT(60)
  <2>6. CASE ~(conn.sni \in DOMAIN inner /\ inner[conn.sni].open)
    BY <1>14, <2>2, <2>3, <2>6, Zenon DEF LookupTunnel
  <2> QED
    BY <2>5, <2>6, Zenon
<1>15. CASE Forward
  BY SMTT(30), <1>0, <1>1, <1>15 DEF Forward, Unreachable, BadGateway
<1> QED
  BY <1>3, <1>4, <1>9, <1>11, <1>12, <1>13, <1>14, <1>15, Zenon DEF Handle

\* A static server whose config is in lowercase.
StaticLower ==
    /\ ServerInv /\ Running /\ ~dynamic
    /\ \A i \in DOMAIN Entries : Entries[i].host.lower

\* Validation leaves one entry for each host.
LEMMA OneEntry ==
    ASSUME StaticLower, NEW i \in DOMAIN Entries, NEW j \in DOMAIN Entries,
           Entries[i].host.host = Entries[j].host.host
    PROVE  i = j
<1>1. Entries[i].host \in Name /\ Entries[j].host \in Name
  BY EntryNames DEF StaticLower, ServerInv
<1>2. Entries[i].host.lower = Entries[j].host.lower
  <2>1. Entries[i].host.lower \in BOOLEAN /\ Entries[j].host.lower \in BOOLEAN
    BY <1>1 DEF Name
  <2> QED
    BY <2>1, Zenon DEF StaticLower
<1>3. ASSUME NEW a \in Name, NEW b \in Name, a.host = b.host, a.lower = b.lower PROVE a = b
  BY <1>3, SMTT(30) DEF Name
<1>4. Distinct(Entries)
  BY DEF StaticLower, ServerInv, Running, Valid, validate, Entries, hostnames, upstreams
<1> QED
  BY <1>1, <1>2, <1>3, <1>4, ZenonT(60) DEF Distinct

\* The table has the mode of each entry.
LEMMA EntryModes ==
    ASSUME StaticLower, NEW i \in DOMAIN Entries, NEW host, host = Entries[i].host.host
    PROVE  /\ Entries[i].tls_mode \in TlsMode
           /\ host \in terminated_hostnames <=> Terminates(Entries[i].tls_mode)
           /\ host \in table.offload <=> Entries[i].tls_mode = "tls_offload"
           /\ host \in table.tunnel_hosts <=> IsTunnel(i)
           /\ host \in DOMAIN table.local <=> ~IsTunnel(i)
<1>1. Typed /\ table = from_config(hostnames, upstreams)
  BY DEF StaticLower, ServerInv, Running
<1>2. Entries[i].tls_mode \in TlsMode
  BY SMTT(30), <1>1, EntriesAre DEF HostnameEntry, UpstreamEntry
<1>3. ASSUME NEW modes PROVE host \in HostsInMode(Entries, modes) <=> Entries[i].tls_mode \in modes
  BY OneEntry, ZenonT(60) DEF HostsInMode, to_ascii_lowercase
<1>4. /\ host \in terminated_hostnames <=> Terminates(Entries[i].tls_mode)
      /\ host \in table.offload <=> Entries[i].tls_mode = "tls_offload"
  BY <1>1, <1>3, SMTT(30) DEF terminated_hostnames, Terminates, from_config, OffloadOf, Entries
<1>5. host \in table.tunnel_hosts <=> IsTunnel(i)
  <2>1. ASSUME NEW n \in DOMAIN hostnames, hostnames[n].host.host = host PROVE IsTunnel(i)
    BY <1>1, <2>1, EntriesAre, OneEntry
  <2>2. ASSUME IsTunnel(i) PROVE i \in DOMAIN hostnames /\ hostnames[i].host.host = host
    BY SMTT(30), <1>1, <2>2, EntriesAre
  <2> QED
    BY <1>1, <2>1, <2>2, Zenon DEF from_config, Hosts, to_ascii_lowercase
<1>6. host \in Hosts(upstreams) <=> ~IsTunnel(i)
  <2>1. ASSUME NEW n \in DOMAIN upstreams, upstreams[n].host.host = host PROVE ~IsTunnel(i)
    BY SMTT(30), <1>1, <2>1, EntriesAre, OneEntry
  <2>2. ASSUME ~IsTunnel(i) PROVE \E n \in DOMAIN upstreams : upstreams[n].host.host = host
    BY SMTT(30), <1>1, <2>2, EntriesAre
  <2> QED
    BY <2>1, <2>2 DEF Hosts, to_ascii_lowercase
<1> QED
  BY <1>2, <1>4, <1>5, <1>6, LocalHosts DEF StaticLower

\* The table sends an upstream's host to it, in its mode.
LEMMA UpstreamModes ==
    ASSUME StaticLower, NEW i \in DOMAIN Entries, ~IsTunnel(i)
    PROVE  LET host == Entries[i].host.host
           IN  /\ host \in DOMAIN table.local /\ table.local[host] # NoUpstream
               /\ table.local[host].tls_mode = Entries[i].tls_mode
<1> DEFINE host == Entries[i].host.host
           served == {n \in DOMAIN upstreams : /\ to_ascii_lowercase(upstreams[n].host) = host
                                               /\ upstreams[n].local_addr \/ upstreams[n].local_socket}
           last == CHOOSE n \in served : \A m \in served : m <= n
<1>1. Typed /\ table.local = LocalOf(upstreams)
  BY SMTT(30) DEF StaticLower, ServerInv, Running, from_config
<1>2. host \in DOMAIN table.local /\ table.local[host] # NoUpstream
  BY EntryModes, LocalHosts, Zenon DEF StaticLower
<1>3. served # {} /\ table.local[host].tls_mode = upstreams[last].tls_mode
  <2>1. served # {}
    BY <1>1, <1>2, Zenon DEF LocalOf
  <2>2. table.local[host] = [target   |-> IF upstreams[last].local_socket THEN "unix" ELSE "tcp",
                             tls_mode |-> upstreams[last].tls_mode]
    BY <1>1, <1>2, Zenon DEF LocalOf
  <2> HIDE DEF served, last, host
  <2>3. PICK target : table.local[host] = [target |-> target, tls_mode |-> upstreams[last].tls_mode]
    BY <2>2, Zenon
  <2> QED
    BY SMTT(30), <2>1, <2>3
<1>4. PICK j \in DOMAIN upstreams : i = Len(hostnames) + j /\ Entries[i] = upstreams[j]
  BY SMTT(30), <1>1, EntriesAre
<1>5. served \subseteq {j}
  <2> SUFFICES ASSUME NEW n \in served PROVE n = j
    OBVIOUS
  <2>1. n \in DOMAIN upstreams /\ upstreams[n].host.host = host
    BY Zenon DEF to_ascii_lowercase
  <2>2. Len(hostnames) + n = i
    BY SMTT(30), <1>1, <2>1, EntriesAre, OneEntry
  <2> QED
    BY SMTT(30), <1>1, <1>4, <2>1, <2>2 DEF Typed
<1>6. j \in Nat
  BY SMTT(30), <1>1 DEF Typed
<1> HIDE DEF served
<1>7. served = {j}
  BY <1>3, <1>5
<1>8. last = j
  BY <1>6, <1>7, SMTT(30)
<1> QED
  BY <1>2, <1>3, <1>4, <1>8, Zenon

\* A host that no exact entry names is the upstream's of the pattern that covers it.
LEMMA PatternAnswers ==
    ASSUME StaticLower, Host \in Seq(STRING),
           NEW i \in EntriesFor(Entries, Host), Entries[i].host.host # Host
    PROVE  /\ Wild # NoUpstream /\ Wild.tls_mode = Entries[i].tls_mode /\ ~IsTunnel(i)
           /\ Host \notin terminated_hostnames /\ Host \notin table.offload
           /\ Host \notin DOMAIN table.local
<1>1. i \in DOMAIN Entries /\ ~\E j \in DOMAIN Entries : Entries[j].host.host = Host
  BY ZenonT(60) DEF EntriesFor
<1>2. /\ Typed /\ table = from_config(hostnames, upstreams)
      /\ validate_host_patterns(hostnames, upstreams)
  BY DEF StaticLower, ServerInv, Running, Valid, validate, hostnames, upstreams
<1>3. \A modes : Host \notin HostsInMode(Entries, modes)
  BY <1>1, Zenon DEF HostsInMode, to_ascii_lowercase
<1>4. Host \notin Hosts(hostnames) /\ Host \notin Hosts(upstreams)
  BY SMTT(30), <1>1, <1>2, EntriesAre DEF Hosts, to_ascii_lowercase
<1>5. Host \notin terminated_hostnames /\ Host \notin table.offload /\ ~NamedByConfig(table, Host)
  BY Zenon, <1>2, <1>3, <1>4, LocalHosts
     DEF terminated_hostnames, from_config, OffloadOf, Entries, NamedByConfig, StaticLower
<1>6. Wild = PatternUpstream(table, Host)
  BY <1>5, StaticAnswers
<1> DEFINE key == Entries[i].host.host
<1>7. \/ Len(Host) > 1 /\ key = Parent(Host)
      \/ key = CatchAll /\ ~(Len(Host) > 1 /\ \E j \in DOMAIN Entries : Entries[j].host.host = Parent(Host))
  BY <1>1, Zenon DEF EntriesFor
<1>8. ~IsTunnel(i)
  <2>1. key[1] = "*" /\ 1 \in DOMAIN key
    BY SMTT(30), <1>7 DEF CatchAll, Parent
  <2>2. i \notin DOMAIN hostnames
    <3> SUFFICES ASSUME i \in DOMAIN hostnames PROVE FALSE
      BY Zenon
    <3>1. hostnames[i].host.host = key
      BY <1>2, EntriesAre, Zenon
    <3> QED
      BY <1>2, <2>1, <3>1, Zenon DEF validate_host_patterns
  <2> QED
    BY <1>1, <1>2, <2>2, EntriesAre, SMTT(30)
<1>9. key \in DOMAIN table.local /\ table.local[key] # NoUpstream
      /\ table.local[key].tls_mode = Entries[i].tls_mode
  BY <1>1, <1>8, UpstreamModes
<1>10. FirstPattern(Host, DOMAIN table.local) = <<key>>
  <2>1. CASE Len(Host) > 1 /\ key = Parent(Host)
    BY <1>9, <2>1 DEF FirstPattern
  <2>2. CASE /\ key = CatchAll
             /\ ~(Len(Host) > 1 /\ \E j \in DOMAIN Entries : Entries[j].host.host = Parent(Host))
    <3>1. ASSUME Parent(Host) \in DOMAIN table.local
          PROVE  \E j \in DOMAIN Entries : Entries[j].host.host = Parent(Host)
      BY SMTT(30), <1>2, <3>1, LocalHosts, EntriesAre DEF Hosts, to_ascii_lowercase, StaticLower
    <3> QED
      BY <1>9, <2>2, <3>1, ZenonT(60) DEF FirstPattern
  <2> QED
    BY <1>7, <2>1, <2>2
<1>11. PatternUpstream(table, Host) = table.local[key]
  <2>1. <<key>> # <<>> /\ <<key>>[1] = key
    BY Zenon
  <2> QED
    BY <1>10, <2>1, Zenon DEF PatternUpstream
<1> QED
  BY <1>5, <1>6, <1>8, <1>9, <1>11 DEF NamedByConfig

\* The answers are those of the entry that the config gives the host to.
LEMMA EntryAnswers ==
    ASSUME StaticLower, Host \in Seq(STRING), NEW i \in EntriesFor(Entries, Host)
    PROVE  /\ i \in DOMAIN Entries /\ Entries[i].tls_mode \in TlsMode
           /\ Found = NoUpstream <=> IsTunnel(i)
           /\ ~IsTunnel(i) => Found.tls_mode = Entries[i].tls_mode /\ RoutesToUpstream
           /\ IsTunnel(i) => Entries[i].host.host = Host
           /\ IsTerminated <=> Terminates(Entries[i].tls_mode)
           /\ IsOffload <=> Entries[i].tls_mode = "tls_offload"
<1>1. i \in DOMAIN Entries /\ Entries[i].tls_mode \in TlsMode
  BY EntryModes, Zenon DEF EntriesFor
<1>2. CASE Entries[i].host.host = Host
  <2>1. /\ Host \in terminated_hostnames <=> Terminates(Entries[i].tls_mode)
        /\ Host \in table.offload <=> Entries[i].tls_mode = "tls_offload"
        /\ Host \in DOMAIN table.local <=> ~IsTunnel(i)
        /\ NamedByConfig(table, Host)
    BY <1>1, <1>2, EntryModes, Zenon DEF NamedByConfig
  <2>2. Wild = NoUpstream
    BY <2>1, StaticAnswers, Zenon
  <2>3. /\ IsTerminated <=> Terminates(Entries[i].tls_mode)
        /\ IsOffload <=> Entries[i].tls_mode = "tls_offload"
        /\ RoutesToUpstream <=> ~IsTunnel(i)
    BY <2>1, <2>2, StaticAnswers, Zenon DEF UpstreamIn
  <2>4. IsTunnel(i) => Found = NoUpstream
    BY <2>1, <2>2, StaticAnswers, Zenon
  <2>5. ~IsTunnel(i) => Found # NoUpstream /\ Found.tls_mode = Entries[i].tls_mode
    BY <1>1, <1>2, <2>1, StaticAnswers, UpstreamModes, ZenonT(60)
  <2> QED
    BY <1>1, <1>2, <2>3, <2>4, <2>5, Zenon
<1>3. CASE Entries[i].host.host # Host
  <2>1. /\ Wild # NoUpstream /\ Wild.tls_mode = Entries[i].tls_mode /\ ~IsTunnel(i)
        /\ Host \notin terminated_hostnames /\ Host \notin table.offload
        /\ Host \notin DOMAIN table.local
    BY <1>3, PatternAnswers, Zenon
  <2> QED
    BY <1>1, <2>1, StaticAnswers DEF UpstreamIn, Terminates
<1> QED
  BY <1>2, <1>3, Zenon

\* A host that no entry covers has no upstream.
LEMMA NoEntryAnswers ==
    ASSUME StaticLower, EntriesFor(Entries, Host) = {}
    PROVE  Found = NoUpstream
<1>1. /\ ~\E j \in DOMAIN Entries : Entries[j].host.host = Host
      /\ ~\E j \in DOMAIN Entries : Len(Host) > 1 /\ Entries[j].host.host = Parent(Host)
      /\ ~\E j \in DOMAIN Entries : Entries[j].host.host = CatchAll
  BY ZenonT(60) DEF EntriesFor
<1>2. \A k \in DOMAIN table.local : \E j \in DOMAIN Entries : Entries[j].host.host = k
  BY SMTT(30), LocalHosts, EntriesAre DEF StaticLower, ServerInv, Hosts, to_ascii_lowercase
<1>3. Host \notin DOMAIN table.local /\ FirstPattern(Host, DOMAIN table.local) = <<>>
  BY <1>1, <1>2 DEF FirstPattern
<1>4. PatternUpstream(table, Host) = NoUpstream
  BY <1>3, Zenon DEF PatternUpstream
<1> QED
  BY <1>3, <1>4, StaticAnswers

\* What was sent somewhere was sent where the config says.
LEMMA StaticIsTreated == Dispatch /\ StaticInv => StaticTreatment
<1> SUFFICES ASSUME Dispatch, StaticInv, ~dynamic, Sent,
                    \A i \in DOMAIN Entries : Entries[i].host.lower
             PROVE  /\ EntriesFor(Entries, Host) # {}
                    /\ \A i \in EntriesFor(Entries, Host) :
                          /\ conn.got.to = "tunnel" <=> IsTunnel(i)
                          /\ conn.got.tls_mode = Entries[i].tls_mode
                          /\ conn.via = "raw" <=> Entries[i].tls_mode = "passthrough"
                          /\ conn.via = "http" => Entries[i].tls_mode = "terminated"
                          /\ (conn.via = "plain" /\ Entries[i].tls_mode = "terminated") => IsTunnel(i)
  BY DEF StaticTreatment
<1>1. StaticLower /\ Host \in Seq(STRING)
  BY HostIsName, Zenon DEF Dispatch, ConnInv, StaticLower
<1>2. ASSUME conn.got.to = "tunnel"
      PROVE  \E j \in DOMAIN Entries : /\ Entries[j].host.host = Host
                                       /\ conn.got.tls_mode = Entries[j].tls_mode
  <2>1. conn.sni \in DOMAIN Grants /\ conn.got.tls_mode = Grants[conn.sni]
    BY <1>2 DEF StaticInv
  <2>2. PICK j \in DOMAIN hostnames : /\ hostnames[j].host = conn.sni
                                      /\ Grants[conn.sni] = hostnames[j].tls_mode
    BY <2>1, GrantsOfConfig
  <2> QED
    BY <2>1, <2>2, EntriesAre, Zenon DEF Dispatch, ServerInv, Host, to_ascii_lowercase
<1>3. EntriesFor(Entries, Host) # {}
  <2>1. CASE conn.got.to = "tunnel"
    BY <1>2, <2>1, ZenonT(60) DEF EntriesFor
  <2>2. CASE conn.got.to = "upstream"
    BY <1>1, <2>2, NoEntryAnswers DEF StaticInv
  <2> QED
    BY <2>1, <2>2, Zenon DEF Sent
<1>4. ASSUME NEW i \in EntriesFor(Entries, Host)
      PROVE  /\ conn.got.to = "tunnel" <=> IsTunnel(i)
             /\ conn.got.tls_mode = Entries[i].tls_mode
  <2>1. CASE conn.got.to = "upstream"
    BY <1>1, <2>1, EntryAnswers, Zenon DEF StaticInv
  <2>2. CASE conn.got.to = "tunnel"
    <3>1. IsTunnel(i) /\ Entries[i].host.host = Host /\ i \in DOMAIN Entries
      BY <1>1, <2>2, EntryAnswers, Zenon DEF StaticInv
    <3> QED
      BY <1>1, <1>2, <2>2, <3>1, OneEntry, Zenon
  <2> QED
    BY <2>1, <2>2, Zenon DEF Sent
<1>5. ASSUME NEW i \in EntriesFor(Entries, Host)
      PROVE  /\ conn.via = "raw" <=> Entries[i].tls_mode = "passthrough"
             /\ conn.via = "http" => Entries[i].tls_mode = "terminated"
             /\ (conn.via = "plain" /\ Entries[i].tls_mode = "terminated") => IsTunnel(i)
  <2>1. /\ conn.via # "raw" => IsTerminated
        /\ conn.via = "raw" => ~IsTerminated
        /\ conn.via = "http" => ~IsOffload
        /\ conn.via = "plain" => IsOffload \/ ~RoutesToUpstream
    BY DEF StaticInv, Routed
  <2> QED
    BY <1>1, <2>1, EntryAnswers, Zenon DEF TlsMode, Terminates
<1> QED
  BY <1>3, <1>4, <1>5, ZenonT(60)

\* On a static server a connection goes to the entry that the config gives its
\* host to, in the entry's mode, whatever tunnels do while it is handled
\* (handle_public and the RoutingTable's questions).
THEOREM StaticServersKeepToTheConfig == Spec => []StaticTreatment
<1>1. InitAll /\ Dispatch => StaticInv
  BY SMTT(30) DEF InitAll, InitConn, Dispatch, StaticInv, Routed, Sent, Nowhere
<1>2. StaticInv /\ Dispatch /\ Dispatch' /\ [Next]_vars => StaticInv'
  <2> SUFFICES ASSUME StaticInv, Dispatch, Dispatch', [Next]_vars PROVE StaticInv'
    OBVIOUS
  <2>1. CASE Handle
    BY <2>1, HandleStatic
  <2>2. CASE (ServerNext \/ UNCHANGED server) /\ UNCHANGED conn
    <3>1. /\ UNCHANGED <<conn, dynamic>> /\ Host' = Host /\ Grants' = Grants
          /\ terminated_hostnames' = terminated_hostnames
      BY <2>2, ServerKeeps, ServerConn, ConfigStays, ZenonT(60) DEF Dispatch, constants
    <3>2. CASE Running
      <4>1. table' = table
        BY <2>2, <3>2, ServerKeeps
      <4>2. /\ IsTerminated' = IsTerminated /\ IsOffload' = IsOffload /\ Found' = Found
            /\ RoutesToUpstream' = RoutesToUpstream
            /\ NamedByConfig(table, Host)' = NamedByConfig(table, Host)
        BY <3>1, <4>1, ZenonT(60) DEF IsTerminated, IsOffload, Found, RoutesToUpstream, NamedByConfig,
           is_terminated, is_offload, routes_to_upstream, LookupUpstream, wildcard_upstream,
           PatternUpstream
      <4> QED
        BY <3>1, <4>1, <4>2 DEF StaticInv, Routed, Sent
    <3>3. CASE conn.pc = "hello"
      <4>1. conn'.pc = "hello"
        BY <3>1, <3>3
      <4> QED
        BY SMTT(30), <4>1 DEF Dispatch, ConnInv, StaticInv, Routed, Sent, Nowhere
    <3> QED
      BY <2>2, <3>2, <3>3, ServerConn DEF Dispatch
  <2> QED
    BY <2>1, <2>2 DEF Next, vars
<1> QED
  BY <1>1, <1>2, StaticIsTreated, DispatchInvariance, PTL DEF Spec
=============================================================================
