----------------------------- MODULE ServerStart -----------------------------
(***************************************************************************)
(* What a tuyau-server makes of its config: TunnelServer::start and        *)
(* start_with, the routing table and the cert resolver of the public       *)
(* listener they build, and the dynamic seam (set_terminated_domains) that *)
(* changes the set of terminated hostnames and starts ACME for them, while *)
(* tunnels come and go.  PublicDispatch adds a public connection.          *)
(***************************************************************************)
EXTENDS HostRouting

CONSTANTS Starts,     \* the configs, each with its backend
          Token,      \* the tokens of clients
          GrantMode   \* the mode a dynamic backend grants each tunnel hostname in

\* HostnameEntry and UpstreamEntry, as far as the server looks at them.
Name == [host : Seq(STRING), lower : BOOLEAN]

HostnameEntry ==
    [host : Name, tls_mode : TlsMode, cert : {"none", "lone", "pair"}, client : STRING]

UpstreamEntry ==
    [host : Name, tls_mode : TlsMode, cert : {"none", "lone", "pair"},
     local_addr : BOOLEAN, local_socket : BOOLEAN]

ASSUME StartsAssumption ==
    \A s \in Starts : /\ s.config.hostnames \in Seq(HostnameEntry)
                      /\ s.config.upstreams \in Seq(UpstreamEntry)

VARIABLES
    config,      \* the config the server was started with
    dynamic,     \* started with a caller's backend
    domains,     \* the arguments that this caller gives to set_terminated_domains
    phase,       \* "starting", "running" or "refused"
    table,       \* the part of RoutingTable that never changes
    terminated,  \* RoutingTable::terminated
    inner,       \* hostname as granted -> mode, and whether a tunnel of it is open
    added,       \* AcmeController::added: domains with an ACME state of their own
    calls        \* set_terminated_domains calls between ensure and set_terminated

constants == <<config, dynamic, domains>>

server == <<constants, phase, table, terminated, inner, added, calls>>

hostnames == config.hostnames

upstreams == config.upstreams

Entries == hostnames \o upstreams

\* The config hosts that are terminated: AcmeController::static_domains.
terminated_hostnames == HostsInMode(Entries, {"terminated", "tls_offload"})

\* build_cert_resolver makes an ACME controller only for a config that
\* terminates something.
AcmeController == config.acme # "none" /\ terminated_hostnames # {}

Lowercase(names) == {to_ascii_lowercase(n) : n \in names}

Init ==
    /\ \E s \in Starts : config = s.config /\ dynamic = s.dynamic /\ domains = s.domains
    /\ phase = "starting"
    /\ table = from_config(<<>>, <<>>)
    /\ terminated = {}
    /\ inner = <<>>
    /\ added = {}
    /\ calls = {}

Start ==
    /\ phase = "starting"
    /\ IF dynamic THEN validate_dynamic(config) ELSE validate(config)
    /\ phase' = "running"
    /\ table' = from_config(hostnames, upstreams)
    /\ terminated' = TerminatedOf(hostnames, upstreams)
    /\ UNCHANGED <<constants, inner, added, calls>>

\* The config is invalid, or a file or a socket it names cannot be opened.
Refuse ==
    /\ phase = "starting"
    /\ phase' = "refused"
    /\ UNCHANGED <<constants, table, terminated, inner, added, calls>>
-----------------------------------------------------------------------------
(* Tunnels *)

\* The hostnames and modes that some tunnel is granted.
Grants ==
    IF dynamic THEN GrantMode
    ELSE LET granted == UNION {DOMAIN admit(config, token) : token \in Token}
         IN  [n \in granted |->
                 admit(config, CHOOSE token \in Token : n \in DOMAIN admit(config, token))[n]]

TunnelUp(n) ==
    /\ phase = "running"
    /\ inner' = [k \in DOMAIN inner \cup {n} |->
                    IF k = n THEN [tls_mode |-> Grants[n], open |-> TRUE] ELSE inner[k]]
    /\ UNCHANGED <<constants, phase, table, terminated, added, calls>>

TunnelCloses(n) ==
    /\ n \in DOMAIN inner
    /\ inner[n].open
    /\ inner' = [inner EXCEPT ![n].open = FALSE]
    /\ UNCHANGED <<constants, phase, table, terminated, added, calls>>

TunnelDown(n) ==
    /\ n \in DOMAIN inner
    /\ ~inner[n].open
    /\ inner' = [k \in DOMAIN inner \ {n} |-> inner[k]]
    /\ UNCHANGED <<constants, phase, table, terminated, added, calls>>
-----------------------------------------------------------------------------
(* A faulty first half of set_terminated_domains: the set is replaced        *)
(* before ACME is started for its new members.                               *)
SetFirst(names) ==
    /\ phase = "running" /\ dynamic
    /\ terminated' = Lowercase(names)
    /\ calls' = calls \cup {names}
    /\ UNCHANGED <<constants, phase, table, inner, added>>
-----------------------------------------------------------------------------
(* TunnelServer::set_terminated_domains *)

\* AcmeController::ensure, under its own lock until each domain that the
\* combined cert does not name has its ACME state (build_acme_state cannot fail).
Ensure(names) ==
    /\ phase = "running" /\ dynamic
    /\ added' = IF AcmeController
                THEN added \cup (Lowercase(names) \ terminated_hostnames)
                ELSE added
    /\ calls' = calls \cup {names}
    /\ UNCHANGED <<constants, phase, table, terminated, inner>>

\* RoutingTable::set_terminated
SetTerminated(names) ==
    /\ names \in calls
    /\ terminated' = Lowercase(names)
    /\ calls' = calls \ {names}
    /\ UNCHANGED <<constants, phase, table, inner, added>>

ServerNext ==
    \/ Start \/ Refuse
    \/ \E n \in DOMAIN Grants : TunnelUp(n) \/ TunnelCloses(n) \/ TunnelDown(n)
    \/ \E names \in domains : Ensure(names) \/ SetTerminated(names)
-----------------------------------------------------------------------------
(* The cert that a TLS handshake is answered with: where it comes from and   *)
(* the hosts or patterns that it is for.                                     *)

\* What the server-wide cert is asked to name: no pattern, and no host that a
\* cert of the config's entries covers.
shared_hostnames ==
    {h \in terminated_hostnames :
        (\A k \in DOMAIN h : h[k] # "*") /\ select(Entries, h) = <<>>}

\* The cert of build_cert_resolver.  What a cert file is for, the server does not
\* look at.
ServerWide ==
    IF AcmeController /\ shared_hostnames # {}
    THEN [from |-> "acme", names |-> shared_hostnames]
    ELSE IF config.tls_cert_file /\ ~AcmeController
    THEN [from |-> "file", names |-> {}]
    ELSE [from |-> "self_signed", names |-> shared_hostnames]

\* MultiResolver::resolve: a provisioned host has an ACME cert of its own.
SharedResolver(host) ==
    IF host \in added THEN [from |-> "acme", names |-> {host}] ELSE ServerWide

\* HostCertResolver::resolve
resolve(host) ==
    LET own == select(Entries, host)
    IN  IF own # <<>> THEN [from |-> "entry", names |-> {own[1]}] ELSE SharedResolver(host)
=============================================================================
