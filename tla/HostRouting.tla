----------------------------- MODULE HostRouting -----------------------------
(***************************************************************************)
(* From the config to a decision about one SNI (config.rs, routes.rs,      *)
(* host_certs.rs): which configs are valid, the routing table they make,   *)
(* and what the table answers.                                             *)
(*                                                                         *)
(* A lowercase hostname or pattern is the sequence of its labels: a.x is   *)
(* <<"a", "x">>, *.x is <<"*", "x">> and the catch-all is <<"*">>.  A name *)
(* as somebody spelled it also says whether the spelling is lowercase; all *)
(* other spellings count as one.  A dot at the end is an empty last label. *)
(***************************************************************************)
EXTENDS Naturals, Sequences, FiniteSets

TlsMode == {"terminated", "passthrough", "tls_offload"}

Spelled(host, lower) == [host |-> host, lower |-> lower]

to_ascii_lowercase(name) == name.host

Terminates(mode) == mode \in {"terminated", "tls_offload"}

Hosts(entries) == {to_ascii_lowercase(entries[i].host) : i \in DOMAIN entries}

HostsInMode(entries, modes) ==
    {to_ascii_lowercase(entries[i].host) : i \in {j \in DOMAIN entries : entries[j].tls_mode \in modes}}
-----------------------------------------------------------------------------
(* Faulty variants of the definitions below. *)

\* A tunnel hostname that no tunnel serves falls back to a pattern.
NamedByUpstreams(t, host) == host \in DOMAIN t.local
-----------------------------------------------------------------------------
(* ServerConfig::validate and validate_dynamic. *)

Distinct(entries) ==
    \A i, j \in DOMAIN entries : entries[i].host = entries[j].host => i = j

\* An upstream names exactly one target.
validate_upstream_targets(upstreams) ==
    \A i \in DOMAIN upstreams : upstreams[i].local_addr # upstreams[i].local_socket

\* A tunnel hostname is a name; an upstream host is a name, *.name or *.  Empty
\* names are refused: the label of "" is "".
validate_host_patterns(hostnames, upstreams) ==
    /\ \A i \in DOMAIN hostnames : \A k \in DOMAIN hostnames[i].host.host :
          hostnames[i].host.host[k] # "*"
    /\ \A i \in DOMAIN upstreams : \A k \in DOMAIN upstreams[i].host.host :
          k > 1 => upstreams[i].host.host[k] # "*"
    /\ \A i \in DOMAIN upstreams : upstreams[i].host.host \notin {<<"">>, <<"*", "">>}

\* cert says whether an entry names a cert and its key, only one of them, or
\* neither.  A pair is for a mode that terminates TLS.
validate_host_certs(entries) ==
    \A i \in DOMAIN entries :
        /\ entries[i].cert # "lone"
        /\ entries[i].cert = "pair" => Terminates(entries[i].tls_mode)

\* acme is "none", or an [acme] section whose contact is a mailto: URL or not.
validate_acme(config) == config.acme \in {"none", "mailto"}

validate(config) ==
    /\ config.clients # <<>> \/ config.upstreams # <<>>
    /\ \A i, j \in DOMAIN config.clients :
          config.clients[i].name = config.clients[j].name => i = j
    /\ Distinct(config.hostnames \o config.upstreams)
    /\ validate_upstream_targets(config.upstreams)
    /\ validate_host_patterns(config.hostnames, config.upstreams)
    /\ validate_host_certs(config.hostnames \o config.upstreams)
    /\ \A i \in DOMAIN config.hostnames :
          \E j \in DOMAIN config.clients : config.hostnames[i].client = config.clients[j].name
    /\ validate_acme(config)

\* With a caller's backend, clients and hostnames are the backend's business.
validate_dynamic(config) ==
    /\ Distinct(config.upstreams)
    /\ validate_upstream_targets(config.upstreams)
    /\ validate_host_patterns(config.hostnames, config.upstreams)
    /\ validate_host_certs(config.hostnames \o config.upstreams)
    /\ validate_acme(config)
-----------------------------------------------------------------------------
(* StaticBackend::admit: the hostnames, with their modes, that a tunnel with *)
(* this token is granted.  Of several clients with one token the last wins.  *)
admit(config, token) ==
    LET matched == {i \in DOMAIN config.clients : config.clients[i].token = token}
        client  == config.clients[CHOOSE i \in matched : \A j \in matched : j <= i]
        granted == {i \in DOMAIN config.hostnames :
                       matched # {} /\ config.hostnames[i].client = client.name}
    IN  [n \in {config.hostnames[i].host : i \in granted} |->
            config.hostnames[CHOOSE i \in granted : config.hostnames[i].host = n].tls_mode]
-----------------------------------------------------------------------------
(* RoutingTable::from_config *)

\* Of two upstreams with one lowercase host, the later one stays; one without a
\* target is skipped.
LocalOf(upstreams) ==
    LET served(k) == {i \in DOMAIN upstreams :
                         /\ to_ascii_lowercase(upstreams[i].host) = k
                         /\ upstreams[i].local_addr \/ upstreams[i].local_socket}
        last(k)   == CHOOSE i \in served(k) : \A j \in served(k) : j <= i
    IN  [k \in {h \in Hosts(upstreams) : served(h) # {}} |->
            [target   |-> IF upstreams[last(k)].local_socket THEN "unix" ELSE "tcp",
             tls_mode |-> upstreams[last(k)].tls_mode]]

OffloadOf(hostnames, upstreams) == HostsInMode(hostnames \o upstreams, {"tls_offload"})

TerminatedOf(hostnames, upstreams) ==
    HostsInMode(hostnames \o upstreams, {"terminated", "tls_offload"})

\* The part of the table that never changes; terminated and inner do.
from_config(hostnames, upstreams) ==
    [local        |-> LocalOf(upstreams),
     tunnel_hosts |-> Hosts(hostnames),
     offload      |-> OffloadOf(hostnames, upstreams)]
-----------------------------------------------------------------------------
(* What the table answers: t is the constant part, terminated the set of    *)
(* hosts to terminate, inner the tunnel hostnames as their grants spell     *)
(* them, host a lowercase host.                                             *)

\* host_patterns: the host, the wildcard of its parent, if it has one, and the
\* catch-all.  The first of these among keys, as a sequence of at most one, without
\* the host itself (skip(1).find_map) or with it (find_map).
Parent(host) == <<"*">> \o Tail(host)

CatchAll == <<"*">>

FirstPattern(host, keys) ==
    IF Len(host) > 1 /\ Parent(host) \in keys THEN <<Parent(host)>>
    ELSE IF CatchAll \in keys THEN <<CatchAll>> ELSE <<>>

FirstMatch(host, keys) == IF host \in keys THEN <<host>> ELSE FirstPattern(host, keys)

NoUpstream == [target |-> "none", tls_mode |-> "none"]

\* The first two and the third condition under which an exact entry names host.
NamedByConfig(t, host) == host \in DOMAIN t.local \cup t.tunnel_hosts

NamedByTunnel(inner, host) == Spelled(host, TRUE) \in inner

PatternUpstream(t, host) ==
    LET hit == FirstPattern(host, DOMAIN t.local)
    IN  IF hit = <<>> THEN NoUpstream ELSE t.local[hit[1]]

wildcard_upstream(t, terminated, inner, host) ==
    IF NamedByConfig(t, host) \/ host \in terminated \/ NamedByTunnel(inner, host)
    THEN NoUpstream
    ELSE PatternUpstream(t, host)

UpstreamIn(up, modes) == up # NoUpstream /\ up.tls_mode \in modes

is_terminated(t, terminated, inner, host) ==
    \/ host \in terminated
    \/ UpstreamIn(wildcard_upstream(t, terminated, inner, host), {"terminated", "tls_offload"})

is_offload(t, terminated, inner, host) ==
    \/ host \in t.offload
    \/ UpstreamIn(wildcard_upstream(t, terminated, inner, host), {"tls_offload"})

routes_to_upstream(t, terminated, inner, host) ==
    host \in DOMAIN t.local \/ wildcard_upstream(t, terminated, inner, host) # NoUpstream

LookupUpstream(t, terminated, inner, host) ==
    IF host \in DOMAIN t.local THEN t.local[host]
    ELSE wildcard_upstream(t, terminated, inner, host)
-----------------------------------------------------------------------------
(* HostCerts: the entries with a cert of their own, by lowercase host. *)

CertHosts(entries) ==
    {to_ascii_lowercase(entries[i].host) : i \in {j \in DOMAIN entries : entries[j].cert = "pair"}}

\* A faulty choice: the host is looked up with its trailing dots.
SelectUntrimmed(entries, host) == FirstMatch(host, CertHosts(entries))

\* trim_end_matches('.'): a dot at the end is an empty last label.
WithoutFinalDots(host) ==
    LET named == {k \in DOMAIN host : host[k] # ""}
    IN  IF named = {} THEN <<"">>
        ELSE SubSeq(host, 1, CHOOSE k \in named : \A j \in named : j <= k)

\* The entry whose cert is presented for host: a sequence of at most one key.  The
\* keys keep their dots, and so do the hosts that the routing table looks up.
select(entries, host) == FirstMatch(WithoutFinalDots(host), CertHosts(entries))
-----------------------------------------------------------------------------
(* The reference that the properties compare these answers with. *)

\* The entry that the config gives host to, most specific first: a tunnel
\* hostname or an upstream of that name, else the upstream for its parent's
\* wildcard, else the catch-all upstream.
EntriesFor(entries, host) ==
    LET exact == {i \in DOMAIN entries : entries[i].host.host = host}
        wild  == {i \in DOMAIN entries : /\ Len(host) > 1
                                         /\ entries[i].host.host = Parent(host)}
        any   == {i \in DOMAIN entries : entries[i].host.host = CatchAll}
    IN  IF exact # {} THEN exact ELSE IF wild # {} THEN wild ELSE any
=============================================================================
