--------------------------- MODULE MCPublicDispatch --------------------------
(* Small configs: a tunnel hostname, and up to two upstreams that may name   *)
(* the same host, its wildcard or everything.                                *)
EXTENDS PublicDispatch

Ax == <<"a", "x">>

Bx == <<"b", "x">>

Cx == <<"c", "x">>

\* a.x with a dot at its end.
AxDot == <<"a", "x", "">>

Tunnel(mode, cert, client) ==
    [host |-> Spelled(Ax, TRUE), tls_mode |-> mode, cert |-> cert, client |-> client]

Upstream(host, mode, cert) ==
    [host |-> Spelled(host, TRUE), tls_mode |-> mode, cert |-> cert,
     local_addr |-> TRUE, local_socket |-> FALSE]

Plain ==
    [clients |-> <<[name |-> "c", token |-> 1]>>, hostnames |-> <<>>, upstreams |-> <<>>,
     acme |-> "none", tls_cert_file |-> FALSE, client_ca_file |-> FALSE]

Config(hosts, ups) == [Plain EXCEPT !.hostnames = hosts, !.upstreams = ups]

UpTo2(S) == {<<>>} \cup {<<u>> : u \in S} \cup {<<u, v>> : u \in S, v \in S}

\* Which entry, in which mode.
Routings ==
    {Config(hosts, ups) :
        hosts \in {<<>>} \cup {<<Tunnel(m, "none", "c")>> : m \in TlsMode},
        ups \in UpTo2({Upstream(h, m, "none") : h \in {Ax, <<"*", "x">>, <<"*">>}, m \in TlsMode})}

\* Whose cert.
Certs ==
    {Config(<<Tunnel(m, cert, "c")>>, ups) :
        m \in {"terminated", "tls_offload"}, cert \in {"none", "pair"},
        ups \in UpTo2({Upstream(h, "terminated", cert) :
                           h \in {<<"*", "x">>, <<"*">>, Bx}, cert \in {"none", "pair"}})}
    \cup {Config(<<Tunnel("terminated", cert, "c")>>, <<u, Upstream(AxDot, "terminated", "pair")>>) :
              cert \in {"none", "pair"},
              u \in {Upstream(h, "terminated", "pair") : h \in {<<"*", "x">>, <<"*", "x", "">>, <<"*">>}}}

\* What is refused: hosts, patterns, targets, certs, clients and the ACME contact.
Odd ==
    LET u == Upstream(<<"*">>, "passthrough", "none")
    IN  {Config(<<>>, <<v>>) : v \in {Upstream(<<"*", "*">>, "passthrough", "none"),
                                      Upstream(<<"*", "">>, "passthrough", "none"),
                                      Upstream(Ax, "terminated", "lone"),
                                      Upstream(Ax, "passthrough", "pair"),
                                      [u EXCEPT !.local_addr = FALSE],
                                      [u EXCEPT !.local_socket = TRUE]}}
        \cup {Config(<<Tunnel("terminated", "none", "d")>>, <<>>),
              [Plain EXCEPT !.acme = "other"], [Plain EXCEPT !.clients = <<>>]}

\* Two spellings of one host, a token shared by two clients, a Unix socket, client
\* certs, a cert file, ACME.
Special ==
    {[Plain EXCEPT !.hostnames = <<Tunnel("terminated", "none", "c"),
                                   [Tunnel("passthrough", "none", "c") EXCEPT !.host.lower = FALSE]>>],
     [Plain EXCEPT !.hostnames = <<Tunnel("terminated", "none", "c")>>,
                   !.clients = <<[name |-> "c", token |-> 1], [name |-> "d", token |-> 1]>>],
     [Plain EXCEPT !.upstreams = <<[Upstream(Ax, "terminated", "none") EXCEPT
                                       !.local_addr = FALSE, !.local_socket = TRUE]>>],
     [Plain EXCEPT !.upstreams = <<[Upstream(Ax, "tls_offload", "none") EXCEPT !.host.lower = FALSE],
                                   Upstream(Ax, "terminated", "none")>>]}
    \cup {[Config(<<Tunnel(m, "none", "c")>>, <<>>) EXCEPT
              !.client_ca_file = ca, !.tls_cert_file = file, !.acme = acme] :
              m \in TlsMode, ca \in BOOLEAN, file \in BOOLEAN, acme \in {"none", "mailto"}}

\* Configs under a caller's backend.
Seam ==
    {[Config(hosts, ups) EXCEPT !.acme = acme] :
        hosts \in {<<>>, <<Tunnel("tls_offload", "none", "c")>>},
        ups \in {<<>>} \cup {<<Upstream(h, m, "none")>> : h \in {<<"*", "x">>, Bx}, m \in TlsMode},
        acme \in {"none", "mailto"}}

\* A backend that keeps the config's hostnames a.x and b.x, and one that forgets
\* them.
Keeping ==
    LET own == {Spelled(Ax, FALSE), Spelled(Bx, TRUE)}
    IN  {own, own \cup {Spelled(Cx, TRUE)}}

Forgetting == {{Spelled(Cx, TRUE)}, {Spelled(Cx, FALSE), Spelled(Bx, TRUE)}}

MCStarts ==
    {[config |-> c, dynamic |-> FALSE, domains |-> {}] :
        c \in Routings \cup Certs \cup Odd \cup Special}
    \cup {[config |-> c, dynamic |-> TRUE, domains |-> D] :
             c \in Seam, D \in {Keeping, Forgetting}}

\* The names that clients ask for: the tunnel's, in both spellings and with a dot at
\* its end, one that only a pattern or an upstream covers, and one that only a
\* caller's backend grants.
MCSni == {Spelled(Ax, TRUE), Spelled(Ax, FALSE), Spelled(AxDot, TRUE),
          Spelled(Bx, TRUE), Spelled(Cx, TRUE)}

\* A dynamic backend that grants a.x in passthrough mode and c.x in terminated
\* mode.
MCGrantMode ==
    [n \in {Spelled(Ax, TRUE), Spelled(Cx, TRUE)} |->
        IF n.host = Ax THEN "passthrough" ELSE "terminated"]
=============================================================================
