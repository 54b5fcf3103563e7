--------------------------- MODULE MCTunnelServer ---------------------------
(* Small instances of TunnelServer. *)
EXTENDS TunnelServerProps

CONSTANTS alice, bob, h1, h2

Give(client, hosts, mode, balance) ==
    [client_name |-> client, hostnames |-> [h \in hosts |-> mode], balance |-> balance]

\* alice replaces her tunnels, bob balances over his, and the backend moves
\* each host from one to the other; bob may also be admitted with no hostname.
MCGrants == {Give(alice, {h1, h2}, "terminated", "last_write_wins"),
             Give(bob, {h1, h2}, "passthrough", "round_robin"),
             Give(bob, {h2}, "terminated", "round_robin"),
             Give(bob, {}, "terminated", "round_robin")}
=============================================================================
