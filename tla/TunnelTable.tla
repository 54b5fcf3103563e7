----------------------------- MODULE TunnelTable -----------------------------
(***************************************************************************)
(* What the tunnel side of tuyau-server promises to the clients and to the *)
(* public side, without handlers, locks or tasks: a tunnel goes up with    *)
(* its grant, and it serves all its hostnames until its connection ends,   *)
(* a grant that conflicts with its own goes up, or its client is revoked.  *)
(* Each of these is one step.                                              *)
(***************************************************************************)
CONSTANTS Conn, Client, Grants, NoGrant

VARIABLES open,  \* the connections that are open
          live   \* the grant each connection serves, NoGrant for none

vars == <<open, live>>

Serving(h) == {c \in Conn : live[c] # NoGrant /\ h \in DOMAIN live[c].hostnames}

\* A grant drives out a tunnel with which it shares a hostname, unless the two
\* are of one client and the newcomer is content to share.
Ousts(new, old) ==
    /\ old # NoGrant
    /\ DOMAIN new.hostnames \cap DOMAIN old.hostnames # {}
    /\ new.client_name # old.client_name \/ new.balance = "last_write_wins"

Init ==
    /\ open = {}
    /\ live = [c \in Conn |-> NoGrant]

Connect(c) ==
    /\ c \notin open
    /\ open' = open \cup {c}
    /\ UNCHANGED live

Close(c) ==
    /\ c \in open
    /\ open' = open \ {c}
    /\ live' = [live EXCEPT ![c] = NoGrant]

\* A tunnel whose connection ends while its grant is being installed drives out
\* the others all the same.
Up(c, g) ==
    /\ live[c] = NoGrant
    /\ LET mine == IF c \in open /\ DOMAIN g.hostnames # {} THEN g ELSE NoGrant
           left(d) == IF Ousts(g, live[d]) THEN NoGrant ELSE live[d]
       IN  live' = [d \in Conn |-> IF d = c THEN mine ELSE left(d)]
    /\ UNCHANGED open

Revoke(client) ==
    /\ live' = [c \in Conn |->
                   IF live[c] # NoGrant /\ live[c].client_name = client
                   THEN NoGrant ELSE live[c]]
    /\ UNCHANGED open

Shutdown ==
    /\ open' = {}
    /\ live' = [c \in Conn |-> NoGrant]

Next ==
    \/ \E c \in Conn : Connect(c) \/ Close(c)
    \/ \E c \in Conn, g \in Grants : Up(c, g)
    \/ \E client \in Client : Revoke(client)
    \/ Shutdown

Spec == Init /\ [][Next]_vars
=============================================================================
