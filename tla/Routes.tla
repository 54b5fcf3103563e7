------------------------------- MODULE Routes -------------------------------
(***************************************************************************)
(* The tunnel half of the routing table of tuyau-server (routes.rs): which *)
(* QUIC connections serve which hostname, and how a grant, the end of a    *)
(* connection and a revocation change that.  These are pure operators on   *)
(* the value guarded by the table's write lock; the modules that EXTEND    *)
(* this one say who calls them, and when.                                  *)
(*                                                                         *)
(* The order of HostRoutes::conns matters only to the round-robin cursor,  *)
(* which module RoundRobin models; here conns is a set.                    *)
(***************************************************************************)
CONSTANTS Conn,     \* connections, named by their stable_id
          Client,   \* client identities
          Host,     \* public hostnames
          NoEntry   \* the value of a host that has no entry in the table

TlsMode == {"terminated", "passthrough", "tls_offload"}

Balance == {"last_write_wins", "round_robin"}

HostRoutes == [client_name : Client, tls_mode : TlsMode, conns : SUBSET Conn]

\* ClientGrant: what the backend lets a client serve.
ClientGrant == [client_name : Client,
                hostnames   : UNION {[S -> TlsMode] : S \in SUBSET Host},
                balance     : Balance]

ASSUME NoEntryAssumption == NoEntry \notin HostRoutes

EmptyTable == [h \in Host |-> NoEntry]

ConnsOf(inner, h) == IF inner[h] = NoEntry THEN {} ELSE inner[h].conns

Routed(inner, c) == \E h \in Host : c \in ConnsOf(inner, h)
-----------------------------------------------------------------------------
(* Faulty variants of the operators below. *)

\* install keeps the connections of an incumbent with another identity.
KeptForgettingOwner(entry, grant) ==
    IF entry = NoEntry \/ grant.balance = "last_write_wins" THEN {} ELSE entry.conns

\* install ignores the balance policy and always adds.
KeptAlwaysAdding(entry, grant) ==
    IF entry = NoEntry \/ entry.client_name # grant.client_name THEN {} ELSE entry.conns

\* kick stops at the first of the client's hosts.
OwnedByFirst(inner, client) ==
    LET owned == {h \in Host : inner[h] # NoEntry /\ inner[h].client_name = client}
    IN  IF owned = {} THEN {} ELSE {CHOOSE h \in owned : TRUE}

\* kick returns one connection of each of the client's hosts.
KickedFirst(inner, client) ==
    {CHOOSE c \in ConnsOf(inner, h) : TRUE :
        h \in {g \in Host : inner[g] # NoEntry /\ inner[g].client_name = client}}
-----------------------------------------------------------------------------
(* RoutingTable::install *)

\* The connections an entry keeps when grant is installed on it: none of a
\* different identity, none under last-write-wins.
Kept(entry, grant) ==
    IF \/ entry = NoEntry
       \/ entry.client_name # grant.client_name
       \/ grant.balance = "last_write_wins"
    THEN {}
    ELSE entry.conns

Install(inner, grant, c) ==
    [h \in Host |->
        IF h \in DOMAIN grant.hostnames
        THEN [client_name |-> grant.client_name,
              tls_mode    |-> grant.hostnames[h],
              conns       |-> Kept(inner[h], grant) \cup {c}]
        ELSE inner[h]]

(* A faulty variant of Displaced. *)

\* install does not report the connections it drops.
DisplacedForgotten(inner, grant, c) == {}

\* The connections install returns for the caller to close.
Displaced(inner, grant, c) ==
    UNION {IF inner[h] # NoEntry /\ inner[h].client_name # grant.client_name
           THEN inner[h].conns
           ELSE ConnsOf(inner, h) \ (Kept(inner[h], grant) \cup {c}) :
              h \in DOMAIN grant.hostnames}

(* RoutingTable::remove_conn *)
RemoveConn(inner, c) ==
    [h \in Host |-> IF ConnsOf(inner, h) \subseteq {c} THEN NoEntry
                    ELSE [inner[h] EXCEPT !.conns = @ \ {c}]]

(* RoutingTable::kick: the table without the client's hosts, and the        *)
(* connections that served them.                                            *)
OwnedBy(inner, client) ==
    {h \in Host : inner[h] # NoEntry /\ inner[h].client_name = client}

Kick(inner, client) ==
    [h \in Host |-> IF h \in OwnedBy(inner, client) THEN NoEntry ELSE inner[h]]

Kicked(inner, client) == UNION {ConnsOf(inner, h) : h \in OwnedBy(inner, client)}
=============================================================================
