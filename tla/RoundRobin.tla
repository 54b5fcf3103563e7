----------------------------- MODULE RoundRobin -----------------------------
(***************************************************************************)
(* RoutingTable::lookup on one hostname (routes.rs): public connections    *)
(* pick a tunnel by advancing a shared cursor, while tunnels come, close   *)
(* and go.  A lookup holds the read lock from its first probe to its last, *)
(* so lookups run together but install, remove_conn and kick wait for them;*)
(* a connection may close at any time.                                     *)
(*                                                                         *)
(* An iteration of the loop is one action: closing a connection and        *)
(* advancing the cursor commute, so nothing can happen in between that     *)
(* could not have happened before.                                         *)
(***************************************************************************)
EXTENDS Naturals, Sequences, FiniteSets

CONSTANTS Conn,         \* connections
          Lookup,       \* public connections being routed
          None,         \* the result of a lookup that found no tunnel
          CursorBound   \* the cursor values explored; the code wraps at 2^64

ASSUME RoundRobinAssumption == None \notin Conn /\ CursorBound \in Nat

VARIABLES
    conns,     \* HostRoutes::conns, empty when the host has no entry
    cursor,    \* HostRoutes::cursor
    closed,    \* connections in conns whose close_reason is set
    left,      \* iterations each running lookup has left, 0 when it is not running
    result,    \* what the last lookup of each public connection returned
    disturbed, \* history: running lookups during which another one advanced the cursor
    served     \* history: lookups each tunnel won since conns or closed changed

lookupVars == <<conns, cursor, closed, left, result, disturbed, served>>

Members == {conns[i] : i \in DOMAIN conns}

\* The sequence s without its i-th element.
Without(s, i) == [j \in 1..(Len(s) - 1) |-> IF j < i THEN s[j] ELSE s[j + 1]]

Running == {p \in Lookup : left[p] > 0}

NoneServed == [c \in Conn |-> 0]

InitLookup ==
    /\ conns = <<>>
    /\ cursor = 0
    /\ closed = {}
    /\ left = [p \in Lookup |-> 0]
    /\ result = [p \in Lookup |-> None]
    /\ disturbed = {}
    /\ served = NoneServed
-----------------------------------------------------------------------------
(* Faulty variants. *)

\* The loop stops one tunnel early.
BeginShort(p) ==
    /\ left[p] = 0
    /\ cursor + Len(conns) * Cardinality(Lookup) <= CursorBound
    /\ left' = [left EXCEPT ![p] = IF Len(conns) > 1 THEN Len(conns) - 1 ELSE Len(conns)]
    /\ result' = [result EXCEPT ![p] = None]
    /\ disturbed' = disturbed \ {p}
    /\ UNCHANGED <<conns, cursor, closed, served>>

\* The cursor only advances past closed tunnels.
ProbeSticky(p) ==
    /\ left[p] > 0
    /\ LET c == conns[(cursor % Len(conns)) + 1] IN
       IF c \in closed
       THEN /\ left' = [left EXCEPT ![p] = @ - 1]
            /\ cursor' = cursor + 1
            /\ UNCHANGED <<result, served>>
       ELSE /\ left' = [left EXCEPT ![p] = 0]
            /\ result' = [result EXCEPT ![p] = c]
            /\ served' = [served EXCEPT ![c] = @ + 1]
            /\ cursor' = cursor
    /\ disturbed' = disturbed \cup (Running \ {p})
    /\ UNCHANGED <<conns, closed>>
-----------------------------------------------------------------------------
(* The writers, which hold the write lock. *)

\* install under round-robin: the connection joins the others, once, however
\* often the grant lists the hostname.
InstallAdds(c) ==
    /\ Running = {}
    /\ c \notin closed
    /\ IF c \in Members
       THEN UNCHANGED <<conns, served>>
       ELSE conns' = Append(conns, c) /\ served' = NoneServed
    /\ UNCHANGED <<cursor, closed, left, result, disturbed>>

\* install under last-write-wins, or by another client: the connection replaces
\* the others.  The entry stays, and with it the cursor.
InstallReplaces(c) ==
    /\ Running = {}
    /\ conns # <<>>
    /\ c \notin Members
    /\ conns' = <<c>>
    /\ closed' = {}
    /\ served' = NoneServed
    /\ UNCHANGED <<cursor, left, result, disturbed>>

\* remove_conn: an entry left without connections goes, and its cursor with it.
Remove(c) ==
    /\ Running = {}
    /\ \E i \in DOMAIN conns : conns[i] = c /\ conns' = Without(conns, i)
    /\ cursor' = IF conns' = <<>> THEN 0 ELSE cursor
    /\ closed' = closed \ {c}
    /\ served' = NoneServed
    /\ UNCHANGED <<left, result, disturbed>>

\* kick drops the whole entry.
KickHost ==
    /\ Running = {}
    /\ conns # <<>>
    /\ conns' = <<>>
    /\ cursor' = 0
    /\ closed' = {}
    /\ served' = NoneServed
    /\ UNCHANGED <<left, result, disturbed>>

Close(c) ==
    /\ c \in Members \ closed
    /\ closed' = closed \cup {c}
    /\ served' = NoneServed
    /\ UNCHANGED <<conns, cursor, left, result, disturbed>>
-----------------------------------------------------------------------------
(* RoutingTable::lookup *)

\* The lookup takes the read lock; without an entry it ends at once.
Begin(p) ==
    /\ left[p] = 0
    /\ cursor + Len(conns) * Cardinality(Lookup) <= CursorBound
    /\ left' = [left EXCEPT ![p] = Len(conns)]
    /\ result' = [result EXCEPT ![p] = None]
    /\ disturbed' = disturbed \ {p}
    /\ UNCHANGED <<conns, cursor, closed, served>>

\* One iteration: fetch_add, then the tunnel it points at wins if it is open.
Probe(p) ==
    /\ left[p] > 0
    /\ cursor' = cursor + 1
    /\ LET c == conns[(cursor % Len(conns)) + 1] IN
       IF c \in closed
       THEN /\ left' = [left EXCEPT ![p] = @ - 1]
            /\ UNCHANGED <<result, served>>
       ELSE /\ left' = [left EXCEPT ![p] = 0]
            /\ result' = [result EXCEPT ![p] = c]
            /\ served' = [served EXCEPT ![c] = @ + 1]
    /\ disturbed' = disturbed \cup (Running \ {p})
    /\ UNCHANGED <<conns, closed>>

NextLookup ==
    \/ \E c \in Conn : InstallAdds(c) \/ InstallReplaces(c) \/ Remove(c) \/ Close(c)
    \/ KickHost
    \/ \E p \in Lookup : Begin(p) \/ Probe(p)

LookupSpec == InitLookup /\ [][NextLookup]_lookupVars
-----------------------------------------------------------------------------
\* The last iteration of a lookup that returns None.
GivesUp(p) == left[p] = 1 /\ left'[p] = 0 /\ result'[p] = None

\* Every variable holds a value of its type; a connection is in conns once.
TypeOK ==
    /\ conns \in Seq(Conn)
    /\ \A i, j \in DOMAIN conns : conns[i] = conns[j] => i = j
    /\ cursor \in Nat
    /\ closed \subseteq Members
    /\ left \in [Lookup -> 0..Len(conns)]
    /\ result \in [Lookup -> Conn \cup {None}]
    /\ disturbed \subseteq Lookup
    /\ served \in [Conn -> Nat]

\* "Successive lookups cycle through them": as long as the same tunnels stay
\* open, none of them gets two public connections more than another, however
\* the lookups interleave and wherever the cursor stood before.
RoundRobinSpread ==
    closed = {} => \A c, d \in Members : served[c] <= served[d] + 1

\* A lookup that no other lookup of the host interrupts misses no open tunnel:
\* it returns None only when every tunnel of the host is closed.
UndisturbedFinds ==
    [][\A p \in Lookup : GivesUp(p) /\ p \notin disturbed => Members = closed]_lookupVars

\* Why UndisturbedFinds holds: the tunnels that an undisturbed lookup has probed
\* are those just behind the cursor, and they are closed.
SeenClosed ==
    \A p \in Lookup : left[p] > 0 /\ p \notin disturbed =>
        \A j \in 1..(Len(conns) - left[p]) :
            j <= cursor /\ conns[((cursor - j) % Len(conns)) + 1] \in closed

\* The tunnel at the cursor value at.
TunnelAt(at) == conns[(at % Len(conns)) + 1]

\* Why RoundRobinSpread holds: the tunnels, in the order in which the cursor will
\* come to them, have won ever more lookups, the last one at most one more than
\* the first.
InTurn ==
    closed = {} => \A j, k \in 0..(Len(conns) - 1) : j <= k =>
        LET first == served[TunnelAt(cursor + j)]
            later == served[TunnelAt(cursor + k)]
        IN  first <= later /\ later <= first + 1

\* What the comment on lookup says, of every lookup: "if every one is dead,
\* returns None", and otherwise a tunnel.
NoneOnlyIfDead ==
    [][\A p \in Lookup : GivesUp(p) => Members = closed]_lookupVars
=============================================================================
