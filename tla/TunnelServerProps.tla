-------------------------- MODULE TunnelServerProps --------------------------
(***************************************************************************)
(* What the tunnel side of tuyau-server promises.                          *)
(***************************************************************************)
EXTENDS TunnelServer

\* Phases in which the handler has installed its routes and not removed them.
Holding == {"installed", "register", "announce", "serve", "remove"}

\* Phases in which the handler has registered its tunnel and not unregistered it.
Listed == {"announce", "serve", "remove", "unregister"}

\* Every variable holds a value of its type.
TypeOK ==
    /\ server \in {"running", "cancelled", "closed"}
    /\ pc \in [Conn -> Phase]
    /\ grant \in [Conn -> ClientGrant \cup {NoGrant}]
    /\ closed \in SUBSET Conn
    /\ inner \in [Host -> HostRoutes \cup {NoEntry}]
    /\ displaced \in [Conn -> SUBSET Conn]
    /\ kicking \in SUBSET Conn
    /\ tunnels \in SUBSET Conn
    /\ announced \in SUBSET Conn

\* A hostname is served by one identity at a time, and only by connections the
\* backend granted it to (HostRoutes, install's takeover rule), also when ids
\* are reused and grants overlap.
OneOwner ==
    \A h \in Host : \A c \in ConnsOf(inner, h) :
        /\ grant[c] # NoGrant
        /\ grant[c].client_name = inner[h].client_name
        /\ h \in Granted(c)

\* Two connections that were both granted last-write-wins never share a host
\* ("with last-write-wins there is ever only one connection").
LastWriteWinsAlone ==
    \A h \in Host : \A c, d \in ConnsOf(inner, h) :
        c # d => \/ grant[c].balance = "round_robin"
                 \/ grant[d].balance = "round_robin"

\* However a handler ends (any early return, error path, timeout, kick or
\* shutdown), it leaves no route, no registry entry and no unmatched TunnelUp,
\* so a reused stable_id inherits nothing; and a host is in the table only
\* while a connection serves it.
NoGhost ==
    /\ \A c \in Conn : Routed(inner, c) => pc[c] \in Holding
    /\ \A c \in Conn : c \in tunnels <=> pc[c] \in Listed
    /\ \A c \in announced : pc[c] \in (Listed \ {"announce"}) \cup {"depart"}
    /\ \A h \in Host : inner[h] # NoEntry => inner[h].conns # {}

\* No zombie tunnels: a welcomed tunnel that lost one of its hosts (to another
\* client, to a newer connection, to a kick) is closed, or some task is about
\* to close it.
UnroutedIsDoomed ==
    \A c \in Conn :
        pc[c] \in Holding \ {"remove"} =>
            \A h \in Granted(c) : c \in ConnsOf(inner, h) \/ c \in Doomed

\* How the other variables follow the phase of a handler: what makes the
\* invariants above inductive.
HandlerState ==
    \A c \in Conn :
        /\ pc[c] \in {"granted", "install", "depart"} \cup Holding \cup Listed
              => grant[c] \in Grants
        /\ displaced[c] # {} => pc[c] = "installed"
        /\ pc[c] \in {"remove", "unregister", "depart"} => c \in closed

\* The inductive invariant: the safety invariants need each other, since only
\* NoGhost tells InstallRoutes that its connection is not in the table yet, and
\* only HandlerState that a handler in the table still holds its grant.
IInv ==
    /\ TypeOK
    /\ HandlerState
    /\ OneOwner
    /\ LastWriteWinsAlone
    /\ NoGhost
    /\ UnroutedIsDoomed

\* A connection somebody has to close was in the table: its handler is past the
\* install, so a reused stable_id is not closed in the place of its predecessor.
DoomedHeld ==
    \A c \in Conn :
        (c \in kicking \/ \E d \in Conn : c \in displaced[d])
            => pc[c] \in Holding \cup {"unregister", "depart", "done"}

\* A connection is open for the abstract specification while its handler runs
\* and it is not closed; it is live while it serves all it was granted and no
\* task has taken charge of closing it.
Open == {c \in Conn : pc[c] \notin {"idle", "done"} /\ c \notin closed}

Live == [c \in Conn |->
            IF /\ grant[c] # NoGrant
               /\ Granted(c) # {}
               /\ \A h \in Granted(c) : c \in ConnsOf(inner, h)
               /\ c \notin Doomed
            THEN grant[c] ELSE NoGrant]

Promise == INSTANCE TunnelTable WITH open <- Open, live <- Live

\* The handlers, with their separate steps for the table, for closing what they
\* displaced and for the registry, implement the abstract table: seen through
\* Live every takeover, loss, revocation and shutdown is one step, a tunnel loses
\* all its hostnames or none, and it loses them for no other reason.
ImplementsTable == Promise!Spec

\* Whatever the phase of its handler, kick gets every registered tunnel of the
\* client that was granted a hostname: it is closed or about to be.  (One that is
\* admitted and not yet installed is no tunnel yet, and comes up all the same.)
KickReaches ==
    [][\A client \in Client : KickClient(client) =>
          \A c \in tunnels :
              (grant[c].client_name = client /\ Granted(c) # {}) => c \in Doomed']_vars

\* A closed connection does not stay in the table, in the registry or in the
\* event feed.
ClosedIsForgotten ==
    \A c \in Conn :
        (c \in closed /\ (Routed(inner, c) \/ c \in tunnels))
            ~> (~Routed(inner, c) /\ c \notin tunnels /\ c \notin announced)

\* Every accepted connection ends its handshake, whatever its peer and the
\* backend do or fail to do: it serves, its handler returns, or the handler is
\* writing its answer to a connection that is still open, the one await of the
\* handshake that no timer bounds.
HandshakeResolves ==
    \A c \in Conn :
        pc[c] = "accept_bi" ~> \/ pc[c] \in {"serve", "done"}
                              \/ (pc[c] \in {"reject", "installed"} /\ c \notin closed)

\* After a shutdown the table and the registry drain, also of tunnels whose
\* handshake was in flight when the endpoint closed.
ShutdownDrains ==
    server = "cancelled" ~> [](server = "closed" /\ inner = EmptyTable /\ tunnels = {})
=============================================================================
