---------------------------- MODULE TunnelServer ----------------------------
(***************************************************************************)
(* The tunnel side of tuyau-server: the accept loop, one handler task per  *)
(* QUIC connection (handle_incoming), the routing table and the control    *)
(* registry the handlers share, revocation (kick) and shutdown.            *)
(*                                                                         *)
(* A member of Conn is a stable_id.  quinn hands the id of a dropped       *)
(* connection to a later one, so an id here is a slot that is used again   *)
(* once no task and no table refers to it (DropConnection).                *)
(*                                                                         *)
(* Two steps of one handler are separate actions wherever another task can *)
(* run between them: at an await, and between two lock acquisitions.       *)
(***************************************************************************)
EXTENDS Routes

CONSTANTS Grants,   \* the grants the backend may hand out
          NoGrant   \* a handler that holds no grant

ASSUME GrantsAssumption == Grants \subseteq ClientGrant /\ NoGrant \notin ClientGrant

VARIABLES
    server,     \* "running", "cancelled" (token cancelled) or "closed" (endpoint too)
    pc,         \* what the handler of each connection does next
    grant,      \* the grant its handler holds
    closed,     \* connections whose close_reason is set
    inner,      \* the routing table
    displaced,  \* connections a handler still has to close after its install
    kicking,    \* connections that running kicks still have to close
    tunnels,    \* the control registry
    announced   \* connections whose last event was TunnelUp

vars == <<server, pc, grant, closed, inner, displaced, kicking, tunnels, announced>>

Phase == {"idle", "accept_bi", "hello", "admit", "granted", "install", "installed",
          "register", "announce", "serve", "remove", "unregister", "depart",
          "reject", "linger", "done"}

InUse(c) == pc[c] # "idle"

Granted(c) == DOMAIN grant[c].hostnames

Goto(c, phase) == pc' = [pc EXCEPT ![c] = phase]

\* The handler returns: it drops its grant and its handle of the connection.
Return(c) == Goto(c, "done") /\ grant' = [grant EXCEPT ![c] = NoGrant]

\* Connections some task has taken charge of closing.
Doomed == closed \cup kicking \cup UNION {displaced[c] : c \in Conn}

\* Connections something other than its own handler refers to.
Referenced(c) == Routed(inner, c) \/ c \in kicking \/ \E d \in Conn : c \in displaced[d]

Init ==
    /\ server = "running"
    /\ pc = [c \in Conn |-> "idle"]
    /\ grant = [c \in Conn |-> NoGrant]
    /\ closed = {}
    /\ inner = EmptyTable
    /\ displaced = [c \in Conn |-> {}]
    /\ kicking = {}
    /\ tunnels = {}
    /\ announced = {}
-----------------------------------------------------------------------------
(* The environment: peers and quinn. *)

\* A peer completes the QUIC handshake; the accept loop spawns its handler.
\* The loop's select may still take a connection after the token is cancelled.
Connect(c) ==
    /\ server # "closed"
    /\ pc[c] = "idle"
    /\ Goto(c, "accept_bi")
    /\ UNCHANGED <<server, grant, closed, inner, displaced, kicking, tunnels, announced>>

\* The peer closes the connection, or it idles out.
PeerCloses(c) ==
    /\ InUse(c)
    /\ c \notin closed
    /\ closed' = closed \cup {c}
    /\ UNCHANGED <<server, pc, grant, inner, displaced, kicking, tunnels, announced>>

\* The last handle is dropped: quinn frees the connection and its stable_id.
DropConnection(c) ==
    /\ pc[c] = "done"
    /\ ~Referenced(c)
    /\ Goto(c, "idle")
    /\ closed' = closed \ {c}
    /\ UNCHANGED <<server, grant, inner, displaced, kicking, tunnels, announced>>
-----------------------------------------------------------------------------
(* Faulty variants of the actions below. *)

\* HELLO_TIMEOUT does not bound the wait for the hello frame.
HelloWithoutTimeout(c) ==
    /\ pc[c] = "hello"
    /\ c \in closed
    /\ Goto(c, "reject")
    /\ UNCHANGED <<server, grant, closed, inner, displaced, kicking, tunnels, announced>>

\* The routes are left in the table when the welcome cannot be sent.
WelcomeFailsKeepingRoutes(c) ==
    /\ pc[c] = "installed"
    /\ displaced[c] = {}
    /\ Return(c)
    /\ UNCHANGED <<server, closed, inner, displaced, kicking, tunnels, announced>>

\* The serving phase waits for the shutdown only.
ServeEndsOnCancel(c) ==
    /\ pc[c] = "serve"
    /\ server # "running"
    /\ closed' = closed \cup {c}
    /\ Goto(c, "remove")
    /\ UNCHANGED <<server, grant, inner, displaced, kicking, tunnels, announced>>

\* The shutdown closes the registered tunnels only.
EndpointCloseOfTunnels ==
    /\ server = "cancelled"
    /\ server' = "closed"
    /\ closed' = closed \cup tunnels
    /\ UNCHANGED <<pc, grant, inner, displaced, kicking, tunnels, announced>>
-----------------------------------------------------------------------------
(* handle_incoming up to the grant. *)

AcceptBi(c) ==
    /\ pc[c] = "accept_bi"
    /\ c \notin closed
    /\ Goto(c, "hello")
    /\ UNCHANGED <<server, grant, closed, inner, displaced, kicking, tunnels, announced>>

AcceptBiFails(c) ==
    /\ pc[c] = "accept_bi"
    /\ c \in closed
    /\ Return(c)
    /\ UNCHANGED <<server, closed, inner, displaced, kicking, tunnels, announced>>

AcceptBiTimeout(c) ==
    /\ pc[c] = "accept_bi"
    /\ closed' = closed \cup {c}
    /\ Return(c)
    /\ UNCHANGED <<server, inner, displaced, kicking, tunnels, announced>>

\* A hello that was buffered before the connection closed is still read.
HelloFrame(c) ==
    /\ pc[c] = "hello"
    /\ Goto(c, "admit")
    /\ UNCHANGED <<server, grant, closed, inner, displaced, kicking, tunnels, announced>>

\* Decode error, lost connection or HELLO_TIMEOUT.
HelloRejected(c) ==
    /\ pc[c] = "hello"
    /\ Goto(c, "reject")
    /\ UNCHANGED <<server, grant, closed, inner, displaced, kicking, tunnels, announced>>

HelloEof(c) ==
    /\ pc[c] = "hello"
    /\ Return(c)
    /\ UNCHANGED <<server, closed, inner, displaced, kicking, tunnels, announced>>

\* The backend decides; its answer reaches the handler later.
Admit(c, g) ==
    /\ pc[c] = "admit"
    /\ grant' = [grant EXCEPT ![c] = g]
    /\ Goto(c, "granted")
    /\ UNCHANGED <<server, closed, inner, displaced, kicking, tunnels, announced>>

\* No grant, or ADMIT_TIMEOUT before the answer is delivered.
AdmitRejected(c) ==
    /\ pc[c] \in {"admit", "granted"}
    /\ grant' = [grant EXCEPT ![c] = NoGrant]
    /\ Goto(c, "reject")
    /\ UNCHANGED <<server, closed, inner, displaced, kicking, tunnels, announced>>

\* The reject was written, or could not be: the result is ignored.
RejectSent(c) ==
    /\ pc[c] = "reject"
    /\ Goto(c, "linger")
    /\ UNCHANGED <<server, grant, closed, inner, displaced, kicking, tunnels, announced>>

\* REJECT_LINGER: the peer closes, or the server does.
LingerEnds(c) ==
    /\ pc[c] = "linger"
    /\ closed' = closed \cup {c}
    /\ Return(c)
    /\ UNCHANGED <<server, inner, displaced, kicking, tunnels, announced>>
-----------------------------------------------------------------------------
(* handle_incoming from the grant on. *)

\* The peer went away while the backend decided.
GrantForClosed(c) ==
    /\ pc[c] = "granted"
    /\ c \in closed
    /\ Return(c)
    /\ UNCHANGED <<server, closed, inner, displaced, kicking, tunnels, announced>>

GrantForOpen(c) ==
    /\ pc[c] = "granted"
    /\ c \notin closed
    /\ Goto(c, "install")
    /\ UNCHANGED <<server, grant, closed, inner, displaced, kicking, tunnels, announced>>

InstallRoutes(c) ==
    /\ pc[c] = "install"
    /\ inner' = Install(inner, grant[c], c)
    /\ displaced' = [displaced EXCEPT ![c] = Displaced(inner, grant[c], c)]
    /\ Goto(c, "installed")
    /\ UNCHANGED <<server, grant, closed, kicking, tunnels, announced>>

CloseDisplaced(c) ==
    /\ pc[c] = "installed"
    /\ \E prev \in displaced[c] :
          /\ closed' = closed \cup {prev}
          /\ displaced' = [displaced EXCEPT ![c] = @ \ {prev}]
    /\ UNCHANGED <<server, pc, grant, inner, kicking, tunnels, announced>>

WelcomeSent(c) ==
    /\ pc[c] = "installed"
    /\ displaced[c] = {}
    /\ c \notin closed
    /\ Goto(c, "register")
    /\ UNCHANGED <<server, grant, closed, inner, displaced, kicking, tunnels, announced>>

\* The connection is lost, or the peer stopped reading its stream.
WelcomeFails(c) ==
    /\ pc[c] = "installed"
    /\ displaced[c] = {}
    /\ inner' = RemoveConn(inner, c)
    /\ Return(c)
    /\ UNCHANGED <<server, closed, displaced, kicking, tunnels, announced>>

Register(c) ==
    /\ pc[c] = "register"
    /\ tunnels' = tunnels \cup {c}
    /\ Goto(c, "announce")
    /\ UNCHANGED <<server, grant, closed, inner, displaced, kicking, announced>>

TunnelUp(c) ==
    /\ pc[c] = "announce"
    /\ announced' = announced \cup {c}
    /\ Goto(c, "serve")
    /\ UNCHANGED <<server, grant, closed, inner, displaced, kicking, tunnels>>

\* The select of the serving phase: the connection closed, or a cancellation
\* makes the handler close it.
ServeEnds(c) ==
    /\ pc[c] = "serve"
    /\ c \in closed \/ server # "running"
    /\ closed' = closed \cup {c}
    /\ Goto(c, "remove")
    /\ UNCHANGED <<server, grant, inner, displaced, kicking, tunnels, announced>>

RemoveRoutes(c) ==
    /\ pc[c] = "remove"
    /\ inner' = RemoveConn(inner, c)
    /\ Goto(c, "unregister")
    /\ UNCHANGED <<server, grant, closed, displaced, kicking, tunnels, announced>>

Unregister(c) ==
    /\ pc[c] = "unregister"
    /\ tunnels' = tunnels \ {c}
    /\ Goto(c, "depart")
    /\ UNCHANGED <<server, grant, closed, inner, displaced, kicking, announced>>

TunnelDown(c) ==
    /\ pc[c] = "depart"
    /\ announced' = announced \ {c}
    /\ Return(c)
    /\ UNCHANGED <<server, closed, inner, displaced, kicking, tunnels>>
-----------------------------------------------------------------------------
(* TunnelServer::kick and TunnelServer::shutdown. *)

\* The client's hosts leave the table under one lock; closing the connections
\* that served them comes after.
KickClient(client) ==
    /\ server = "running"
    /\ inner' = Kick(inner, client)
    /\ kicking' = kicking \cup Kicked(inner, client)
    /\ UNCHANGED <<server, pc, grant, closed, displaced, tunnels, announced>>

KickCloses(c) ==
    /\ c \in kicking
    /\ kicking' = kicking \ {c}
    /\ closed' = closed \cup {c}
    /\ UNCHANGED <<server, pc, grant, inner, displaced, tunnels, announced>>

\* shutdown takes the server by value, so no kick is running.
Cancel ==
    /\ server = "running"
    /\ kicking = {}
    /\ server' = "cancelled"
    /\ UNCHANGED <<pc, grant, closed, inner, displaced, kicking, tunnels, announced>>

EndpointClose ==
    /\ server = "cancelled"
    /\ server' = "closed"
    /\ closed' = closed \cup {c \in Conn : InUse(c)}
    /\ UNCHANGED <<pc, grant, inner, displaced, kicking, tunnels, announced>>

\* Nothing is left to do after a shutdown.
ShutDown ==
    /\ server = "closed"
    /\ \A c \in Conn : ~InUse(c)
    /\ UNCHANGED vars
-----------------------------------------------------------------------------
Handshake(c) ==
    \/ AcceptBi(c) \/ AcceptBiFails(c) \/ AcceptBiTimeout(c)
    \/ HelloFrame(c) \/ HelloRejected(c) \/ HelloEof(c)
    \/ \E g \in Grants : Admit(c, g)
    \/ AdmitRejected(c) \/ RejectSent(c) \/ LingerEnds(c)

Tunnel(c) ==
    \/ GrantForClosed(c) \/ GrantForOpen(c) \/ InstallRoutes(c) \/ CloseDisplaced(c)
    \/ WelcomeSent(c) \/ WelcomeFails(c) \/ Register(c) \/ TunnelUp(c)
    \/ ServeEnds(c) \/ RemoveRoutes(c) \/ Unregister(c) \/ TunnelDown(c)

Handler(c) == Handshake(c) \/ Tunnel(c)

Next ==
    \/ \E c \in Conn : Handler(c) \/ KickCloses(c)
    \/ \E c \in Conn : Connect(c) \/ PeerCloses(c) \/ DropConnection(c)
    \/ \E client \in Client : KickClient(client)
    \/ Cancel \/ EndpointClose \/ ShutDown

Spec == Init /\ [][Next]_vars

\* The steps a spawned handler takes by itself: every wait for the client and
\* for the backend has a timer.  A write to the client has none: it is sure to
\* end only once the connection is closed.
Progress(c) ==
    \/ AcceptBiFails(c) \/ AcceptBiTimeout(c) \/ HelloRejected(c)
    \/ AdmitRejected(c) \/ LingerEnds(c)
    \/ c \in closed /\ (RejectSent(c) \/ WelcomeFails(c))
    \/ GrantForClosed(c) \/ GrantForOpen(c) \/ InstallRoutes(c) \/ CloseDisplaced(c)
    \/ Register(c) \/ TunnelUp(c)
    \/ ServeEnds(c) \/ RemoveRoutes(c) \/ Unregister(c) \/ TunnelDown(c)

\* A spawned task keeps being polled, and the loops that close connections run
\* to their end.  Peers, the callers of kick and the backend's answers are under
\* no obligation.
Fairness ==
    /\ \A c \in Conn : WF_vars(Progress(c)) /\ WF_vars(KickCloses(c))
    /\ WF_vars(EndpointClose)

FairSpec == Spec /\ Fairness
=============================================================================
