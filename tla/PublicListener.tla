--------------------------- MODULE PublicListener ----------------------------
(***************************************************************************)
(* public.rs, accept_loop and PerIpLimiter: the loop sheds connections     *)
(* over the global and the per-IP cap, and the task of a connection gives  *)
(* both permits back when it ends.  The task's life is reduced to what     *)
(* decides how long it lasts: the awaits of handle_public with and without *)
(* a timer, the request body that an HTTP/1.1 connection waits to pass on  *)
(* (serve_h1), and the HTTP/1.1 upgrade that goes on in a task of its own  *)
(* (h2proxy.rs h1_upgrade).                                                *)
(***************************************************************************)
EXTENDS Naturals, FiniteSets

CONSTANTS Conn,        \* public connections
          Ip,          \* source addresses
          IpOf,        \* the address each connection comes from
          MaxConns,    \* max_conns
          Share,       \* an address may hold a Share-th of max_conns (8)
          Floor,       \* but at least Floor connections (16)
          ErrorBound,  \* accept() fails at most this often
          NoConn

ASSUME ListenerAssumption ==
    /\ IsFiniteSet(Conn)
    /\ NoConn \notin Conn
    /\ IpOf \in [Conn -> Ip]
    /\ MaxConns \in Nat \ {0} /\ Share \in Nat \ {0} /\ Floor \in Nat \ {0}
    /\ ErrorBound \in Nat

VARIABLES
    loop,      \* where the accept loop is
    accepted,  \* the connection it has accepted and not yet spawned or shed
    errors,    \* how often accept() failed
    permits,   \* free permits of the semaphore
    counts,    \* PerIpLimiter::counts: address -> connections, no entry for none
    pc,        \* the task of each connection
    kind,      \* how a served connection is served
    left,      \* connections whose peer has closed or reset them
    spliced    \* connections with an upgrade spliced by a task of its own

vars == <<loop, accepted, errors, permits, counts, pc, kind, left, spliced>>

max_conns_per_ip == IF MaxConns \div Share > Floor THEN MaxConns \div Share ELSE Floor

Count(ip) == IF ip \in DOMAIN counts THEN counts[ip] ELSE 0

WithCount(ip, n) == [i \in DOMAIN counts \cup {ip} |-> IF i = ip THEN n ELSE counts[i]]

WithoutIp(ip) == [i \in DOMAIN counts \ {ip} |-> counts[i]]

Init ==
    /\ loop = "accept"
    /\ accepted = NoConn
    /\ errors = 0
    /\ permits = MaxConns
    /\ counts = [i \in {} |-> 0]
    /\ pc = [c \in Conn |-> "idle"]
    /\ kind = [c \in Conn |-> "none"]
    /\ left = {}
    /\ spliced = {}

limits == <<permits, counts>>

task == <<kind, left, spliced>>
-----------------------------------------------------------------------------
(* A public client: connects, and goes away at any time. *)

Connect(c) ==
    /\ pc[c] = "idle" /\ loop # "stopped"
    /\ pc' = [pc EXCEPT ![c] = "queued"]
    /\ left' = left \ {c}
    /\ UNCHANGED <<loop, accepted, errors, limits, kind, spliced>>

Leave(c) ==
    /\ pc[c] # "idle" \/ c \in spliced
    /\ c \notin left
    /\ left' = left \cup {c}
    /\ UNCHANGED <<loop, accepted, errors, limits, pc, kind, spliced>>
-----------------------------------------------------------------------------
(* Faulty variants of the limiter and of the task's end. *)

\* A connection over the per-IP cap is shed with the global permit in hand.
ShedForgettingPermit ==
    /\ loop = "per_ip"
    /\ Count(IpOf[accepted]) >= max_conns_per_ip
    /\ loop' = "accept"
    /\ accepted' = NoConn
    /\ pc' = [pc EXCEPT ![accepted] = "idle"]
    /\ UNCHANGED <<errors, limits, task>>

\* A connection over the per-IP cap is kept until its address has room.
PerIpTriedAgain ==
    /\ loop = "per_ip"
    /\ Count(IpOf[accepted]) >= max_conns_per_ip
    /\ permits' = permits + 1
    /\ loop' = "global"
    /\ UNCHANGED <<accepted, errors, counts, pc, task>>

\* The cap is compared with the count after this connection.
AcquireOneMore ==
    /\ loop = "per_ip"
    /\ Count(IpOf[accepted]) <= max_conns_per_ip
    /\ counts' = WithCount(IpOf[accepted], Count(IpOf[accepted]) + 1)
    /\ pc' = [pc EXCEPT ![accepted] = "hello"]
    /\ loop' = "accept"
    /\ accepted' = NoConn
    /\ UNCHANGED <<errors, permits, task>>

\* A TLS handshake that fails is started again.
HandshakeTriedAgain(c) ==
    /\ pc[c] = "handshake"
    /\ pc' = [pc EXCEPT ![c] = "tls"]
    /\ UNCHANGED <<loop, accepted, errors, limits, task>>
-----------------------------------------------------------------------------
(* accept_loop *)

Accept(c) ==
    /\ loop = "accept" /\ pc[c] = "queued"
    /\ loop' = "global"
    /\ accepted' = c
    /\ pc' = [pc EXCEPT ![c] = "accepted"]
    /\ UNCHANGED <<errors, limits, task>>

AcceptFails ==
    /\ loop = "accept" /\ errors < ErrorBound
    /\ errors' = errors + 1
    /\ loop' = "backoff"
    /\ UNCHANGED <<accepted, limits, pc, task>>

BackedOff ==
    /\ loop = "backoff"
    /\ loop' = "accept"
    /\ UNCHANGED <<accepted, errors, limits, pc, task>>

\* try_acquire_owned on the semaphore
GlobalAcquired ==
    /\ loop = "global" /\ permits > 0
    /\ permits' = permits - 1
    /\ loop' = "per_ip"
    /\ UNCHANGED <<accepted, errors, counts, pc, task>>

ShedGlobal ==
    /\ loop = "global" /\ permits = 0
    /\ loop' = "accept"
    /\ accepted' = NoConn
    /\ pc' = [pc EXCEPT ![accepted] = "idle"]
    /\ UNCHANGED <<errors, limits, task>>

\* try_acquire on the per-IP limiter; the task is spawned with both permits, or
\* the connection is shed and its global permit released.
IpAcquired ==
    /\ loop = "per_ip"
    /\ Count(IpOf[accepted]) < max_conns_per_ip
    /\ counts' = WithCount(IpOf[accepted], Count(IpOf[accepted]) + 1)
    /\ pc' = [pc EXCEPT ![accepted] = "hello"]
    /\ loop' = "accept"
    /\ accepted' = NoConn
    /\ UNCHANGED <<errors, permits, task>>

ShedPerIp ==
    /\ loop = "per_ip"
    /\ Count(IpOf[accepted]) >= max_conns_per_ip
    /\ permits' = permits + 1
    /\ loop' = "accept"
    /\ accepted' = NoConn
    /\ pc' = [pc EXCEPT ![accepted] = "idle"]
    /\ UNCHANGED <<errors, counts, task>>

\* The loop stops, and with it the listener; tasks go on.
Cancelled ==
    /\ loop = "accept"
    /\ loop' = "stopped"
    /\ pc' = [c \in Conn |-> IF pc[c] = "queued" THEN "idle" ELSE pc[c]]
    /\ UNCHANGED <<accepted, errors, limits, task>>
-----------------------------------------------------------------------------
(* The task of a connection: handle_public, then the drop of its permits in *)
(* the reverse of the order in which they were bound.                       *)

GoesOn(c, to) ==
    /\ pc' = [pc EXCEPT ![c] = to]
    /\ UNCHANGED <<loop, accepted, errors, limits, task>>

\* The ClientHello is read: a passthrough host is served, another one goes
\* through TLS; an unreadable one, or one without SNI, ends the task.
HelloRead(c) ==
    /\ pc[c] = "hello" /\ c \notin left
    /\ \/ GoesOn(c, "tls") \/ GoesOn(c, "ended")
       \/ /\ pc' = [pc EXCEPT ![c] = "serve"]
          /\ kind' = [kind EXCEPT ![c] = "pipe"]
          /\ UNCHANGED <<loop, accepted, errors, limits, left, spliced>>

HelloTimeout(c) == pc[c] = "hello" /\ GoesOn(c, "ended")

\* LazyConfigAcceptor, which is timed and has the ClientHello at hand.
TlsAccepted(c) == pc[c] = "tls" /\ GoesOn(c, "handshake")

TlsAcceptTimeout(c) == pc[c] = "tls" /\ GoesOn(c, "ended")

\* into_stream, which is not timed: only the peer ends it.  A challenge, a
\* missing client cert and a 502 end the task at once.
HandshakeDone(c) ==
    /\ pc[c] = "handshake" /\ c \notin left
    /\ \E k \in {"h2", "h1", "pipe"} :
          /\ pc' = [pc EXCEPT ![c] = "serve"]
          /\ kind' = [kind EXCEPT ![c] = k]
          /\ UNCHANGED <<loop, accepted, errors, limits, left, spliced>>

HandshakeEnds(c) ==
    /\ pc[c] = "handshake"
    /\ GoesOn(c, "ended")

ServeEnds(c) ==
    /\ pc[c] = "serve"
    /\ pc' = [pc EXCEPT ![c] = "ended"]
    /\ kind' = [kind EXCEPT ![c] = "none"]
    /\ UNCHANGED <<loop, accepted, errors, limits, left, spliced>>

\* The backend stops reading the body of an HTTP/1.1 request.  hyper then does not
\* read the client's socket either, where the end or the reset of the connection
\* would be found, until the backend goes on; serve_h1 sets no timer but that of the
\* header.
UploadStalls(c) ==
    /\ pc[c] = "serve" /\ kind[c] = "h1"
    /\ kind' = [kind EXCEPT ![c] = "h1_upload"]
    /\ UNCHANGED <<loop, accepted, errors, limits, pc, left, spliced>>

UploadGoesOn(c) ==
    /\ pc[c] = "serve" /\ kind[c] = "h1_upload"
    /\ kind' = [kind EXCEPT ![c] = "h1"]
    /\ UNCHANGED <<loop, accepted, errors, limits, pc, left, spliced>>

\* A 101 goes to an HTTP/1.1 client: with_upgrades() hands the stream to the
\* splice task and serve_h1 returns.
Upgrade(c) ==
    /\ pc[c] = "serve" /\ kind[c] = "h1" /\ c \notin left
    /\ pc' = [pc EXCEPT ![c] = "ended"]
    /\ kind' = [kind EXCEPT ![c] = "none"]
    /\ spliced' = spliced \cup {c}
    /\ UNCHANGED <<loop, accepted, errors, limits, left>>

SpliceEnds(c) ==
    /\ c \in spliced
    /\ spliced' = spliced \ {c}
    /\ UNCHANGED <<loop, accepted, errors, limits, pc, kind, left>>

\* IpPermit::drop
DropIpPermit(c) ==
    /\ pc[c] = "ended"
    /\ counts' = IF Count(IpOf[c]) = 1 THEN WithoutIp(IpOf[c])
                 ELSE WithCount(IpOf[c], Count(IpOf[c]) - 1)
    /\ pc' = [pc EXCEPT ![c] = "ip_dropped"]
    /\ UNCHANGED <<loop, accepted, errors, permits, task>>

DropPermit(c) ==
    /\ pc[c] = "ip_dropped"
    /\ permits' = permits + 1
    /\ pc' = [pc EXCEPT ![c] = "closed"]
    /\ UNCHANGED <<loop, accepted, errors, counts, task>>

\* The client of a closed connection may connect again.
Forget(c) ==
    /\ pc[c] = "closed" /\ c \notin spliced
    /\ pc' = [pc EXCEPT ![c] = "idle"]
    /\ UNCHANGED <<loop, accepted, errors, limits, task>>

AcceptLoop ==
    \/ \E c \in Conn : Accept(c)
    \/ AcceptFails \/ BackedOff \/ GlobalAcquired \/ ShedGlobal \/ IpAcquired \/ ShedPerIp
    \/ Cancelled

Task(c) ==
    \/ HelloRead(c) \/ HelloTimeout(c) \/ TlsAccepted(c) \/ TlsAcceptTimeout(c)
    \/ HandshakeDone(c) \/ HandshakeEnds(c) \/ ServeEnds(c)
    \/ UploadStalls(c) \/ UploadGoesOn(c) \/ Upgrade(c) \/ SpliceEnds(c)
    \/ DropIpPermit(c) \/ DropPermit(c) \/ Forget(c)

Next == AcceptLoop \/ \E c \in Conn : Connect(c) \/ Leave(c) \/ Task(c)

Spec == Init /\ [][Next]_vars

\* What a task does by itself: its timers, its local steps, and the reads that
\* fail once the peer is gone (an h2 connection finds out by its keep-alive, an h1
\* connection unless it waits to pass on a request body).
Progress(c) ==
    \/ HelloTimeout(c) \/ TlsAccepted(c) \/ TlsAcceptTimeout(c)
    \/ DropIpPermit(c) \/ DropPermit(c)
    \/ c \in left /\ HandshakeEnds(c)
    \/ c \in left /\ kind[c] \in {"h1", "h2"} /\ ServeEnds(c)

LoopProgress == BackedOff \/ GlobalAcquired \/ ShedGlobal \/ IpAcquired \/ ShedPerIp

LoopFairness == WF_vars(LoopProgress)

\* The backlog is first in, first out: accept() does not pass over c forever.
Fairness(c) == WF_vars(Progress(c)) /\ SF_vars(Accept(c))

FairSpec == Spec /\ LoopFairness /\ \A c \in Conn : Fairness(c)
-----------------------------------------------------------------------------
Handled == {"hello", "tls", "handshake", "serve", "ended"}

\* The tasks that hold a permit of the semaphore, and those of ip that also
\* hold a permit of the limiter.
Holders == {c \in Conn : pc[c] \in Handled \cup {"ip_dropped"}}

IpHolders(ip) == {c \in Conn : IpOf[c] = ip /\ pc[c] \in Handled}

\* Every variable holds a value of its type, and the loop has a connection in
\* hand exactly while it decides about it.
TypeOK ==
    /\ loop \in {"accept", "backoff", "global", "per_ip", "stopped"}
    /\ accepted \in Conn \cup {NoConn}
    /\ accepted # NoConn <=> loop \in {"global", "per_ip"}
    /\ errors \in 0..ErrorBound
    /\ permits \in 0..MaxConns
    /\ DOMAIN counts \subseteq Ip
    /\ \A ip \in DOMAIN counts : counts[ip] \in Nat
    /\ pc \in [Conn -> Handled \cup {"idle", "queued", "accepted", "ip_dropped", "closed"}]
    /\ \A c \in Conn : pc[c] = "accepted" <=> c = accepted
    /\ kind \in [Conn -> {"none", "h2", "h1", "h1_upload", "pipe"}]
    /\ left \subseteq Conn /\ spliced \subseteq Conn

\* No permit leaks and none is given back twice: the free permits, the tasks and
\* the one the loop may hold add up to max_conns, whatever way a connection is
\* shed, times out, fails or ends.
PermitsAddUp ==
    permits + Cardinality(Holders) + (IF loop = "per_ip" THEN 1 ELSE 0) = MaxConns

CountsAreExact ==
    \A ip \in Ip : /\ Count(ip) = Cardinality(IpHolders(ip))
                   /\ ip \in DOMAIN counts => IpHolders(ip) # {}

ShareOfAnIp == \A ip \in Ip : Cardinality(IpHolders(ip)) <= max_conns_per_ip

\* The limiter counts exactly the connections of each address that are handled and
\* keeps no entry for an address without one, and no address ever has more than its
\* share of the connections in the air.
LimiterIsExact == CountsAreExact /\ ShareOfAnIp

\* A served connection that finds out that its peer has left.
Watched(c) == pc[c] = "serve" /\ kind[c] \in {"h1", "h2"}

\* One that need not: both sides of a pipe decide when it ends (DataPath), and the
\* backend when the body of an HTTP/1.1 request is read on.
Unwatched(c) == pc[c] = "serve" /\ kind[c] \in {"h1_upload", "pipe"}

\* A peer that never sends its ClientHello, and one that leaves during the TLS
\* handshake or an HTTP connection, gives both permits back.  Two waits go on after
\* it has left, and keep both permits: that of a pipe for its other end, and that of
\* an HTTP/1.1 connection for a backend that does not read a request's body.
PermitReturns ==
    \A c \in Conn :
        (pc[c] = "hello" \/ (c \in left /\ (pc[c] \in {"tls", "handshake"} \/ Watched(c))))
            ~> (\/ pc[c] = "closed"
                \/ c \notin left /\ pc[c] \in {"tls", "handshake", "serve"}
                \/ Unwatched(c))

\* A connection in the backlog is taken up or shed until the listener stops,
\* though accept() may fail now and then.
QueuedIsAnswered == \A c \in Conn : pc[c] = "queued" ~> pc[c] # "queued"

\* What the accept loop says of a permit: it is held for the whole lifetime of a
\* connection, so no more than max_conns are handled at once.
PermitForLifetime == Cardinality(Holders \cup spliced) <= MaxConns
=============================================================================
