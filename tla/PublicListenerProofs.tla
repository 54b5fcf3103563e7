------------------------ MODULE PublicListenerProofs -------------------------
(***************************************************************************)
(* The permits of the public listener, for any number of connections and   *)
(* addresses and for every cap.  The three invariants hold together: the   *)
(* limiter's count may be compared with the cap because it is exact, and   *)
(* it goes down by one for the right connection because that connection is *)
(* among those it counts.  The permits come back, and the backlog is       *)
(* served, by the fairness of FairSpec where NothingIsStuck holds.         *)
(***************************************************************************)
EXTENDS PublicListener, FiniteSetTheorems, TLAPS

\* A leaf is for Zenon unless it names another backend.
USE Zenon

\* The inductive invariant.
LInv == TypeOK /\ PermitsAddUp /\ CountsAreExact /\ ShareOfAnIp

\* The connections that hold permits are finitely many.
LEMMA HoldersFinite ==
    /\ IsFiniteSet(Holders) /\ Cardinality(Holders) \in Nat
    /\ \A ip : IsFiniteSet(IpHolders(ip)) /\ Cardinality(IpHolders(ip)) \in Nat
  <1>1. IsFiniteSet(Holders)
    <2>1. Holders \subseteq Conn
      BY DEF Holders
    <2> QED
      BY <2>1, ListenerAssumption, FS_Subset
  <1>2. ASSUME NEW ip PROVE IsFiniteSet(IpHolders(ip))
    <2>1. IpHolders(ip) \subseteq Conn
      BY DEF IpHolders
    <2> QED
      BY <2>1, ListenerAssumption, FS_Subset
  <1> QED
    BY <1>1, <1>2, FS_CardinalityType

\* The per-IP cap is a positive number.
LEMMA CapType == max_conns_per_ip \in Nat \ {0}
  <1>1. MaxConns \div Share \in Nat
    BY SMTT(30), ListenerAssumption
  <1> QED
    BY SMTT(30), <1>1, ListenerAssumption DEF max_conns_per_ip

\* No permit moves, and no task into or out of the states in which it holds one.
MovesNoPermit ==
    /\ UNCHANGED limits
    /\ loop = "per_ip" <=> loop' = "per_ip"
    /\ \A c \in Conn : \/ pc'[c] = pc[c]
                       \/ pc[c] \in Handled /\ pc'[c] \in Handled
                       \/ /\ pc[c] \notin Handled \cup {"ip_dropped"}
                          /\ pc'[c] \notin Handled \cup {"ip_dropped"}

\* Such a step keeps the counts.
LEMMA KeepsLInv ==
    ASSUME LInv, TypeOK', MovesNoPermit PROVE LInv'
  <1>1. Holders' = Holders
    BY DEF MovesNoPermit, Holders, Handled
  <1>2. \A ip : IpHolders(ip)' = IpHolders(ip)
    BY DEF MovesNoPermit, IpHolders, Handled
  <1>3. PermitsAddUp'
    BY <1>1 DEF MovesNoPermit, LInv, PermitsAddUp, limits
  <1>4. CountsAreExact'
    BY <1>2 DEF MovesNoPermit, LInv, CountsAreExact, limits, Count
  <1>5. ShareOfAnIp'
    BY <1>2 DEF LInv, ShareOfAnIp, max_conns_per_ip
  <1> QED
    BY <1>3, <1>4, <1>5 DEF LInv

\* A server that starts holds all its permits.
LEMMA InitLInv == Init => LInv
  <1> SUFFICES ASSUME Init PROVE LInv
    OBVIOUS
  <1>1. Holders = {} /\ \A ip : IpHolders(ip) = {}
    BY DEF Init, Holders, IpHolders, Handled
  <1>2. Cardinality({}) = 0
    BY FS_EmptySet
  <1>3. TypeOK
    BY SMTT(30), ListenerAssumption DEF Init, TypeOK, Handled
  <1>4. PermitsAddUp
    BY SMTT(30), <1>1, <1>2, ListenerAssumption DEF Init, PermitsAddUp
  <1>5. CountsAreExact
    BY <1>1, <1>2, Zenon DEF Init, CountsAreExact, Count
  <1>6. ShareOfAnIp
    BY SMTT(30), <1>1, <1>2, CapType DEF ShareOfAnIp
  <1> QED
    BY <1>3, <1>4, <1>5, <1>6 DEF LInv

\* The accept loop moves a permit from the semaphore to the connection in its
\* hands, from there to the connection's task, or back.
LEMMA LoopLInv ==
    ASSUME LInv, AcceptLoop PROVE LInv'
  <1> TypeOK /\ PermitsAddUp /\ CountsAreExact /\ ShareOfAnIp
    BY DEF LInv
  <1>1. ASSUME NEW c \in Conn, Accept(c) PROVE LInv'
    <2>1. TypeOK'
      BY <1>1, ListenerAssumption DEF Accept, TypeOK, limits, task, Handled
    <2>2. MovesNoPermit
      BY <1>1 DEF MovesNoPermit, Accept, TypeOK, Handled, limits
    <2> QED
      BY <2>1, <2>2, KeepsLInv
  <1>2. CASE AcceptFails
    <2>1. TypeOK'
      BY SMTT(30), <1>2, ListenerAssumption DEF AcceptFails, TypeOK, limits, task, Handled
    <2>2. MovesNoPermit
      BY <1>2 DEF MovesNoPermit, AcceptFails, limits
    <2> QED
      BY <2>1, <2>2, KeepsLInv
  <1>3. CASE BackedOff
    <2>1. TypeOK'
      BY <1>3 DEF BackedOff, TypeOK, limits, task, Handled
    <2>2. MovesNoPermit
      BY <1>3 DEF MovesNoPermit, BackedOff, limits
    <2> QED
      BY <2>1, <2>2, KeepsLInv
  <1>4. CASE GlobalAcquired
    <2>1. TypeOK'
      BY SMTT(30), <1>4, ListenerAssumption DEF GlobalAcquired, TypeOK, task, Handled
    <2>2. Holders' = Holders /\ \A ip : IpHolders(ip)' = IpHolders(ip)
      BY <1>4 DEF GlobalAcquired, Holders, IpHolders
    <2>3. PermitsAddUp'
      BY SMTT(30), <1>4, <2>2, HoldersFinite, ListenerAssumption DEF GlobalAcquired, PermitsAddUp, TypeOK
    <2>4. CountsAreExact' /\ ShareOfAnIp'
      BY <1>4, <2>2, SMTT(30) DEF GlobalAcquired, CountsAreExact, ShareOfAnIp, Count, max_conns_per_ip
    <2> QED
      BY <2>1, <2>3, <2>4 DEF LInv
  <1>5. CASE ShedGlobal
    <2>1. TypeOK'
      BY <1>5, ListenerAssumption DEF ShedGlobal, TypeOK, limits, task, Handled
    <2>2. MovesNoPermit
      BY <1>5 DEF MovesNoPermit, ShedGlobal, TypeOK, Handled, limits
    <2> QED
      BY <2>1, <2>2, KeepsLInv
  <1>6. CASE IpAcquired
    <2>1. PICK c \in Conn : c = accepted /\ pc[c] = "accepted"
      BY <1>6, ListenerAssumption DEF IpAcquired, TypeOK
    <2>2. PICK here \in Ip : here = IpOf[c] /\ Count(here) \in Nat
      BY ListenerAssumption DEF Count, TypeOK
    <2>3. TypeOK'
      BY SMTT(30), <1>6, <2>1, <2>2, ListenerAssumption
         DEF IpAcquired, TypeOK, WithCount, task, Handled
    <2>4. /\ Holders' = Holders \cup {c} /\ c \notin Holders
          /\ IpHolders(here)' = IpHolders(here) \cup {c} /\ c \notin IpHolders(here)
          /\ \A ip : ip # here => IpHolders(ip)' = IpHolders(ip)
      <3>1. \A d \in Conn : pc'[d] = IF d = c THEN "hello" ELSE pc[d]
        BY <1>6, <2>1, SMTT(30) DEF IpAcquired, TypeOK
      <3>2. Holders' = Holders \cup {c} /\ c \notin Holders
        BY <2>1, <3>1 DEF Holders, Handled
      <3>3. IpHolders(here)' = IpHolders(here) \cup {c} /\ c \notin IpHolders(here)
        BY <2>1, <2>2, <3>1 DEF IpHolders, Handled
      <3>4. \A ip : ip # here => IpHolders(ip)' = IpHolders(ip)
        BY <2>2, <3>1 DEF IpHolders, Handled
      <3> QED
        BY <3>2, <3>3, <3>4
    <2>5. /\ Cardinality(Holders') = Cardinality(Holders) + 1
          /\ Cardinality(IpHolders(here)') = Cardinality(IpHolders(here)) + 1
      <3>1. IsFiniteSet(Holders) /\ IsFiniteSet(IpHolders(here))
        BY HoldersFinite
      <3>2. Cardinality(Holders \cup {c}) = Cardinality(Holders) + 1
        BY <2>4, <3>1, FS_AddElement, Zenon
      <3>3. Cardinality(IpHolders(here) \cup {c}) = Cardinality(IpHolders(here)) + 1
        BY <2>4, <3>1, FS_AddElement, Zenon
      <3> QED
        BY <2>4, <3>2, <3>3
    <2>6. PermitsAddUp'
      BY SMTT(30), <1>6, <2>5, HoldersFinite, ListenerAssumption DEF IpAcquired, PermitsAddUp, TypeOK
    <2>7. \A ip \in Ip : Count(ip)' = IF ip = here THEN Count(here) + 1 ELSE Count(ip)
      BY <1>6, <2>1, <2>2 DEF IpAcquired, Count, WithCount
    <2>8. CountsAreExact'
      <3>1. ASSUME NEW ip \in Ip PROVE Count(ip)' = Cardinality(IpHolders(ip)')
        BY <2>4, <2>5, <2>7, SMTT(30) DEF CountsAreExact
      <3>2. ASSUME NEW ip \in Ip, ip \in DOMAIN counts' PROVE IpHolders(ip)' # {}
        BY <1>6, <2>1, <2>2, <2>4, <3>2 DEF CountsAreExact, IpAcquired, WithCount
      <3> QED
        BY <3>1, <3>2 DEF CountsAreExact
    <2>9. ShareOfAnIp'
      <3>1. Cardinality(IpHolders(here)) < max_conns_per_ip
        BY <1>6, <2>1, <2>2 DEF IpAcquired, CountsAreExact
      <3>2. max_conns_per_ip' = max_conns_per_ip
        BY DEF max_conns_per_ip
      <3>3. ASSUME NEW ip \in Ip PROVE Cardinality(IpHolders(ip)') <= max_conns_per_ip
        <4>1. CASE ip = here
          BY SMTT(30), <2>5, <3>1, <4>1, HoldersFinite, CapType
        <4>2. CASE ip # here
          BY <2>4, <4>2, SMTT(30) DEF ShareOfAnIp
        <4> QED
          BY <4>1, <4>2
      <3> QED
        BY <3>2, <3>3 DEF ShareOfAnIp
    <2> QED
      BY <2>3, <2>6, <2>8, <2>9, SMTT(30) DEF LInv
  <1>7. CASE ShedPerIp
    <2>1. accepted \in Conn /\ pc[accepted] = "accepted"
      BY <1>7 DEF ShedPerIp, TypeOK
    <2>2. permits + 1 \in 0..MaxConns
      BY SMTT(30), <1>7, HoldersFinite, ListenerAssumption DEF ShedPerIp, PermitsAddUp, TypeOK
    <2>3. TypeOK'
      BY <1>7, <2>1, <2>2, ListenerAssumption, SMTT(30) DEF ShedPerIp, TypeOK, task, Handled
    <2>4. Holders' = Holders /\ \A ip : IpHolders(ip)' = IpHolders(ip)
      BY <1>7, <2>1, SMTT(30) DEF ShedPerIp, TypeOK, Holders, IpHolders, Handled
    <2>5. PermitsAddUp'
      BY <1>7, <2>4, HoldersFinite, ListenerAssumption, SMTT(30) DEF ShedPerIp, PermitsAddUp, TypeOK
    <2>6. CountsAreExact' /\ ShareOfAnIp'
      BY <1>7, <2>4 DEF ShedPerIp, CountsAreExact, ShareOfAnIp, Count, max_conns_per_ip
    <2> QED
      BY <2>3, <2>5, <2>6 DEF LInv
  <1>8. CASE Cancelled
    <2>1. TypeOK'
      BY <1>8 DEF Cancelled, TypeOK, limits, task, Handled
    <2>2. MovesNoPermit
      BY <1>8 DEF MovesNoPermit, Cancelled, TypeOK, Handled, limits
    <2> QED
      BY <2>1, <2>2, KeepsLInv
  <1> QED
    BY <1>1, <1>2, <1>3, <1>4, <1>5, <1>6, <1>7, <1>8 DEF AcceptLoop

\* The task of a connection keeps both permits until it ends, and then gives each
\* back once.
LEMMA TaskLInv ==
    ASSUME LInv, NEW c \in Conn, Task(c) PROVE LInv'
  <1> TypeOK /\ PermitsAddUp /\ CountsAreExact /\ ShareOfAnIp
    BY DEF LInv
  <1>1. ASSUME NEW to \in Handled, pc[c] \in Handled, GoesOn(c, to) PROVE LInv'
    <2>1. TypeOK'
      BY <1>1 DEF GoesOn, TypeOK, limits, task, Handled
    <2>2. MovesNoPermit
      BY <1>1 DEF MovesNoPermit, GoesOn, TypeOK, limits
    <2> QED
      BY <2>1, <2>2, KeepsLInv
  <1>2. ASSUME NEW k \in {"h2", "h1", "pipe"}, pc[c] \in Handled,
               pc' = [pc EXCEPT ![c] = "serve"], kind' = [kind EXCEPT ![c] = k],
               UNCHANGED <<loop, accepted, errors, limits, left, spliced>>
        PROVE  LInv'
    <2>1. TypeOK'
      BY <1>2 DEF TypeOK, limits, Handled
    <2>2. MovesNoPermit
      BY <1>2 DEF MovesNoPermit, TypeOK, Handled, limits
    <2> QED
      BY <2>1, <2>2, KeepsLInv, SMTT(30)
  <1>3. CASE HelloRead(c)
    BY <1>1, <1>2, <1>3 DEF HelloRead, Handled
  <1>4. CASE HelloTimeout(c) \/ TlsAccepted(c) \/ TlsAcceptTimeout(c) \/ HandshakeEnds(c)
    BY <1>1, <1>4 DEF HelloTimeout, TlsAccepted, TlsAcceptTimeout, HandshakeEnds, Handled
  <1>5. CASE HandshakeDone(c)
    BY <1>2, <1>5, Zenon DEF HandshakeDone, Handled
  <1>6. CASE ServeEnds(c) \/ Upgrade(c) \/ UploadStalls(c) \/ UploadGoesOn(c)
    <2>1. TypeOK'
      BY SMTT(30), <1>6 DEF ServeEnds, Upgrade, UploadStalls, UploadGoesOn, TypeOK, limits, Handled
    <2>2. MovesNoPermit
      BY <1>6, SMTT(30) DEF MovesNoPermit, ServeEnds, Upgrade, UploadStalls, UploadGoesOn, TypeOK, Handled,
                            limits
    <2> QED
      BY <2>1, <2>2, KeepsLInv, SMTT(30)
  <1>7. CASE SpliceEnds(c)
    <2>1. TypeOK'
      BY <1>7 DEF SpliceEnds, TypeOK, limits, Handled
    <2>2. MovesNoPermit
      BY <1>7 DEF MovesNoPermit, SpliceEnds, limits
    <2> QED
      BY <2>1, <2>2, KeepsLInv
  <1>8. CASE DropIpPermit(c)
    <2>1. PICK here \in Ip : here = IpOf[c] /\ Count(here) = Cardinality(IpHolders(here))
      BY ListenerAssumption, ZenonT(30) DEF CountsAreExact
    <2>2. /\ Holders' = Holders
          /\ IpHolders(here)' = IpHolders(here) \ {c} /\ c \in IpHolders(here)
          /\ \A ip : ip # here => IpHolders(ip)' = IpHolders(ip)
      BY <1>8, <2>1 DEF DropIpPermit, TypeOK, Holders, IpHolders, Handled
    <2>3. Cardinality(IpHolders(here)') = Cardinality(IpHolders(here)) - 1
      BY <2>2, HoldersFinite, FS_RemoveElement, ZenonT(60)
    <2>4. Cardinality(IpHolders(here)) >= 1 /\ Count(here) \in Nat \ {0}
      BY SMTT(30), <2>1, <2>2, HoldersFinite, FS_EmptySet
    <2>5. TypeOK'
      BY SMTT(30), <1>8, <2>1, <2>4 DEF DropIpPermit, TypeOK, WithCount, WithoutIp, task, Handled
    <2>6. PermitsAddUp'
      BY <1>8, <2>2, ZenonT(30) DEF DropIpPermit, PermitsAddUp
    <2>7. \A ip \in Ip : Count(ip)' = IF ip = here THEN Count(here) - 1 ELSE Count(ip)
      BY SMTT(30), <1>8, <2>1, <2>4 DEF DropIpPermit, Count, WithCount, WithoutIp
    <2>8. CountsAreExact'
      <3>1. ASSUME NEW ip \in Ip PROVE Count(ip)' = Cardinality(IpHolders(ip)')
        BY <2>1, <2>2, <2>3, <2>7 DEF CountsAreExact
      <3>2. ASSUME NEW ip \in Ip, ip \in DOMAIN counts' PROVE IpHolders(ip)' # {}
        <4>1. CASE ip = here
          <5>1. Count(here) # 1
            BY <1>8, <2>1, <3>2, <4>1 DEF DropIpPermit, WithoutIp
          <5>2. Cardinality(IpHolders(here)') # 0
            BY <2>1, <2>3, <2>4, <5>1, SMTT(30)
          <5> QED
            BY <4>1, <5>2, FS_EmptySet
        <4>2. CASE ip # here
          BY <1>8, <2>1, <2>2, <3>2, <4>2 DEF CountsAreExact, DropIpPermit, WithCount, WithoutIp
        <4> QED
          BY <4>1, <4>2
      <3> QED
        BY <3>1, <3>2 DEF CountsAreExact
    <2>9. ShareOfAnIp'
      <3>1. max_conns_per_ip' = max_conns_per_ip
        BY DEF max_conns_per_ip
      <3>2. ASSUME NEW ip \in Ip PROVE Cardinality(IpHolders(ip)') <= max_conns_per_ip
        <4>1. CASE ip = here
          BY SMTT(30), <2>3, <4>1, HoldersFinite, CapType DEF ShareOfAnIp
        <4>2. CASE ip # here
          BY <2>2, <4>2 DEF ShareOfAnIp
        <4> QED
          BY <4>1, <4>2
      <3> QED
        BY <3>1, <3>2 DEF ShareOfAnIp
    <2> QED
      BY <2>5, <2>6, <2>8, <2>9 DEF LInv
  <1>9. CASE DropPermit(c)
    <2>1. /\ Holders' = Holders \ {c} /\ c \in Holders
          /\ \A ip : IpHolders(ip)' = IpHolders(ip)
      BY <1>9 DEF DropPermit, TypeOK, Holders, IpHolders, Handled
    <2>2. Cardinality(Holders') = Cardinality(Holders) - 1 /\ Cardinality(Holders') \in Nat
      BY <2>1, HoldersFinite, FS_RemoveElement, FS_CardinalityType
    <2>3. PermitsAddUp'
      BY SMTT(30), <1>9, <2>2, HoldersFinite, ListenerAssumption DEF DropPermit, PermitsAddUp, TypeOK
    <2>4. permits + 1 \in 0..MaxConns
      BY SMTT(30), <2>2, HoldersFinite, ListenerAssumption DEF PermitsAddUp, TypeOK
    <2>5. TypeOK'
      BY <1>9, <2>4 DEF DropPermit, TypeOK, task, Handled
    <2>6. CountsAreExact' /\ ShareOfAnIp'
      BY <1>9, <2>1, SMTT(30) DEF DropPermit, CountsAreExact, ShareOfAnIp, Count, max_conns_per_ip
    <2> QED
      BY <2>3, <2>5, <2>6, SMTT(30) DEF LInv
  <1>10. CASE Forget(c)
    <2>1. TypeOK'
      BY <1>10 DEF Forget, TypeOK, limits, task, Handled
    <2>2. MovesNoPermit
      BY <1>10 DEF MovesNoPermit, Forget, TypeOK, Handled, limits
    <2> QED
      BY <2>1, <2>2, KeepsLInv
  <1> QED
    BY <1>3, <1>4, <1>5, <1>6, <1>7, <1>8, <1>9, <1>10, SMTT(30) DEF Task

\* Every step keeps the invariant.
LEMMA NextLInv == LInv /\ [Next]_vars => LInv'
  <1> SUFFICES ASSUME LInv, [Next]_vars PROVE LInv'
    OBVIOUS
  <1>1. CASE AcceptLoop
    BY <1>1, LoopLInv
  <1>2. ASSUME NEW c \in Conn, Connect(c) PROVE LInv'
    <2>1. TypeOK'
      BY <1>2 DEF LInv, Connect, TypeOK, limits, Handled
    <2>2. MovesNoPermit
      BY SMTT(30), <1>2 DEF MovesNoPermit, Connect, TypeOK, Handled, limits
    <2> QED
      BY <2>1, <2>2, KeepsLInv
  <1>3. ASSUME NEW c \in Conn, Leave(c) PROVE LInv'
    <2>1. TypeOK'
      BY <1>3 DEF LInv, Leave, TypeOK, limits, Handled
    <2>2. MovesNoPermit
      BY <1>3 DEF MovesNoPermit, Leave, limits
    <2> QED
      BY <2>1, <2>2, KeepsLInv
  <1>4. ASSUME NEW c \in Conn, Task(c) PROVE LInv'
    BY <1>4, TaskLInv
  <1>5. CASE UNCHANGED vars
    <2>1. TypeOK'
      BY <1>5 DEF LInv, vars, TypeOK, Handled
    <2>2. MovesNoPermit
      BY <1>5 DEF MovesNoPermit, vars, limits
    <2> QED
      BY <2>1, <2>2, KeepsLInv
  <1> QED
    BY <1>1, <1>2, <1>3, <1>4, <1>5 DEF Next

\* Whatever ends a connection, shed, timed out, failed, served or upgraded, its
\* permits come back exactly once (accept_loop, IpPermit::drop).
THEOREM PermitsNeverLeak == Spec => []PermitsAddUp
  <1>1. LInv => PermitsAddUp
    BY DEF LInv
  <1> QED
    BY <1>1, InitLInv, NextLInv, PTL DEF Spec

\* PerIpLimiter's count of an address is that of its connections, it forgets an
\* address without any, so that its map does not grow, and no address is handled on
\* more than max_conns_per_ip connections.
THEOREM LimiterCounts == Spec => []LimiterIsExact
  <1>1. LInv => LimiterIsExact
    BY DEF LInv, LimiterIsExact
  <1> QED
    BY <1>1, InitLInv, NextLInv, PTL DEF Spec
-----------------------------------------------------------------------------
(* Liveness: the fairness of FairSpec acts where NothingIsStuck says it can. *)

\* Where the loop does not wait for a client, and where a task waits for none or for
\* one that is gone, there is a step to take; and so there is for a client in the
\* backlog when the loop waits for one.  This can be read off the guards of the
\* actions; the prover, which has no rules for ENABLED, takes it as a hypothesis.
NothingIsStuck ==
    /\ loop \in {"backoff", "global", "per_ip"} => ENABLED <<LoopProgress>>_vars
    /\ \A c \in Conn :
          /\ \/ pc[c] \in {"hello", "tls", "ended", "ip_dropped"}
             \/ c \in left /\ (pc[c] = "handshake" \/ Watched(c))
             => ENABLED <<Progress(c)>>_vars
          /\ loop = "accept" /\ pc[c] = "queued" => ENABLED <<Accept(c)>>_vars

\* Once a connection has a task only that task moves it, and a client that is gone
\* stays gone.
LEMMA OnlyTheTask ==
  ASSUME TypeOK, NEW c \in Conn, [Next]_vars, pc[c] \notin {"idle", "queued", "accepted"}
  PROVE  Task(c) \/ (pc'[c] = pc[c] /\ kind'[c] = kind[c] /\ (c \in left => c \in left'))
  <1>1. CASE AcceptLoop
    <2>1. UNCHANGED task
      BY <1>1 DEF AcceptLoop, Accept, AcceptFails, BackedOff, GlobalAcquired, ShedGlobal, IpAcquired,
                  ShedPerIp, Cancelled
    <2>2. c # accepted
      BY DEF TypeOK
    <2>3. ASSUME NEW d \in Conn, Accept(d) PROVE pc'[c] = pc[c]
      BY <2>3 DEF Accept, TypeOK
    <2>4. ASSUME AcceptFails \/ BackedOff \/ GlobalAcquired PROVE pc'[c] = pc[c]
      BY <2>4 DEF AcceptFails, BackedOff, GlobalAcquired
    <2>5. ASSUME ShedGlobal \/ IpAcquired \/ ShedPerIp PROVE pc'[c] = pc[c]
      BY <2>2, <2>5 DEF ShedGlobal, IpAcquired, ShedPerIp, TypeOK
    <2>6. ASSUME Cancelled PROVE pc'[c] = pc[c]
      BY <2>6 DEF Cancelled, TypeOK
    <2>7. pc'[c] = pc[c]
      BY <1>1, <2>3, <2>4, <2>5, <2>6 DEF AcceptLoop
    <2> QED BY <2>1, <2>7 DEF task
  <1>2. ASSUME NEW d \in Conn, Connect(d) \/ Leave(d)
        PROVE  pc'[c] = pc[c] /\ kind'[c] = kind[c] /\ (c \in left => c \in left')
    BY <1>2 DEF Connect, Leave, TypeOK
  <1>3. ASSUME NEW d \in Conn, Task(d), d # c
        PROVE  pc'[c] = pc[c] /\ kind'[c] = kind[c] /\ (c \in left => c \in left')
    <2>1. CASE HelloRead(d) \/ HelloTimeout(d) \/ TlsAccepted(d) \/ TlsAcceptTimeout(d)
      BY <1>3, <2>1 DEF HelloRead, HelloTimeout, TlsAccepted, TlsAcceptTimeout, GoesOn, task, TypeOK
    <2>2. CASE HandshakeDone(d) \/ HandshakeEnds(d) \/ ServeEnds(d)
      BY <1>3, <2>2 DEF HandshakeDone, HandshakeEnds, ServeEnds, GoesOn, task, TypeOK
    <2>3. CASE Upgrade(d) \/ SpliceEnds(d) \/ Forget(d)
      BY <1>3, <2>3 DEF Upgrade, SpliceEnds, Forget, task, TypeOK
    <2>4. CASE DropIpPermit(d) \/ DropPermit(d)
      BY <1>3, <2>4 DEF DropIpPermit, DropPermit, task, TypeOK
    <2>5. CASE UploadStalls(d) \/ UploadGoesOn(d)
      BY <1>3, <2>5 DEF UploadStalls, UploadGoesOn, task, TypeOK
    <2> QED BY <1>3, <2>1, <2>2, <2>3, <2>4, <2>5 DEF Task
  <1>4. CASE UNCHANGED vars
    BY <1>4 DEF vars
  <1> QED BY <1>1, <1>2, <1>3, <1>4 DEF Next

\* The way of a connection through its task, and what becomes of its client.
LEMMA TaskMoves ==
  ASSUME TypeOK, NEW c \in Conn, Task(c)
  PROVE  /\ left' = left
         /\ pc[c] = "hello" => \/ pc'[c] = "hello" \/ pc'[c] = "ended"
                               \/ c \notin left /\ pc'[c] = "tls"
                               \/ pc'[c] = "serve" /\ kind'[c] = "pipe"
         /\ pc[c] = "tls" => pc'[c] \in {"tls", "handshake", "ended"}
         /\ pc[c] = "handshake" /\ c \in left => pc'[c] \in {"handshake", "ended"}
         /\ Watched(c) => Watched(c)' \/ Unwatched(c)' \/ pc'[c] = "ended"
         /\ pc[c] = "ended" => pc'[c] \in {"ended", "ip_dropped"}
         /\ pc[c] = "ip_dropped" => pc'[c] \in {"ip_dropped", "closed"}
  <1>1. CASE HelloRead(c) \/ HelloTimeout(c)
    BY <1>1 DEF HelloRead, HelloTimeout, GoesOn, task, TypeOK, Watched
  <1>2. CASE TlsAccepted(c) \/ TlsAcceptTimeout(c)
    BY <1>2 DEF TlsAccepted, TlsAcceptTimeout, GoesOn, task, TypeOK, Watched
  <1>3. CASE HandshakeDone(c) \/ HandshakeEnds(c)
    BY <1>3 DEF HandshakeDone, HandshakeEnds, GoesOn, task, TypeOK, Watched
  <1>4. CASE ServeEnds(c) \/ Upgrade(c) \/ SpliceEnds(c)
    BY <1>4 DEF ServeEnds, Upgrade, SpliceEnds, TypeOK, Watched, Unwatched
  <1>5. CASE DropIpPermit(c) \/ DropPermit(c) \/ Forget(c)
    BY <1>5 DEF DropIpPermit, DropPermit, Forget, task, TypeOK, Watched, Unwatched
  <1>6. CASE UploadStalls(c) \/ UploadGoesOn(c)
    BY <1>6 DEF UploadStalls, UploadGoesOn, TypeOK, Watched, Unwatched
  <1> QED BY <1>1, <1>2, <1>3, <1>4, <1>5, <1>6 DEF Task

\* A step that a task takes by itself brings it on.
LEMMA ProgressMoves ==
  ASSUME TypeOK, NEW c \in Conn, <<Progress(c)>>_vars
  PROVE  /\ Task(c)
         /\ pc[c] \in {"hello", "handshake", "serve"} => pc'[c] = "ended"
         /\ pc[c] = "tls" => pc'[c] \in {"handshake", "ended"}
         /\ pc[c] = "ended" => pc'[c] = "ip_dropped"
         /\ pc[c] = "ip_dropped" => pc'[c] = "closed"
  <1>1. Task(c)
    BY Zenon DEF Progress, Task
  <1>2. CASE HelloTimeout(c) \/ TlsAccepted(c) \/ TlsAcceptTimeout(c) \/ HandshakeEnds(c)
    BY <1>1, <1>2 DEF HelloTimeout, TlsAccepted, TlsAcceptTimeout, HandshakeEnds, GoesOn, TypeOK
  <1>3. CASE ServeEnds(c) \/ DropIpPermit(c) \/ DropPermit(c)
    BY <1>1, <1>3 DEF ServeEnds, DropIpPermit, DropPermit, TypeOK
  <1> QED BY Zenon, <1>2, <1>3 DEF Progress

\* No client is in the backlog of a listener that has stopped.
Stopped == loop = "stopped" => \A c \in Conn : pc[c] # "queued"

\* What a step does to the loop, and to a client in the backlog.
LEMMA LoopMoves ==
  ASSUME TypeOK, Stopped, [Next]_vars
  PROVE  /\ Stopped'
         /\ loop = "backoff" => loop' \in {"backoff", "accept"}
         /\ loop = "global" => loop' \in {"global", "per_ip", "accept"}
         /\ loop = "per_ip" => loop' \in {"per_ip", "accept"}
  <1>1. CASE AcceptLoop
    <2>1. CASE \E d \in Conn : Accept(d)
      BY <2>1 DEF Accept, Stopped
    <2>2. CASE AcceptFails \/ BackedOff \/ GlobalAcquired
      BY <2>2 DEF AcceptFails, BackedOff, GlobalAcquired, Stopped
    <2>3. CASE ShedGlobal \/ IpAcquired \/ ShedPerIp
      BY <2>3 DEF ShedGlobal, IpAcquired, ShedPerIp, Stopped
    <2>4. CASE Cancelled
      BY <2>4 DEF Cancelled, Stopped
    <2> QED BY <1>1, <2>1, <2>2, <2>3, <2>4 DEF AcceptLoop
  <1>2. ASSUME NEW d \in Conn, Connect(d) \/ Leave(d) \/ Task(d)
        PROVE  loop' = loop /\ Stopped'
    <2>1. CASE Connect(d) \/ Leave(d)
      BY <2>1 DEF Connect, Leave, Stopped
    <2>2. CASE Task(d)
      <3>1. loop' = loop
        BY <2>2 DEF Task, HelloRead, HelloTimeout, TlsAccepted, TlsAcceptTimeout, HandshakeDone,
                    HandshakeEnds, ServeEnds, Upgrade, UploadStalls, UploadGoesOn, SpliceEnds,
                    DropIpPermit, DropPermit, Forget, GoesOn
      <3>2. \E v \in {"tls", "ended", "serve", "handshake", "ip_dropped", "closed", "idle"} :
               pc' = [pc EXCEPT ![d] = v] \/ pc' = pc
        BY <2>2 DEF Task, HelloRead, HelloTimeout, TlsAccepted, TlsAcceptTimeout, HandshakeDone,
                    HandshakeEnds, ServeEnds, Upgrade, UploadStalls, UploadGoesOn, SpliceEnds,
                    DropIpPermit, DropPermit, Forget, GoesOn
      <3> QED BY <3>1, <3>2 DEF Stopped, TypeOK
    <2> QED BY <1>2, <2>1, <2>2
  <1>3. CASE UNCHANGED vars
    BY <1>3 DEF vars, Stopped
  <1> QED BY <1>1, <1>2, <1>3 DEF Next

\* What holds of every step.
LEMMA SafeSteps == Spec => []TypeOK /\ []Stopped /\ [][Next]_vars
  <1>1. LInv => TypeOK
    BY DEF LInv
  <1>2. Init => Stopped
    BY DEF Init, Stopped
  <1>3. TypeOK /\ Stopped /\ [Next]_vars => Stopped'
    BY LoopMoves
  <1> QED BY <1>1, <1>2, <1>3, InitLInv, NextLInv, PTL DEF Spec

\* A client that sends no ClientHello, or that leaves in the handshake or in an HTTP
\* connection, costs its permits for a time only (handle_public, accept_loop), but
\* for a pipe and for a request body whose backend does not read it.
THEOREM PermitsComeBack == FairSpec /\ []NothingIsStuck => PermitReturns
  <1> DEFINE At(c, v) == pc[c] = v
             Deserted(c, v) == c \in left /\ pc[c] = v
             Served(c) == c \in left /\ Watched(c)
             Start(c) == pc[c] = "hello" \/ (c \in left /\ (pc[c] \in {"tls", "handshake"} \/ Watched(c)))
             Over(c) == \/ pc[c] = "closed"
                        \/ c \notin left /\ pc[c] \in {"tls", "handshake", "serve"}
                        \/ Unwatched(c)
             Any(c) == \/ At(c, "hello") \/ Deserted(c, "tls") \/ Deserted(c, "handshake")
                       \/ Served(c) \/ At(c, "ended") \/ At(c, "ip_dropped")
  <1> SUFFICES ASSUME NEW c \in Conn PROVE FairSpec /\ []NothingIsStuck => (Start(c) ~> Over(c))
    BY DEF PermitReturns
  <1>1. FairSpec => Fairness(c)
    BY DEF FairSpec
  <1>2. ASSUME TypeOK, [Next]_vars
        PROVE  /\ At(c, "hello") => At(c, "hello")' \/ At(c, "ended")' \/ Deserted(c, "tls")' \/ Over(c)'
               /\ Deserted(c, "tls") => Deserted(c, "tls")' \/ Deserted(c, "handshake")' \/ At(c, "ended")'
               /\ Deserted(c, "handshake") => Deserted(c, "handshake")' \/ At(c, "ended")'
               /\ Served(c) => Served(c)' \/ At(c, "ended")' \/ Over(c)'
               /\ At(c, "ended") => At(c, "ended")' \/ At(c, "ip_dropped")'
               /\ At(c, "ip_dropped") => At(c, "ip_dropped")' \/ Over(c)'
    <2>1. CASE Task(c)
      BY <2>1, <1>2, TaskMoves DEF Unwatched
    <2>2. CASE pc'[c] = pc[c] /\ kind'[c] = kind[c] /\ (c \in left => c \in left')
      BY <2>2 DEF Watched
    <2>3. At(c, "hello") \/ Deserted(c, "tls") \/ Deserted(c, "handshake") \/ Served(c)
             \/ At(c, "ended") \/ At(c, "ip_dropped")
             => pc[c] \notin {"idle", "queued", "accepted"}
      BY DEF Watched
    <2> QED BY <1>2, <2>1, <2>2, <2>3, OnlyTheTask
  <1>3. ASSUME TypeOK, <<Progress(c)>>_vars
        PROVE  /\ At(c, "hello") \/ Deserted(c, "handshake") \/ Served(c) => At(c, "ended")'
               /\ Deserted(c, "tls") => Deserted(c, "handshake")' \/ At(c, "ended")'
               /\ At(c, "ended") => At(c, "ip_dropped")'
               /\ At(c, "ip_dropped") => Over(c)'
    BY <1>3, ProgressMoves, TaskMoves DEF Watched
  <1>4. NothingIsStuck /\ Any(c) => ENABLED <<Progress(c)>>_vars
    BY Zenon DEF NothingIsStuck
  <1>5. Start(c) => Any(c)
    OBVIOUS
  <1> HIDE DEF At, Deserted, Served, Start, Over
  <1> QED BY <1>1, <1>2, <1>3, <1>4, <1>5, SafeSteps, PTL DEF FairSpec, Fairness

\* A client in the backlog is taken from it: the loop comes back to accept() from
\* every error and every connection it spawns or sheds (accept_loop).
THEOREM BacklogIsServed == FairSpec /\ []NothingIsStuck => QueuedIsAnswered
  <1> DEFINE Queued(c) == pc[c] = "queued"
             Taken(c) == pc[c] # "queued"
             Loop(v) == loop = v
             Busy == Loop("backoff") \/ Loop("global") \/ Loop("per_ip")
  <1> SUFFICES ASSUME NEW c \in Conn PROVE FairSpec /\ []NothingIsStuck => (Queued(c) ~> Taken(c))
    BY DEF QueuedIsAnswered
  <1>1. FairSpec => Fairness(c)
    BY DEF FairSpec
  <1>2. ASSUME TypeOK, Stopped, [Next]_vars
        PROVE  /\ Loop("backoff") => Loop("backoff")' \/ Loop("accept")'
               /\ Loop("global") => Loop("global")' \/ Loop("per_ip")' \/ Loop("accept")'
               /\ Loop("per_ip") => Loop("per_ip")' \/ Loop("accept")'
    BY <1>2, LoopMoves
  <1>3. ASSUME TypeOK, <<LoopProgress>>_vars
        PROVE  /\ Loop("backoff") \/ Loop("per_ip") => Loop("accept")'
               /\ Loop("global") => Loop("per_ip")' \/ Loop("accept")'
    BY <1>3 DEF LoopProgress, BackedOff, GlobalAcquired, ShedGlobal, IpAcquired, ShedPerIp
  <1>4. TypeOK /\ <<Accept(c)>>_vars => Taken(c)'
    BY DEF Accept, TypeOK
  <1>5. TypeOK /\ Stopped /\ Queued(c) => Loop("accept") \/ Busy
    BY DEF TypeOK, Stopped
  <1>6. /\ NothingIsStuck /\ Busy => ENABLED <<LoopProgress>>_vars
        /\ NothingIsStuck /\ Loop("accept") /\ Queued(c) => ENABLED <<Accept(c)>>_vars
    BY Zenon DEF NothingIsStuck
  <1>7. Queued(c) \/ Taken(c)
    OBVIOUS
  <1> HIDE DEF Queued, Taken, Loop
  <1> QED BY <1>1, <1>2, <1>3, <1>4, <1>5, <1>6, <1>7, SafeSteps, PTL DEF FairSpec, LoopFairness, Fairness
=============================================================================
