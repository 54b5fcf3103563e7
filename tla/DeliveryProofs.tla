--------------------------- MODULE DeliveryProofs ----------------------------
(***************************************************************************)
(* What is known at the far end: an observer's view of the tunnels         *)
(* (ControlEvents) and a sink's bytes (DataPath).                          *)
(*                                                                         *)
(* ControlEvents: ViewWillAgree for every number of tunnels and every      *)
(* capacity.                                                               *)
(*                                                                         *)
(* DataPath: EndMeansAll for any number of bytes.  A sink's end says       *)
(* nothing of the links before it, so the invariant carries the end along  *)
(* the path: a link that was finished in a direction without failures has  *)
(* nothing behind it, and nothing is on the QUIC stream before it is       *)
(* opened.                                                                 *)
(***************************************************************************)
EXTENDS ControlEvents, DataPath, TLAPS

\* A leaf is for Zenon unless it names another backend.
USE Zenon
-----------------------------------------------------------------------------
(* ControlEvents. *)

Types ==
    /\ handler \in [Tunnel -> {"gone", "registering", "up", "unregistering"}]
    /\ tunnels \in SUBSET Tunnel
    /\ queue \in Seq(Event)
    /\ lagged \in BOOLEAN
    /\ watcher = "away" => queue = <<>>

\* The registry holds the tunnels whose handler wrote them and did not remove them.
Recorded == \A t \in Tunnel : t \in tunnels <=> handler[t] \in {"registering", "up"}

Settled(t) == handler[t] \in {"gone", "up"}

\* The last waiting event about a settled tunnel is true, also for an observer that
\* lagged or that has no snapshot yet.
QueueIsTrue ==
    \A t \in Tunnel : \A i \in DOMAIN queue :
        Settled(t) /\ LastAbout(t, i) => (queue[i].kind = "TunnelUp" <=> t \in tunnels)

\* Where no event is waiting, the view of an observer that did not lag is true.
ViewIsTrue ==
    watcher = "recv" /\ ~lagged =>
        \A t \in Tunnel : Settled(t) /\ Silent(t) => (t \in view <=> t \in tunnels)

IInv == Types /\ Recorded /\ QueueIsTrue /\ ViewIsTrue

\* send keeps the events in order: the queue, or its tail, and then the new one.
LEMMA SendEffect ==
    ASSUME NEW e \in Event, queue \in Seq(Event), lagged \in BOOLEAN, send(e)
    PROVE  /\ queue' \in Seq(Event) /\ lagged' \in BOOLEAN
           /\ watcher = "away" => queue' = queue /\ lagged' = lagged
           /\ watcher # "away" =>
                \/ queue' = Append(queue, e) /\ lagged' = lagged
                \/ queue' = Append(Tail(queue), e) /\ queue # <<>> /\ lagged' = TRUE
  <1>1. CASE watcher = "away"
    BY <1>1 DEF send
  <1>2. CASE watcher # "away" /\ Len(queue) < EVENT_CAPACITY
    BY SMTT(30), <1>2, CapacityAssumption DEF send
  <1>3. CASE watcher # "away" /\ ~(Len(queue) < EVENT_CAPACITY)
    <2>1. queue # <<>> /\ queue' = Append(Tail(queue), e)
      BY SMTT(30), <1>3, CapacityAssumption DEF send
    <2>2. lagged' = TRUE
      <3>1. Len(queue) \in Nat /\ EVENT_CAPACITY \in Nat
        BY SMTT(30), CapacityAssumption
      <3>2. Len(queue) >= EVENT_CAPACITY
        BY SMTT(30), <1>3, <3>1
      <3>3. lagged' = (lagged \/ Len(queue) >= EVENT_CAPACITY)
        BY <1>3, Zenon DEF send
      <3> QED BY <3>2, <3>3, Zenon
    <2>3. queue' \in Seq(Event)
      BY SMTT(30), <2>1
    <2> QED
      BY <1>3, <2>1, <2>2, <2>3, Zenon
  <1> QED BY <1>1, <1>2, <1>3, Zenon

LEMMA InitInv == Init => IInv
  <1> SUFFICES ASSUME Init PROVE IInv
    OBVIOUS
  <1>1. queue = <<>> /\ DOMAIN queue = {} /\ queue \in Seq(Event)
    BY SMTT(30) DEF Init
  <1>2. Types
    BY <1>1, Zenon DEF Init, Types
  <1>3. Recorded
    BY DEF Init, Recorded
  <1>4. QueueIsTrue /\ ViewIsTrue
    BY <1>1 DEF Init, QueueIsTrue, ViewIsTrue
  <1> QED BY <1>2, <1>3, <1>4 DEF IInv

\* Sending the event of the registry write that t's handler just made settles t
\* and leaves what is known of the others.
LEMMA SendAbout ==
    ASSUME IInv, NEW t \in Tunnel, NEW k \in {"TunnelUp", "TunnelDown"},
           send([kind |-> k, tunnel |-> t]),
           handler[t] \in {"registering", "unregistering"},
           k = "TunnelUp" <=> handler[t] = "registering",
           handler' = [handler EXCEPT ![t] = IF k = "TunnelUp" THEN "up" ELSE "gone"],
           UNCHANGED <<tunnels, watcher, view>>
    PROVE  IInv'
  <1> DEFINE e == [kind |-> k, tunnel |-> t]
  <1>1. e \in Event /\ e.tunnel = t /\ e.kind = k
    BY DEF Event
  <1>2. queue \in Seq(Event) /\ lagged \in BOOLEAN
    BY DEF IInv, Types
  <1>3. /\ queue' \in Seq(Event) /\ lagged' \in BOOLEAN
        /\ watcher = "away" => queue' = queue /\ lagged' = lagged
        /\ watcher # "away" =>
             \/ queue' = Append(queue, e) /\ lagged' = lagged
             \/ queue' = Append(Tail(queue), e) /\ queue # <<>> /\ lagged' = TRUE
    BY <1>1, <1>2, SendEffect, Zenon
  <1>4. Types'
    BY <1>3 DEF IInv, Types
  <1>5. Recorded'
    BY DEF IInv, Types, Recorded
  <1>6. k = "TunnelUp" <=> t \in tunnels
    BY DEF IInv, Recorded
  <1>7. \A u \in Tunnel : u # t => (Settled(u)' <=> Settled(u))
    BY DEF Settled, IInv, Types
  <1>8. QueueIsTrue' /\ ViewIsTrue'
    <2>1. CASE watcher = "away"
      <3>1. queue' = <<>> /\ DOMAIN queue' = {}
        BY SMTT(30), <2>1, <1>3 DEF IInv, Types
      <3> QED BY <2>1, <3>1 DEF QueueIsTrue, ViewIsTrue
    <2>2. CASE queue' = Append(queue, e) /\ lagged' = lagged
      <3>1. /\ DOMAIN queue' = 1 .. (Len(queue) + 1) /\ DOMAIN queue = 1 .. Len(queue)
            /\ Len(queue) \in Nat
            /\ queue'[Len(queue) + 1] = e
            /\ \A i \in 1 .. Len(queue) : queue'[i] = queue[i]
        BY SMTT(30), <2>2, <1>1, <1>2
      <3>2. ASSUME NEW u \in Tunnel, NEW i \in DOMAIN queue', Settled(u)', LastAbout(u, i)'
            PROVE  queue'[i].kind = "TunnelUp" <=> u \in tunnels'
        <4>1. CASE u = t
          <5>1. i = Len(queue) + 1
            BY SMTT(30), <3>1, <3>2, <4>1, <1>1 DEF LastAbout
          <5> QED BY <5>1, <3>1, <1>1, <1>6, <4>1
        <4>2. CASE u # t
          <5>1. i \in DOMAIN queue /\ queue'[i] = queue[i]
            BY SMTT(30), <3>1, <3>2, <4>2, <1>1 DEF LastAbout
          <5>2. LastAbout(u, i)
            BY SMTT(30), <3>1, <3>2, <5>1 DEF LastAbout
          <5> QED BY <5>1, <5>2, <3>2, <4>2, <1>7 DEF IInv, QueueIsTrue
        <4> QED BY <4>1, <4>2
      <3>3. ASSUME NEW u \in Tunnel, watcher = "recv", ~lagged, Settled(u)', Silent(u)'
            PROVE  u \in view' <=> u \in tunnels'
        <4>1. u # t
          BY SMTT(30), <3>1, <3>3, <1>1 DEF Silent
        <4>2. Silent(u)
          BY SMTT(30), <3>1, <3>3 DEF Silent
        <4> QED BY <4>1, <4>2, <3>3, <1>7 DEF IInv, ViewIsTrue
      <3> QED BY <2>2, <3>2, <3>3 DEF QueueIsTrue, ViewIsTrue
    <2>3. CASE queue' = Append(Tail(queue), e) /\ queue # <<>> /\ lagged' = TRUE
      <3>1. /\ Len(queue) \in Nat \ {0}
            /\ DOMAIN queue' = 1 .. Len(queue) /\ DOMAIN queue = 1 .. Len(queue)
            /\ queue'[Len(queue)] = e
            /\ \A i \in 1 .. (Len(queue) - 1) : queue'[i] = queue[i + 1]
        BY SMTT(30), <2>3, <1>1, <1>2
      <3>2. ASSUME NEW u \in Tunnel, NEW i \in DOMAIN queue', Settled(u)', LastAbout(u, i)'
            PROVE  queue'[i].kind = "TunnelUp" <=> u \in tunnels'
        <4>1. CASE u = t
          <5>1. i = Len(queue)
            BY SMTT(30), <3>1, <3>2, <4>1, <1>1 DEF LastAbout
          <5> QED BY <5>1, <3>1, <1>1, <1>6, <4>1
        <4>2. CASE u # t
          <5>1. i \in 1 .. (Len(queue) - 1) /\ queue'[i] = queue[i + 1]
            BY SMTT(30), <3>1, <3>2, <4>2, <1>1 DEF LastAbout
          <5>2. i + 1 \in DOMAIN queue
            BY SMTT(30), <3>1, <5>1
          <5>3. LastAbout(u, i + 1)
            <6>1. queue[i + 1].tunnel = u
              BY <3>2, <5>1 DEF LastAbout
            <6>2. ASSUME NEW j \in DOMAIN queue, j > i + 1
                  PROVE  queue[j].tunnel # u
              <7>1. j - 1 \in DOMAIN queue' /\ j - 1 > i /\ queue'[j - 1] = queue[j]
                BY SMTT(30), <3>1, <5>1, <6>2
              <7> QED BY <7>1, <3>2 DEF LastAbout
            <6> QED BY <6>1, <6>2 DEF LastAbout
          <5> QED BY <5>1, <5>2, <5>3, <3>2, <4>2, <1>7 DEF IInv, QueueIsTrue
        <4> QED BY <4>1, <4>2
      <3> QED BY <2>3, <3>2 DEF QueueIsTrue, ViewIsTrue
    <2> QED BY <2>1, <2>2, <2>3, <1>3, Zenon
  <1> QED BY <1>4, <1>5, <1>8 DEF IInv

\* Reading an event or a Lagged error.
LEMMA RecvInv == IInv /\ Recv => IInv'
  <1> SUFFICES ASSUME IInv, Recv PROVE IInv'
    OBVIOUS
  <1>1. Recorded' /\ (\A u \in Tunnel : Settled(u)' <=> Settled(u))
    BY DEF IInv, Recorded, Recv, Settled
  <1>2. CASE lagged
    <2>1. queue' = queue /\ watcher' = "snapshot" /\ lagged' = FALSE /\ tunnels' = tunnels
      BY <1>2 DEF Recv
    <2>2. Types'
      BY <2>1, Zenon DEF IInv, Types, Recv
    <2>3. QueueIsTrue'
      BY <2>1, <1>1 DEF IInv, QueueIsTrue, LastAbout
    <2>4. ViewIsTrue'
      BY <2>1 DEF ViewIsTrue
    <2> QED BY <1>1, <2>2, <2>3, <2>4 DEF IInv
  <1>3. CASE ~lagged
    <2>1. /\ watcher = "recv" /\ watcher' = watcher /\ lagged' = lagged /\ tunnels' = tunnels
          /\ queue # <<>> /\ queue' = Tail(queue) /\ view' = Apply(view, Head(queue))
          /\ handler' = handler
      BY <1>3 DEF Recv
    <2>2. queue \in Seq(Event)
      BY DEF IInv, Types
    <2>3. /\ Len(queue) \in Nat \ {0} /\ DOMAIN queue = 1 .. Len(queue)
          /\ queue' \in Seq(Event) /\ DOMAIN queue' = 1 .. (Len(queue) - 1)
          /\ \A i \in 1 .. (Len(queue) - 1) : queue'[i] = queue[i + 1]
          /\ Head(queue) = queue[1]
      BY SMTT(30), <2>1, <2>2
    <2>4. Types'
      BY <2>1, <2>3 DEF IInv, Types
    <2>5. QueueIsTrue'
      <3> SUFFICES ASSUME NEW u \in Tunnel, NEW i \in DOMAIN queue', Settled(u)', LastAbout(u, i)'
                   PROVE  queue'[i].kind = "TunnelUp" <=> u \in tunnels'
        BY DEF QueueIsTrue
      <3>1. i + 1 \in DOMAIN queue /\ queue'[i] = queue[i + 1]
        BY SMTT(30), <2>3
      <3>2. ASSUME NEW j \in DOMAIN queue, j > i + 1
            PROVE  queue[j].tunnel # u
        <4>1. j - 1 \in DOMAIN queue' /\ j - 1 > i /\ queue'[j - 1] = queue[j]
          BY SMTT(30), <2>3, <3>2
        <4> QED BY <4>1 DEF LastAbout
      <3>3. LastAbout(u, i + 1)
        BY <3>1, <3>2 DEF LastAbout
      <3> QED BY <3>1, <3>3, <1>1, <2>1 DEF IInv, QueueIsTrue
    <2>6. ViewIsTrue'
      <3> SUFFICES ASSUME NEW u \in Tunnel, Settled(u)', Silent(u)'
                   PROVE  u \in view' <=> u \in tunnels'
        BY DEF ViewIsTrue
      <3>1. \A j \in DOMAIN queue : j > 1 => queue[j].tunnel # u
        <4> SUFFICES ASSUME NEW j \in DOMAIN queue, j > 1 PROVE queue[j].tunnel # u
          OBVIOUS
        <4>1. j - 1 \in DOMAIN queue' /\ queue'[j - 1] = queue[j]
          BY SMTT(30), <2>3
        <4> QED BY <4>1 DEF Silent
      <3>2. 1 \in DOMAIN queue /\ queue[1] \in Event
        BY SMTT(30), <2>2, <2>3
      <3>3. CASE queue[1].tunnel = u
        <4>1. queue[1].kind = "TunnelUp" <=> u \in tunnels
          BY <3>1, <3>2, <3>3, <1>1 DEF IInv, QueueIsTrue, LastAbout
        <4> QED BY <4>1, <2>1, <2>3, <3>3 DEF Apply
      <3>4. CASE queue[1].tunnel # u
        <4>1. Silent(u)
          BY SMTT(30), <3>1, <3>4, <2>3 DEF Silent
        <4>2. u \in view <=> u \in tunnels
          BY <4>1, <1>1, <1>3, <2>1 DEF IInv, ViewIsTrue
        <4> QED BY <4>2, <2>1, <2>3, <3>4 DEF Apply
      <3> QED BY <3>3, <3>4
    <2> QED BY <1>1, <2>4, <2>5, <2>6 DEF IInv
  <1> QED BY <1>2, <1>3 DEF IInv, Types

\* A step that leaves the channel and the view alone and unsettles the tunnels
\* whose registry entry it changes.
LEMMA WriteInv ==
    ASSUME IInv, Types', Recorded', UNCHANGED <<watcher, queue, lagged, view>>,
           \A u \in Tunnel : Settled(u)' => Settled(u) /\ (u \in tunnels' <=> u \in tunnels)
    PROVE  IInv'
  <1>1. QueueIsTrue'
    BY DEF IInv, QueueIsTrue, LastAbout
  <1>2. ViewIsTrue'
    BY DEF IInv, ViewIsTrue, Silent
  <1> QED BY <1>1, <1>2 DEF IInv

LEMMA NextInv == IInv /\ [Next]_vars => IInv'
  <1> SUFFICES ASSUME IInv, [Next]_vars PROVE IInv'
    OBVIOUS
  <1>1. ASSUME NEW t \in Tunnel, Record(t) PROVE IInv'
    <2>1. Types' /\ Recorded'
      BY <1>1 DEF Record, IInv, Types, Recorded
    <2>2. \A u \in Tunnel : Settled(u)' => Settled(u) /\ (u \in tunnels' <=> u \in tunnels)
      BY <1>1 DEF Record, Settled, IInv, Types
    <2> QED BY <1>1, <2>1, <2>2, WriteInv DEF Record
  <1>2. ASSUME NEW t \in Tunnel, SendUp(t) PROVE IInv'
    BY <1>2, SendAbout, Zenon DEF SendUp
  <1>3. ASSUME NEW t \in Tunnel, Remove(t) PROVE IInv'
    <2>1. t \in tunnels
      BY <1>3 DEF Remove, IInv, Recorded
    <2>2. Types' /\ Recorded'
      BY <1>3, <2>1 DEF Remove, IInv, Types, Recorded
    <2>3. \A u \in Tunnel : Settled(u)' => Settled(u) /\ (u \in tunnels' <=> u \in tunnels)
      BY <1>3, <2>1 DEF Remove, Settled, IInv, Types
    <2> QED BY <1>3, <2>2, <2>3, WriteInv DEF Remove
  <1>4. ASSUME NEW t \in Tunnel, SendDown(t) PROVE IInv'
    BY <1>4, SendAbout, Zenon DEF SendDown
  <1>5. ASSUME Subscribe \/ Unsubscribe PROVE IInv'
    <2>1. queue' = <<>> /\ DOMAIN queue' = {} /\ queue' \in Seq(Event) /\ watcher' # "recv"
      <3>1. queue' = <<>> /\ watcher' # "recv"
        BY <1>5 DEF Subscribe, Unsubscribe, IInv, Types
      <3>2. \A q : q = <<>> => DOMAIN q = {} /\ q \in Seq(Event)
        BY SMTT(30)
      <3> QED BY <3>1, <3>2
    <2>2. Types' /\ Recorded'
      <3>1. lagged' \in BOOLEAN /\ handler' = handler /\ tunnels' = tunnels
        BY <1>5, Zenon DEF Subscribe, Unsubscribe, IInv, Types
      <3> QED BY <2>1, <3>1 DEF IInv, Types, Recorded
    <2>3. QueueIsTrue' /\ ViewIsTrue'
      BY <2>1 DEF QueueIsTrue, ViewIsTrue
    <2> QED BY <2>2, <2>3 DEF IInv
  <1>6. ASSUME Snapshot PROVE IInv'
    <2>1. Types' /\ Recorded'
      BY <1>6 DEF Snapshot, IInv, Types, Recorded
    <2>2. QueueIsTrue'
      BY <1>6 DEF Snapshot, IInv, QueueIsTrue, LastAbout, Settled
    <2>3. ViewIsTrue'
      BY <1>6 DEF Snapshot, ViewIsTrue
    <2> QED BY <2>1, <2>2, <2>3 DEF IInv
  <1>7. CASE UNCHANGED vars
    BY SMTT(30), <1>7 DEF vars, IInv, Types, Recorded, QueueIsTrue, ViewIsTrue, Settled, LastAbout, Silent
  <1> QED
    BY <1>1, <1>2, <1>3, <1>4, <1>5, <1>6, <1>7, RecvInv DEF Next, register

\* The observer's view and the waiting events agree with the registry (control.rs
\* register, unregister), with any number of tunnels and any channel capacity.
THEOREM ObserverEndsUpRight == Spec => []ViewWillAgree
  <1>1. IInv => ViewWillAgree
    BY DEF IInv, QueueIsTrue, ViewIsTrue, ViewWillAgree, Settled
  <1> QED
    BY <1>1, InitInv, NextInv, PTL DEF Spec
-----------------------------------------------------------------------------
(* DataPath. *)

LinkState == [n : Nat, end : {"open", "fin", "reset"}]

PathTypes ==
    /\ server \in {"open", "dial", "pipe", "splice", "ended"}
    /\ client \in {"none", "opened", "pipe", "ended"}
    /\ link \in [Dir -> [Links -> LinkState]]
    /\ sent \in [Dir -> Nat] /\ got \in [Dir -> Nat]
    /\ broken \subseteq Dir

\* The bytes of direction d that are on its links or were read.
Held(d) == got[d] + link[d][1].n + link[d][2].n + link[d][3].n

\* The client's task exists once the stream is open, and the stream is used only then.
StreamIsOpened ==
    /\ server \in {"open", "dial", "splice"} => client = "none"
    /\ server = "pipe" => client # "none"
    /\ client = "none" => \A d \in Dir : link[d][2].n = 0

\* No byte is made up, and none is lost where nothing fails.
BytesKept ==
    \A d \in Dir : Held(d) <= sent[d] /\ (d \notin broken => Held(d) = sent[d])

\* Where nothing fails, a link is finished only after all before it.
EndsInOrder ==
    \A d \in Dir, k \in {2, 3} :
        (d \notin broken /\ link[d][k].end = "fin") =>
            /\ link[d][1].end = "fin" /\ link[d][1].n = 0
            /\ k = 3 => link[d][2].n = 0

\* A first copy that is over, where nothing fails, has read all of its source.
OverIsRead ==
    \A d \in Dir : (d \notin broken /\ <<d, 1>> \in over) =>
        link[d][1].end = "fin" /\ link[d][1].n = 0

PathInv == PathTypes /\ StreamIsOpened /\ BytesKept /\ EndsInOrder /\ OverIsRead
-----------------------------------------------------------------------------
(* The invariant holds initially and gives the property. *)
LEMMA InitPathInv == InitPath => PathInv
  BY SMTT(30) DEF InitPath, PathInv, PathTypes, StreamIsOpened, BytesKept, EndsInOrder, OverIsRead, Held,
         LinkState, Dir, Links

LEMMA PathInvImplies == PathInv => EndMeansAll
<1> SUFFICES ASSUME PathInv, NEW d \in Dir
             PROVE  /\ Held(d) <= sent[d]
                    /\ (d \notin broken /\ link[d][3].end = "fin") =>
                          link[d][1].end = "fin" /\ got[d] + link[d][3].n = sent[d]
  BY DEF EndMeansAll, Held
<1>1. got[d] \in Nat /\ sent[d] \in Nat /\ \A k \in Links : link[d][k].n \in Nat
  BY DEF PathInv, PathTypes, LinkState
<1>2. /\ Held(d) <= sent[d] /\ (d \notin broken => Held(d) = sent[d])
      /\ (d \notin broken /\ link[d][3].end = "fin") =>
            link[d][1].end = "fin" /\ link[d][1].n = 0 /\ link[d][2].n = 0
  BY DEF PathInv, BytesKept, EndsInOrder
<1> QED  BY SMTT(30), <1>1, <1>2 DEF Held, Links

-----------------------------------------------------------------------------
(* What the ends and the environment do. *)
LEMMA LinkNames == Links = {1, 2, 3}
  BY SMTT(30) DEF Links

LEMMA NatTypes ==
  PathTypes => \A e \in Dir : /\ got[e] \in Nat /\ sent[e] \in Nat
                          /\ link[e][1].n \in Nat /\ link[e][2].n \in Nat /\ link[e][3].n \in Nat
  BY SMTT(30) DEF PathTypes, LinkState, Links

LEMMA SendsInv == ASSUME PathInv, NEW d \in Dir, Sends(d) PROVE PathInv'
<1> USE DEF PathInv, Sends, Links, LinkState
<1>1. PathTypes'  BY SMTT(30) DEF PathTypes
<1>2. StreamIsOpened'  BY SMTT(30) DEF PathTypes, StreamIsOpened
<1>3. BytesKept'  BY SMTT(30) DEF PathTypes, BytesKept, Held
<1>4. EndsInOrder'  BY SMTT(30) DEF PathTypes, EndsInOrder
<1>5. OverIsRead'  BY DEF PathTypes, OverIsRead
<1> QED  BY <1>1, <1>2, <1>3, <1>4, <1>5

LEMMA FinishesInv == ASSUME PathInv, NEW d \in Dir, Finishes(d) PROVE PathInv'
<1> USE DEF PathInv, Finishes, Links, LinkState
<1>1. PathTypes'  BY SMTT(30) DEF PathTypes
<1>2. StreamIsOpened'  BY SMTT(30) DEF PathTypes, StreamIsOpened
<1>3. BytesKept'  BY SMTT(30) DEF PathTypes, BytesKept, Held
<1>4. EndsInOrder'  BY SMTT(30) DEF PathTypes, EndsInOrder
<1>5. OverIsRead'  BY DEF PathTypes, OverIsRead
<1> QED  BY <1>1, <1>2, <1>3, <1>4, <1>5

LEMMA ReceivesInv == ASSUME PathInv, NEW d \in Dir, Receives(d) PROVE PathInv'
<1> USE DEF PathInv, Links, LinkState
<1>1. /\ link' \in [Dir -> [Links -> LinkState]]
      /\ \A e \in Dir, k \in Links :
            /\ link'[e][k].end = link[e][k].end
            /\ link'[e][k].n = IF e = d /\ k = 3 THEN link[e][k].n - 1 ELSE link[e][k].n
  <2>1. link[d][3] \in LinkState /\ link[d][3].n > 0  BY SMTT(30) DEF PathTypes, Receives
  <2>2. [link[d][3] EXCEPT !.n = @ - 1] \in LinkState  BY SMTT(30), <2>1
  <2>3. link' = [link EXCEPT ![d] = [link[d] EXCEPT ![3] = [link[d][3] EXCEPT !.n = @ - 1]]]
    BY SMTT(30) DEF PathTypes, Receives
  <2> QED  BY <2>2, <2>3 DEF PathTypes
<1>2. PathTypes'  BY <1>1, SMTT(30) DEF PathTypes, Receives
<1>3. StreamIsOpened'  BY <1>1, SMTT(30) DEF PathTypes, StreamIsOpened, Receives
<1>4. BytesKept'  BY <1>1, SMTT(30) DEF PathTypes, BytesKept, Held, Receives
<1>5. EndsInOrder'  BY <1>1, SMTT(30) DEF PathTypes, EndsInOrder, Receives
<1>6. OverIsRead'  BY SMTT(30), <1>1 DEF OverIsRead, Receives
<1> QED  BY <1>2, <1>3, <1>4, <1>5, <1>6, SMTT(30)

LEMMA LeavesInv == ASSUME PathInv, NEW d \in Dir, Leaves(d) PROVE PathInv'
<1> USE DEF PathInv, Links, LinkState
<1>1. other(d) \in Dir /\ other(d) # d  BY DEF other, Dir
<1>2. CASE /\ link' = [link EXCEPT ![d][1].end = "fin"]
           /\ broken' = broken \cup {other(d)}
  <2>1. PathTypes'
    <3>1. link' \in [Dir -> [Links -> LinkState]]  BY <1>2, SMTT(30) DEF PathTypes
    <3> QED  BY <1>1, <1>2, <3>1 DEF PathTypes, Leaves
  <2>2. StreamIsOpened'  BY SMTT(30), <1>2 DEF PathTypes, StreamIsOpened, Leaves
  <2>3. BytesKept'  BY SMTT(30), <1>2 DEF PathTypes, BytesKept, Held, Leaves
  <2>4. EndsInOrder'  BY SMTT(30), <1>2 DEF PathTypes, EndsInOrder
  <2>5. OverIsRead'  BY SMTT(30), <1>2 DEF PathTypes, OverIsRead, Leaves
  <2> QED  BY <2>1, <2>2, <2>3, <2>4, <2>5
<1>3. CASE /\ link' = [link EXCEPT ![d][1] = [n |-> 0, end |-> "reset"]]
           /\ broken' = Dir
  <2>1. PathTypes'  BY <1>3 DEF PathTypes, Leaves
  <2>2. StreamIsOpened'  BY SMTT(30), <1>3 DEF PathTypes, StreamIsOpened, Leaves
  <2>3. BytesKept'  BY SMTT(30), <1>3 DEF PathTypes, BytesKept, Held, Leaves
  <2>4. EndsInOrder'  BY <1>3 DEF EndsInOrder
  <2>5. OverIsRead'  BY <1>3 DEF OverIsRead
  <2> QED  BY <2>1, <2>2, <2>3, <2>4, <2>5
<1> QED  BY <1>2, <1>3 DEF Leaves

LEMMA TunnelLostInv == ASSUME PathInv, TunnelLost PROVE PathInv'
<1> USE DEF PathInv
<1>1. PICK up \in 0..link["up"][2].n, down \in 0..link["down"][2].n :
        link' = [link EXCEPT !["up"][2] = [n |-> up, end |-> "reset"],
                             !["down"][2] = [n |-> down, end |-> "reset"]]
  BY Zenon DEF TunnelLost
<1>2. up \in Nat /\ down \in Nat /\ up <= link["up"][2].n /\ down <= link["down"][2].n
  BY SMTT(30), <1>1, NatTypes DEF Dir
<1>3. /\ link' \in [Dir -> [Links -> LinkState]]
      /\ \A e \in Dir, k \in Links : k # 2 => link'[e][k] = link[e][k]
      /\ \A e \in Dir : link'[e][2].end = "reset" /\ link'[e][2].n <= link[e][2].n
  BY SMTT(30), <1>1, <1>2 DEF PathTypes, Dir, Links, LinkState
<1>4. broken' = Dir \/ (broken' = broken /\ client = "none")  BY DEF TunnelLost
<1>5. PathTypes'  BY Zenon, <1>3, <1>4 DEF PathTypes, TunnelLost
<1>6. \A e \in Dir : link'[e][2].n \in Nat  BY <1>3, SMTT(30) DEF LinkState, Links
<1>7. StreamIsOpened'  BY <1>3, <1>6, NatTypes, SMTT(30) DEF StreamIsOpened, TunnelLost
<1>8. BytesKept'
  <2> SUFFICES ASSUME NEW e \in Dir
               PROVE  Held(e)' <= sent[e] /\ (e \notin broken' => Held(e)' = sent[e])
    BY DEF BytesKept, TunnelLost
  <2>1. link'[e][1].n = link[e][1].n /\ link'[e][3].n = link[e][3].n  BY SMTT(30), <1>3 DEF Links
  <2>2. Held(e)' = got[e] + link'[e][1].n + link'[e][2].n + link'[e][3].n
    BY DEF Held, TunnelLost
  <2>3. Held(e) <= sent[e] /\ (e \notin broken => Held(e) = sent[e])  BY DEF BytesKept
  <2>4. e \notin broken' => e \notin broken /\ link[e][2].n = 0  BY <1>4, SMTT(30) DEF StreamIsOpened
  <2> QED  BY SMTT(30), <1>3, <1>6, <2>1, <2>2, <2>3, <2>4, NatTypes DEF Held
<1>9. EndsInOrder'
  <2> SUFFICES ASSUME NEW e \in Dir, e \notin broken', NEW k \in {2, 3}, link'[e][k].end = "fin"
               PROVE  /\ link'[e][1].end = "fin" /\ link'[e][1].n = 0
                      /\ k = 3 => link'[e][2].n = 0
    BY DEF EndsInOrder
  <2>1. k = 3 /\ link[e][3].end = "fin" /\ e \notin broken  BY SMTT(30), <1>3, <1>4 DEF Links
  <2>2. link[e][1].end = "fin" /\ link[e][1].n = 0 /\ link[e][2].n = 0
    BY <2>1, ZenonT(30) DEF EndsInOrder
  <2> QED  BY <1>3, <1>6, <2>2, NatTypes, SMTT(30) DEF Links
<1>10. OverIsRead'  BY SMTT(30), <1>3, <1>4 DEF OverIsRead, TunnelLost, Links
<1> QED  BY <1>5, <1>7, <1>8, <1>9, <1>10
-----------------------------------------------------------------------------
(* What the tasks do. *)
LEMMA OpenInv ==
  ASSUME PathInv, OpenStream \/ SplicesLocal \/ Dialled PROVE PathInv'
<1> USE DEF PathInv, OpenStream, SplicesLocal, Dialled
<1>1. PathTypes'  BY DEF PathTypes
<1>2. StreamIsOpened'  BY DEF StreamIsOpened
<1>3. BytesKept'  BY SMTT(30) DEF BytesKept, Held
<1>4. EndsInOrder'  BY DEF EndsInOrder
<1>5. OverIsRead'  BY DEF OverIsRead
<1> QED  BY <1>1, <1>2, <1>3, <1>4, <1>5

LEMMA GiveUpInv == ASSUME PathInv, OpenFails \/ DialFails \/ Drops PROVE PathInv'
<1> USE DEF PathInv, Links, LinkState, GivesUp
<1>1. /\ link' \in [Dir -> [Links -> LinkState]] /\ broken' = Dir
      /\ \A e \in Dir, k \in Links : link'[e][k].n = link[e][k].n
  BY SMTT(30) DEF PathTypes, OpenFails, DialFails, Drops, Dir
<1>2. PathTypes'  BY <1>1 DEF PathTypes, OpenFails, DialFails, Drops
<1>3. StreamIsOpened'  BY SMTT(30), <1>1 DEF StreamIsOpened, OpenFails, DialFails, Drops
<1>4. BytesKept'  BY SMTT(30), <1>1 DEF BytesKept, Held, OpenFails, DialFails, Drops
<1>5. EndsInOrder'  BY <1>1 DEF EndsInOrder
<1>6. OverIsRead'  BY <1>1 DEF OverIsRead
<1> QED  BY <1>2, <1>3, <1>4, <1>5, <1>6

(* Where a copy writes: past the QUIC stream in a splice, to the next link else. *)
LEMMA Destination ==
  ASSUME PathInv, NEW d \in Dir, NEW k \in {1, 2}, Piping(d, k)
  PROVE  /\ To(k) \in Links /\ To(k) # k
         /\ \/ k = 1 /\ To(k) = 3 /\ client = "none"
            \/ To(k) = k + 1 /\ client # "none"
<1>1. CASE server = "splice"
  <2>1. client = "none"  BY <1>1 DEF PathInv, StreamIsOpened
  <2>2. k = 1  BY <1>1, <2>1 DEF Piping
  <2> QED  BY SMTT(30), <1>1, <2>1, <2>2 DEF To, Links
<1>2. CASE server # "splice"
  <2>1. client # "none"  BY <1>2 DEF Piping, PathInv, StreamIsOpened
  <2> QED  BY SMTT(30), <1>2, <2>1 DEF To, Links
<1> QED  BY <1>1, <1>2

LEMMA CopyInv == ASSUME PathInv, NEW d \in Dir, NEW k \in {1, 2}, Copy(d, k) PROVE PathInv'
<1> USE DEF PathInv
<1>1. PICK to \in Links : to = To(k)  BY Destination DEF Copy
<1>2. /\ to # k
      /\ \/ k = 1 /\ to = 3 /\ client = "none"
         \/ to = k + 1 /\ client # "none"
  BY <1>1, Destination DEF Copy
<1>3. /\ link[d][k] \in LinkState /\ link[d][to] \in LinkState /\ link[d][k].n > 0
      /\ link' = [link EXCEPT ![d][k].n = @ - 1, ![d][to].n = @ + 1]
  BY SMTT(30), <1>1 DEF Copy, PathTypes, Links
<1>4. /\ link' \in [Dir -> [Links -> LinkState]]
      /\ \A e \in Dir, j \in Links : link'[e][j].end = link[e][j].end
      /\ \A e \in Dir, j \in Links : e # d => link'[e][j].n = link[e][j].n
      /\ \A j \in Links : j # k /\ j # to => link'[d][j].n = link[d][j].n
      /\ link'[d][k].n = link[d][k].n - 1 /\ link'[d][to].n = link[d][to].n + 1
  <2>1. /\ [link[d][k] EXCEPT !.n = @ - 1] \in LinkState
        /\ [link[d][to] EXCEPT !.n = @ + 1] \in LinkState
    BY SMTT(30), <1>3 DEF LinkState
  <2>2. k \in Links  BY SMTT(30) DEF Links
  <2>3. link' = [link EXCEPT ![d] = [[link[d] EXCEPT ![k] = [link[d][k] EXCEPT !.n = @ - 1]]
                                             EXCEPT ![to] = [link[d][to] EXCEPT !.n = @ + 1]]]
    BY Zenon, <1>2, <1>3, <2>2 DEF PathTypes
  <2> QED  BY Zenon, <1>2, <2>1, <2>2, <2>3 DEF PathTypes, LinkState
<1>5. \A e \in Dir :
        /\ link'[e][1].end = link[e][1].end
        /\ link'[e][2].end = link[e][2].end
        /\ link'[e][3].end = link[e][3].end
        /\ e # d => /\ link'[e][1].n = link[e][1].n
                    /\ link'[e][2].n = link[e][2].n
                    /\ link'[e][3].n = link[e][3].n
  BY <1>4, LinkNames, Zenon
<1>6. \/ /\ k = 1 /\ to = 3 /\ client = "none" /\ link[d][1].n > 0
         /\ link'[d][1].n = link[d][1].n - 1
         /\ link'[d][2].n = link[d][2].n
         /\ link'[d][3].n = link[d][3].n + 1
      \/ /\ k = 1 /\ to = 2 /\ client # "none" /\ link[d][1].n > 0
         /\ link'[d][1].n = link[d][1].n - 1
         /\ link'[d][2].n = link[d][2].n + 1
         /\ link'[d][3].n = link[d][3].n
      \/ /\ k = 2 /\ to = 3 /\ client # "none" /\ link[d][2].n > 0
         /\ link'[d][1].n = link[d][1].n
         /\ link'[d][2].n = link[d][2].n - 1
         /\ link'[d][3].n = link[d][3].n + 1
  <2>0. /\ 1 \in Links /\ 2 \in Links /\ 3 \in Links /\ link[d][k].n > 0
        /\ \A j \in Links : j # k /\ j # to => link'[d][j].n = link[d][j].n
        /\ link'[d][k].n = link[d][k].n - 1 /\ link'[d][to].n = link[d][to].n + 1
    BY ZenonT(60), <1>3, <1>4, LinkNames
  <2>1. CASE k = 1 /\ to = 3 /\ client = "none"
    BY SMTT(30), <2>0, <2>1
  <2>2. CASE k = 1 /\ to = 2 /\ client # "none"
    BY SMTT(30), <2>0, <2>2
  <2>3. CASE k = 2 /\ to = 3 /\ client # "none"
    BY SMTT(30), <2>0, <2>3
  <2>4. \/ k = 1 /\ to = 3 /\ client = "none"
        \/ k = 1 /\ to = 2 /\ client # "none"
        \/ k = 2 /\ to = 3 /\ client # "none"
    BY <1>2, SMT
  <2> QED  BY <2>1, <2>2, <2>3, <2>4, Zenon
<1>7. PathTypes'  BY Zenon, <1>4 DEF PathTypes, Copy
<1>8. StreamIsOpened'
  <2>1. client = "none" => \A e \in Dir : link'[e][2].n = link[e][2].n  BY <1>5, <1>6
  <2> QED  BY ZenonT(60), <2>1 DEF StreamIsOpened, Copy
<1>9. BytesKept'
  <2>1. ASSUME NEW e \in Dir PROVE Held(e)' = Held(e)
    <3>1. Held(e)' = got[e] + link'[e][1].n + link'[e][2].n + link'[e][3].n  BY Zenon DEF Held, Copy
    <3>2. CASE e # d  BY <1>5, <3>1, <3>2, ZenonT(60) DEF Held
    <3>3. CASE e = d  BY SMTT(30), <1>6, <3>1, <3>3, NatTypes DEF Held
    <3> QED  BY <3>2, <3>3
  <2> QED  BY <2>1 DEF BytesKept, Copy
<1>10. EndsInOrder'
  <2> SUFFICES ASSUME NEW e \in Dir, e \notin broken, NEW j \in {2, 3}, link'[e][j].end = "fin"
               PROVE  /\ link'[e][1].end = "fin" /\ link'[e][1].n = 0
                      /\ j = 3 => link'[e][2].n = 0
    BY Zenon DEF EndsInOrder, Copy
  <2>1. /\ link[e][1].end = "fin" /\ link[e][1].n = 0
        /\ j = 3 => link[e][2].n = 0
    BY SMTT(30), <1>5 DEF EndsInOrder
  <2>2. CASE e # d  BY <1>5, <2>1, <2>2
  <2>3. CASE e = d
    <3>1. link'[d][1].n = link[d][1].n /\ link[d][2].n > 0  BY SMTT(30), <1>6, <2>1, <2>3
    <3> QED  BY <1>5, <2>1, <2>3, <3>1, SMTT(30)
  <2> QED  BY <2>2, <2>3
<1>11. OverIsRead'
  <2> SUFFICES ASSUME NEW e \in Dir, e \notin broken, <<e, 1>> \in over
               PROVE  link'[e][1].end = "fin" /\ link'[e][1].n = 0
    BY Zenon DEF OverIsRead, Copy
  <2>1. link[e][1].end = "fin" /\ link[e][1].n = 0  BY DEF OverIsRead
  <2>2. CASE e # d  BY <1>5, <2>1, <2>2
  <2>3. CASE e = d
    <3>1. link'[d][1].n = link[d][1].n  BY <1>6, <2>1, <2>3, SMTT(30)
    <3> QED  BY <1>5, <2>1, <2>3, <3>1, Zenon
  <2> QED  BY <2>2, <2>3
<1> QED  BY <1>7, <1>8, <1>9, <1>10, <1>11

LEMMA CopyEndsInv == ASSUME PathInv, NEW d \in Dir, NEW k \in {1, 2}, CopyEnds(d, k) PROVE PathInv'
<1> USE DEF PathInv
<1>1. PICK to \in Links : to = To(k)  BY Destination DEF CopyEnds
<1>2. /\ to # k
      /\ \/ k = 1 /\ to = 3 /\ client = "none"
         \/ to = k + 1 /\ client # "none"
  BY <1>1, Destination DEF CopyEnds
<1>3. /\ link' \in [Dir -> [Links -> LinkState]]
      /\ \A e \in Dir, j \in Links : link'[e][j].n = link[e][j].n
      /\ \A e \in Dir, j \in Links : e # d \/ j # to => link'[e][j].end = link[e][j].end
  <2>1. PICK end \in {"open", "fin", "reset"} :
          link' = [link EXCEPT ![d][to] = [link[d][to] EXCEPT !.end = end]]
    <3>1. link' = [link EXCEPT ![d][to].end = IF @ = "open" THEN "fin" ELSE @]
      BY <1>1 DEF CopyEnds, Finished
    <3>2. link[d][to] \in LinkState  BY DEF PathTypes
    <3>3. CASE link[d][to].end = "open"
      <4>1. link' = [link EXCEPT ![d][to] = [link[d][to] EXCEPT !.end = "fin"]]
        BY <3>1, <3>3 DEF PathTypes
      <4> QED  BY <4>1
    <3>4. CASE link[d][to].end # "open"
      <4>1. link' = [link EXCEPT ![d][to] = [link[d][to] EXCEPT !.end = link[d][to].end]]
        BY <3>1, <3>4 DEF PathTypes
      <4> QED  BY Zenon, <3>2, <4>1 DEF LinkState
    <3> QED  BY <3>3, <3>4
  <2>2. [link[d][to] EXCEPT !.end = end] \in LinkState  BY SMTT(30) DEF PathTypes, LinkState
  <2>3. [link[d][to] EXCEPT !.end = end].n = link[d][to].n  BY SMTT(30) DEF PathTypes, LinkState
  <2> QED  BY <2>1, <2>2, <2>3 DEF PathTypes
<1>4. \/ broken' = broken \cup {d}
      \/ broken' = broken /\ link[d][k].n = 0 /\ link[d][k].end = "fin"
  BY DEF CopyEnds, Eof
<1>5. PathTypes'
  <2>1. server' \in {server, "ended"} /\ client' \in {client, "ended"}  BY DEF CopyEnds
  <2>2. broken' \subseteq Dir  BY <1>4 DEF PathTypes
  <2> QED  BY <1>3, <2>1, <2>2 DEF PathTypes, CopyEnds
<1>6. StreamIsOpened'
  <2>1. client' = "none" => client = "none"  BY DEF CopyEnds
  <2>2. server' # "ended" => server' = server  BY DEF CopyEnds
  <2>3. client = "none" => client' = "none"
    BY Zenon DEF CopyEnds, Piping, StreamIsOpened
  <2> QED  BY SMTT(30), <1>3, <2>1, <2>2, <2>3 DEF StreamIsOpened, Links
<1>7. BytesKept'
  <2>1. \A e \in Dir : Held(e)' = Held(e)  BY SMTT(30), <1>3 DEF Held, CopyEnds, Links
  <2> QED  BY <1>4, <2>1, ZenonT(60) DEF BytesKept, CopyEnds
<1>8. EndsInOrder'
  <2> SUFFICES ASSUME NEW e \in Dir, e \notin broken', NEW j \in {2, 3}, link'[e][j].end = "fin"
               PROVE  /\ link'[e][1].end = "fin" /\ link'[e][1].n = 0
                      /\ j = 3 => link'[e][2].n = 0
    BY DEF EndsInOrder
  <2>1. /\ e \notin broken
        /\ e = d => link[d][k].n = 0 /\ link[d][k].end = "fin"
    BY <1>4, Zenon
  <2>2. SUFFICES /\ link[e][1].end = "fin" /\ link[e][1].n = 0
                 /\ j = 3 => link[e][2].n = 0
    BY SMTT(30), <1>2, <1>3 DEF Links
  <2>3. CASE e # d \/ j # to
    BY SMTT(30), <1>3, <2>1, <2>3 DEF EndsInOrder, Links
  <2>4. CASE e = d /\ j = to
    BY <1>2, <2>1, <2>4, SMTT(30) DEF EndsInOrder, StreamIsOpened
  <2> QED  BY <2>3, <2>4, Zenon
<1>9. OverIsRead'
  <2> SUFFICES ASSUME NEW e \in Dir, e \notin broken', <<e, 1>> \in over'
               PROVE  link[e][1].end = "fin" /\ link[e][1].n = 0
    BY SMTT(30), <1>2, <1>3 DEF OverIsRead, Links
  <2>1. <<e, 1>> \in over \/ (e = d /\ k = 1)  BY DEF CopyEnds
  <2> QED  BY <1>4, <2>1, ZenonT(30) DEF OverIsRead
<1> QED  BY <1>5, <1>6, <1>7, <1>8, <1>9

LEMMA SpliceFailsInv == ASSUME PathInv, NEW d \in Dir, SpliceFails(d) PROVE PathInv'
<1> USE DEF PathInv
<1>1. /\ link' \in [Dir -> [Links -> LinkState]]
      /\ \A e \in Dir : /\ link'[e][1] = link[e][1] /\ link'[e][2] = link[e][2]
                        /\ link'[e][3].n = link[e][3].n
  <2>1. link' = [e \in Dir |-> [link[e] EXCEPT ![3].end = IF @ = "open" THEN "fin" ELSE @]]
    BY DEF SpliceFails
  <2> SUFFICES ASSUME NEW e \in Dir
               PROVE  /\ link'[e] \in [Links -> LinkState]
                      /\ link'[e][1] = link[e][1] /\ link'[e][2] = link[e][2]
                      /\ link'[e][3].n = link[e][3].n
    BY <2>1
  <2>2. link[e] \in [Links -> LinkState] /\ link[e][3] \in LinkState  BY SMTT(30), LinkNames DEF PathTypes
  <2>3. PICK end \in {"open", "fin", "reset"} :
          link'[e] = [link[e] EXCEPT ![3] = [link[e][3] EXCEPT !.end = end]]
    BY <2>1, <2>2, LinkNames, ZenonT(30) DEF LinkState
  <2>4. /\ [link[e][3] EXCEPT !.end = end] \in LinkState
        /\ [link[e][3] EXCEPT !.end = end].n = link[e][3].n
    BY <2>2 DEF LinkState
  <2> QED  BY SMTT(30), <2>2, <2>3, <2>4, LinkNames
<1>2. PathTypes'  BY <1>1 DEF PathTypes, SpliceFails
<1>3. StreamIsOpened'  BY <1>1 DEF StreamIsOpened, SpliceFails
<1>4. BytesKept'
  <2>1. \A e \in Dir : Held(e)' = Held(e)  BY <1>1 DEF Held, SpliceFails
  <2>2. \A e \in Dir : e \notin broken' => e \notin broken  BY DEF SpliceFails
  <2> QED  BY Zenon, <2>1, <2>2 DEF BytesKept, SpliceFails
<1>5. \A e \in Dir : e \notin broken' => e \notin broken /\ <<e, 1>> \in over
  BY DEF SpliceFails
<1>6. \A e \in Dir : e \notin broken' =>
          link'[e][1].end = "fin" /\ link'[e][1].n = 0 /\ link'[e][2].n = 0
  <2>1. client = "none"  BY DEF SpliceFails, StreamIsOpened
  <2>2. \A e \in Dir : link[e][2].n = 0  BY <2>1 DEF StreamIsOpened
  <2>3. \A e \in Dir : e \notin broken' => link[e][1].end = "fin" /\ link[e][1].n = 0
    BY ZenonT(60), <1>5 DEF OverIsRead
  <2> QED  BY <1>1, <2>2, <2>3
<1>7. EndsInOrder'  BY <1>6 DEF EndsInOrder
<1>8. OverIsRead'  BY <1>6 DEF OverIsRead
<1> QED  BY <1>2, <1>3, <1>4, <1>7, <1>8

LEMMA NextPathInv == PathInv /\ [NextPath]_pathVars => PathInv'
<1> SUFFICES ASSUME PathInv, [NextPath]_pathVars PROVE PathInv'
  OBVIOUS
<1>1. ASSUME NEW d \in Dir, Sends(d) \/ Finishes(d) \/ Receives(d) \/ Leaves(d) PROVE PathInv'
  BY <1>1, SendsInv, FinishesInv, ReceivesInv, LeavesInv
<1>2. CASE TunnelLost  BY <1>2, TunnelLostInv
<1>3. CASE OpenStream \/ SplicesLocal \/ Dialled  BY <1>3, OpenInv
<1>4. CASE OpenFails \/ DialFails \/ Drops  BY <1>4, GiveUpInv
<1>5. ASSUME NEW d \in Dir, NEW k \in {1, 2}, Copy(d, k) \/ CopyEnds(d, k) PROVE PathInv'
  BY <1>5, CopyInv, CopyEndsInv
<1>6. ASSUME NEW d \in Dir, SpliceFails(d) PROVE PathInv'
  BY <1>6, SpliceFailsInv, ZenonT(60)
<1>7. CASE UNCHANGED pathVars
  BY <1>7 DEF pathVars, PathInv, PathTypes, StreamIsOpened, BytesKept, EndsInOrder, OverIsRead, Held
<1> QED  BY <1>1, <1>2, <1>3, <1>4, <1>5, <1>6, <1>7 DEF NextPath, Tasks

(* However many bytes each end sends, and in whatever order the copies of    *)
(* pipe_bytes, forward_stream and splice_local go on, end and fail: a sink   *)
(* that sees the end of a direction without failures has every byte.         *)
THEOREM EndIsWhole == PathSpec => []EndMeansAll
<1>1. InitPath => PathInv  BY InitPathInv
<1>2. PathInv /\ [NextPath]_pathVars => PathInv'  BY NextPathInv
<1>3. PathInv => EndMeansAll  BY PathInvImplies
<1> QED  BY <1>1, <1>2, <1>3, PTL DEF PathSpec
=============================================================================
