---------------------------- MODULE ControlEvents ----------------------------
(***************************************************************************)
(* control.rs: the registry of live tunnels and the broadcast channel of   *)
(* their TunnelUp and TunnelDown events.  register and unregister change   *)
(* the registry under its lock and send the event after they let go of it, *)
(* so an observer can read the registry in between.  The channel keeps the *)
(* last EVENT_CAPACITY events; a receiver that is further behind is told   *)
(* that it lagged and goes on with the oldest event that is left.          *)
(*                                                                         *)
(* The observer is the embedder's: it does what the API asks of one that   *)
(* wants to know the live tunnels (tests/dynamic.rs): subscribe, then take *)
(* a snapshot, apply events to it, and take a new one after it lagged.  It *)
(* knows a tunnel by the client and the peer address in the event, so a    *)
(* tunnel here is one such pair; two connections with one client and one   *)
(* peer address at a time are left out.                                    *)
(***************************************************************************)
EXTENDS Naturals, Sequences, FiniteSets

CONSTANTS Tunnel,          \* tunnels, by client name and peer address
          EVENT_CAPACITY   \* events that the channel keeps

ASSUME CapacityAssumption == EVENT_CAPACITY \in Nat \ {0}

VARIABLES
    handler,  \* tunnel -> where its handler stands with register and unregister
    tunnels,  \* Inner::tunnels, the registry
    watcher,  \* what the observer does next: "away", "snapshot" or "recv"
    queue,    \* the events that the observer has not received
    lagged,   \* the channel dropped events that the observer has not received
    view      \* the tunnels that the observer takes for live

vars == <<handler, tunnels, watcher, queue, lagged, view>>

Event == [kind : {"TunnelUp", "TunnelDown"}, tunnel : Tunnel]

Init ==
    /\ handler = [t \in Tunnel |-> "gone"]
    /\ tunnels = {}
    /\ watcher = "away"
    /\ queue = <<>>
    /\ lagged = FALSE
    /\ view = {}

\* broadcast::Sender::send: it never waits.  Without a receiver the event is lost.
send(event) ==
    IF watcher = "away" THEN UNCHANGED <<queue, lagged>>
    ELSE /\ queue' = IF Len(queue) < EVENT_CAPACITY THEN Append(queue, event)
                     ELSE Append(Tail(queue), event)
         /\ lagged' = (lagged \/ Len(queue) >= EVENT_CAPACITY)
-----------------------------------------------------------------------------
(* Faulty variants of the steps below. *)

\* register sends before it records.
RegisterAfterSend(t) ==
    /\ handler[t] = "gone"
    /\ handler' = [handler EXCEPT ![t] = "registering"]
    /\ send([kind |-> "TunnelUp", tunnel |-> t])
    /\ UNCHANGED <<tunnels, watcher, view>>

SendUpFirst(t) ==
    \/ RegisterAfterSend(t)
    \/ /\ handler[t] = "registering"
       /\ handler' = [handler EXCEPT ![t] = "up"]
       /\ tunnels' = tunnels \cup {t}
       /\ UNCHANGED <<watcher, queue, lagged, view>>

\* unregister waits for room in the channel.
SendDownWithRoom(t) ==
    /\ handler[t] = "unregistering"
    /\ Len(queue) < EVENT_CAPACITY
    /\ handler' = [handler EXCEPT ![t] = "gone"]
    /\ send([kind |-> "TunnelDown", tunnel |-> t])
    /\ UNCHANGED <<tunnels, watcher, view>>
-----------------------------------------------------------------------------
(* Control::register *)

Record(t) ==
    /\ handler[t] = "gone"
    /\ handler' = [handler EXCEPT ![t] = "registering"]
    /\ tunnels' = tunnels \cup {t}
    /\ UNCHANGED <<watcher, queue, lagged, view>>

SendUp(t) ==
    /\ handler[t] = "registering"
    /\ handler' = [handler EXCEPT ![t] = "up"]
    /\ send([kind |-> "TunnelUp", tunnel |-> t])
    /\ UNCHANGED <<tunnels, watcher, view>>

register(t) == Record(t) \/ SendUp(t)

(* Control::unregister *)

Remove(t) ==
    /\ handler[t] = "up"
    /\ handler' = [handler EXCEPT ![t] = IF t \in tunnels THEN "unregistering" ELSE "gone"]
    /\ tunnels' = tunnels \ {t}
    /\ UNCHANGED <<watcher, queue, lagged, view>>

SendDown(t) ==
    /\ handler[t] = "unregistering"
    /\ handler' = [handler EXCEPT ![t] = "gone"]
    /\ send([kind |-> "TunnelDown", tunnel |-> t])
    /\ UNCHANGED <<tunnels, watcher, view>>
-----------------------------------------------------------------------------
(* The observer *)

\* Control::subscribe: the receiver gets the events sent from now on.
Subscribe ==
    /\ watcher = "away"
    /\ watcher' = "snapshot"
    /\ UNCHANGED <<handler, tunnels, queue, lagged, view>>

\* Control::tunnels
Snapshot ==
    /\ watcher = "snapshot"
    /\ watcher' = "recv"
    /\ view' = tunnels
    /\ UNCHANGED <<handler, tunnels, queue, lagged>>

\* The view after an event.
Apply(seen, event) ==
    IF event.kind = "TunnelUp" THEN seen \cup {event.tunnel} ELSE seen \ {event.tunnel}

\* Receiver::recv: Lagged when events were dropped, else the oldest event.
Recv ==
    /\ watcher = "recv"
    /\ \/ /\ lagged
          /\ lagged' = FALSE
          /\ watcher' = "snapshot"
          /\ UNCHANGED <<queue, view>>
       \/ /\ ~lagged
          /\ queue # <<>>
          /\ queue' = Tail(queue)
          /\ view' = Apply(view, Head(queue))
          /\ UNCHANGED <<lagged, watcher>>
    /\ UNCHANGED <<handler, tunnels>>

\* The observer drops its receiver.
Unsubscribe ==
    /\ watcher # "away"
    /\ watcher' = "away"
    /\ queue' = <<>>
    /\ lagged' = FALSE
    /\ view' = {}
    /\ UNCHANGED <<handler, tunnels>>

Next ==
    \/ \E t \in Tunnel : register(t) \/ Remove(t) \/ SendDown(t)
    \/ Subscribe \/ Snapshot \/ Recv \/ Unsubscribe

Spec == Init /\ [][Next]_vars

\* A handler that changed the registry goes on to send; the observer goes on to
\* ask.  Neither a tunnel nor an observer has to come, or to go.
FairSpec ==
    /\ Spec
    /\ \A t \in Tunnel : WF_vars(SendUp(t)) /\ WF_vars(SendDown(t))
    /\ WF_vars(Snapshot) /\ WF_vars(Recv)
-----------------------------------------------------------------------------
Silent(t) == \A i \in DOMAIN queue : queue[i].tunnel # t

LastAbout(t, i) ==
    queue[i].tunnel = t /\ \A j \in DOMAIN queue : j > i => queue[j].tunnel # t

\* An observer that did not lag ends up right: once it has read what is waiting,
\* it agrees with the registry on every tunnel whose handler is not between its
\* registry write and its send, wherever in register and unregister its own
\* subscribe and snapshot fell.  What it will take for the tunnel's state is the
\* last waiting event about it or, without one, its view.
ViewWillAgree ==
    (watcher = "recv" /\ ~lagged) =>
        \A t \in Tunnel : handler[t] \in {"gone", "up"} =>
            /\ Silent(t) => (t \in view <=> t \in tunnels)
            /\ \A i \in DOMAIN queue : LastAbout(t, i) =>
                  (queue[i].kind = "TunnelUp" <=> t \in tunnels)

\* No tunnel stays in the observer's view after it left the registry, unless it
\* came back: events that the bounded channel drops lead to a new snapshot, and
\* no handler waits for a slow observer before it sends.
GoneLeavesView ==
    \A t \in Tunnel : (t \in view /\ t \notin tunnels) ~> (t \notin view \/ t \in tunnels)
=============================================================================
