------------------------------ MODULE DataPath -------------------------------
(***************************************************************************)
(* The bytes of one public connection on their way to a service and back.  *)
(* Through a tunnel: public client, server task (public.rs pipe_bytes),    *)
(* QUIC stream, client task (client.rs forward_stream), local service;     *)
(* each task joins two copies, and a copy that is over finishes its        *)
(* destination and lets the other go on.  To an upstream beside the        *)
(* server: one task (public.rs splice_local) copies both ways, and an      *)
(* error of either copy ends both.  Bytes keep their order on every link,  *)
(* so a link is the number of bytes on it; a link has room for so many,    *)
(* and who writes to one that is full waits.                               *)
(***************************************************************************)
EXTENDS Naturals

CONSTANTS Bytes,  \* how many bytes each end may send, by direction
          Window  \* how many fit on a link: its buffers and its flow control

Dir == {"up", "down"}

\* Direction d has three links: from its source's socket, the QUIC stream, and
\* to its sink's socket; copy k reads link k.  A splice has no use for link 2.
Links == 1..3

ASSUME PathAssumption == Bytes \in [Dir -> Nat] /\ Window \in Nat \ {0}

VARIABLES
    server,  \* the server task: "open", "dial", "pipe", "splice", "ended"
    client,  \* the client task: "none", "opened", "pipe", "ended"
    tunnel,  \* whether the tunnel is up
    link,    \* bytes on each link, and how its writer ended it
    gone,    \* the links whose reader is gone
    over,    \* the copies that are over
    sent,    \* bytes each source has sent
    got,     \* bytes each sink has read
    left,    \* the sources that have closed their socket
    broken   \* the directions in which something has failed

pathVars == <<server, client, tunnel, link, gone, over, sent, got, left, broken>>

other(d) == IF d = "up" THEN "down" ELSE "up"

\* The route is a tunnel or an upstream.  The source of direction d is the sink of
\* the other one.
InitPath ==
    /\ server \in {"open", "dial"} /\ client = "none" /\ tunnel = TRUE
    /\ link = [d \in Dir |-> [k \in Links |-> [n |-> 0, end |-> "open"]]]
    /\ gone = {} /\ over = {}
    /\ sent = [d \in Dir |-> 0] /\ got = [d \in Dir |-> 0]
    /\ left = {} /\ broken = {}

\* Copy k of direction d is under way, in the server's task or in the client's.
Piping(d, k) ==
    /\ <<d, k>> \notin over
    /\ \/ server = "splice" /\ k = 1
       \/ server = "pipe" /\ (d = "up") = (k = 1)
       \/ client = "pipe" /\ (d = "up") = (k = 2)

\* The link that copy k writes, and the copy that runs beside it in its task.
To(k) == IF server = "splice" THEN 3 ELSE k + 1

Twin(d, k) == <<other(d), IF server = "splice" THEN 1 ELSE 3 - k>>
-----------------------------------------------------------------------------
(* The two ends: the public client, and the service once it is dialled. *)

HasRoom(d, k) == link[d][k].n < Window

Alive(d) == d \notin left /\ (d = "down" => client = "pipe" \/ server = "splice")

Sends(d) ==
    /\ Alive(d) /\ link[d][1].end = "open" /\ HasRoom(d, 1) /\ sent[d] < Bytes[d]
    /\ sent' = [sent EXCEPT ![d] = @ + 1]
    /\ link' = [link EXCEPT ![d][1].n = @ + 1]
    /\ UNCHANGED <<server, client, tunnel, gone, over, got, left, broken>>

Finishes(d) ==
    /\ Alive(d) /\ link[d][1].end = "open"
    /\ link' = [link EXCEPT ![d][1].end = "fin"]
    /\ UNCHANGED <<server, client, tunnel, gone, over, sent, got, left, broken>>

Receives(d) ==
    /\ Alive(other(d)) /\ link[d][3].n > 0
    /\ link' = [link EXCEPT ![d][3].n = @ - 1]
    /\ got' = [got EXCEPT ![d] = @ + 1]
    /\ UNCHANGED <<server, client, tunnel, gone, over, sent, left, broken>>

\* The socket is closed, or reset with what it still had to send.
Leaves(d) ==
    /\ Alive(d)
    /\ left' = left \cup {d}
    /\ gone' = gone \cup {<<other(d), 3>>}
    /\ \/ /\ link' = [link EXCEPT ![d][1].end = "fin"]
          /\ broken' = broken \cup {other(d)}
       \/ /\ link' = [link EXCEPT ![d][1] = [n |-> 0, end |-> "reset"]]
          /\ broken' = Dir
    /\ UNCHANGED <<server, client, tunnel, over, sent, got>>

\* What of the stream had arrived can still be read.
TunnelLost ==
    /\ tunnel /\ server \notin {"dial", "splice"}
    /\ tunnel' = FALSE
    /\ \E up \in 0..link["up"][2].n, down \in 0..link["down"][2].n :
          link' = [link EXCEPT !["up"][2] = [n |-> up, end |-> "reset"],
                               !["down"][2] = [n |-> down, end |-> "reset"]]
    /\ gone' = gone \cup {<<"up", 2>>, <<"down", 2>>}
    /\ broken' = IF client = "none" THEN broken ELSE Dir
    /\ UNCHANGED <<server, client, over, sent, got, left>>
-----------------------------------------------------------------------------
(* Faulty variants. *)

\* The end of the source is seen with bytes still to copy.
EofEarly(d, k) == link[d][k].end = "fin"

\* A copy that is over leaves its destination open.
FinishesNothing(d, k) == link

\* Writes to a reader that is gone do not fail.
SourceErrorOnly(d, k) == link[d][k].n = 0 /\ link[d][k].end = "reset"
-----------------------------------------------------------------------------
(* The tasks. *)

\* open_tunnel_stream waits for a stream and to write its header, without a timer.
OpenStream ==
    /\ server = "open" /\ tunnel
    /\ server' = "pipe" /\ client' = "opened"
    /\ UNCHANGED <<tunnel, link, gone, over, sent, got, left, broken>>

\* dispatch_local dials the upstream and splices.
SplicesLocal ==
    /\ server = "dial"
    /\ server' = "splice"
    /\ UNCHANGED <<client, tunnel, link, gone, over, sent, got, left, broken>>

\* The public connection is dropped.
GivesUp ==
    /\ server' = "ended"
    /\ link' = [link EXCEPT !["down"][3].end = "fin"]
    /\ gone' = gone \cup {<<"up", 1>>}
    /\ broken' = Dir
    /\ UNCHANGED <<client, tunnel, over, sent, got, left>>

OpenFails == server = "open" /\ GivesUp

\* The dial fails, or its timer does.
DialFails == server = "dial" /\ GivesUp

\* forward_stream: the local service is dialled, or there is no rule for the host
\* or nobody listens: the stream's send side is finished and its receive side dropped.
Dialled ==
    /\ client = "opened"
    /\ client' = "pipe"
    /\ UNCHANGED <<server, tunnel, link, gone, over, sent, got, left, broken>>

Drops ==
    /\ client = "opened"
    /\ client' = "ended"
    /\ link' = [link EXCEPT !["down"][2].end = IF @ = "open" THEN "fin" ELSE @]
    /\ gone' = gone \cup {<<"up", 2>>}
    /\ broken' = Dir
    /\ UNCHANGED <<server, tunnel, over, sent, got, left>>

\* A byte is copied as soon as the destination takes it.
Copy(d, k) ==
    /\ Piping(d, k)
    /\ link[d][k].n > 0 /\ HasRoom(d, To(k)) /\ <<d, To(k)>> \notin gone
    /\ link' = [link EXCEPT ![d][k].n = @ - 1, ![d][To(k)].n = @ + 1]
    /\ UNCHANGED <<server, client, tunnel, gone, over, sent, got, left, broken>>

\* The source has ended and all of it is copied.
Eof(d, k) == link[d][k].n = 0 /\ link[d][k].end = "fin"

\* The source fails, or a write to the destination does.
Error(d, k) == (link[d][k].n = 0 /\ link[d][k].end = "reset")
                  \/ (link[d][k].n > 0 /\ <<d, To(k)>> \in gone)

\* finish or shutdown of the destination.
Finished(d, k) == [link EXCEPT ![d][To(k)].end = IF @ = "open" THEN "fin" ELSE @]

\* The stream's receive side is dropped with its copy, a socket with its task.
Dropped(d, k) ==
    {l \in {<<d, k>>, Twin(d, k)} : l = <<d, 2>> \/ Twin(d, k) \in over}

\* A copy is over; its task is when both are.
CopyEnds(d, k) ==
    /\ Piping(d, k)
    /\ Eof(d, k) \/ (Error(d, k) /\ server # "splice")
    /\ link' = Finished(d, k) /\ gone' = gone \cup Dropped(d, k)
    /\ over' = over \cup {<<d, k>>}
    /\ broken' = IF Error(d, k) THEN broken \cup {d} ELSE broken
    /\ LET ends == Twin(d, k) \in over
           ofServer == server = "splice" \/ (d = "up") = (k = 1)
       IN  /\ server' = IF ends /\ ofServer THEN "ended" ELSE server
           /\ client' = IF ends /\ ~ofServer THEN "ended" ELSE client
    /\ UNCHANGED <<tunnel, sent, got, left>>

\* copy_bidirectional returns the first error and splice_local drops both sockets:
\* the direction that was still going on is cut off too.
SpliceFails(d) ==
    /\ server = "splice" /\ Piping(d, 1) /\ Error(d, 1)
    /\ server' = "ended"
    /\ link' = [e \in Dir |-> [link[e] EXCEPT ![3].end = IF @ = "open" THEN "fin" ELSE @]]
    /\ gone' = gone \cup (Dir \X {1})
    /\ over' = Dir \X {1}
    /\ broken' = broken \cup {e \in Dir : <<e, 1>> \notin over}
    /\ UNCHANGED <<client, tunnel, sent, got, left>>

Tasks ==
    \/ OpenStream \/ OpenFails \/ SplicesLocal \/ DialFails \/ Dialled \/ Drops
    \/ \E d \in Dir, k \in {1, 2} : Copy(d, k) \/ CopyEnds(d, k)
    \/ \E d \in Dir : SpliceFails(d)

NextPath ==
    \/ Tasks
    \/ \E d \in Dir : Sends(d) \/ Finishes(d) \/ Receives(d) \/ Leaves(d)
    \/ TunnelLost

PathSpec == InitPath /\ [][NextPath]_pathVars

\* The tasks copy what there is room for and notice what ends, a dial ends by its
\* timer or the system's, and open_bi does when the tunnel is lost; the ends do as
\* they like, and so does the peer that opens or stops a stream.
FairPathSpec ==
    /\ PathSpec
    /\ WF_pathVars(~tunnel /\ OpenFails)
    /\ WF_pathVars(SplicesLocal \/ DialFails) /\ WF_pathVars(Dialled \/ Drops)
    /\ \A d \in Dir, k \in {1, 2} : WF_pathVars(Copy(d, k)) /\ WF_pathVars(CopyEnds(d, k))
    /\ \A d \in Dir : WF_pathVars(SpliceFails(d))
-----------------------------------------------------------------------------
\* A sink that sees the end of its stream has, or is about to read, every byte that
\* the source sent, and the source had ended: whatever happens in the other
\* direction, unless something fails in this one.  No byte is ever copied twice.
EndMeansAll ==
    \A d \in Dir :
        /\ got[d] + link[d][1].n + link[d][2].n + link[d][3].n <= sent[d]
        /\ (d \notin broken /\ link[d][3].end = "fin") =>
              link[d][1].end = "fin" /\ got[d] + link[d][3].n = sent[d]

\* A source that ends has all its bytes and its end delivered to a sink that goes on
\* reading, in a direction where nothing fails: also when the sink of the other
\* direction does not read, or that direction ended before or, through a tunnel,
\* failed.  Only a server that waits for its stream to be opened delivers nothing.
EndIsDelivered ==
    \A d \in Dir :
        []<>HasRoom(d, 3) =>
            ((link[d][1].end = "fin" /\ d \notin broken) ~>
                (\/ d \in broken \/ server = "open"
                 \/ link[d][3].end = "fin" /\ got[d] + link[d][3].n = sent[d]))

\* When the public client is gone, and the service or the tunnel it is reached by
\* too, the server's task ends and gives its permit back; likewise the client's.
TasksEnd ==
    /\ ("up" \in left /\ ("down" \in left \/ (~tunnel /\ server = "pipe"))) ~> server = "ended"
    /\ ("down" \in left /\ ("up" \in left \/ ~tunnel)) ~> client \notin {"opened", "pipe"}
=============================================================================
