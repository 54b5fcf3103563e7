----------------------------- MODULE TunnelClient ----------------------------
(***************************************************************************)
(* The client's side of a tunnel: the handshake of TunnelClient::connect,  *)
(* and how the streams that the server opens are taken up: by the loop of  *)
(* serve or of a listener (client.rs, listener.rs, tls.rs), one header     *)
(* after another, or by a handler per stream (the SDK's index.ts).  The    *)
(* server installs the routes before it sends Welcome, so that streams may *)
(* be opened before the client knows it is connected.  The loop of serve   *)
(* is run by the command line's run_client (main.rs), whose process ends   *)
(* with the loop, or on a signal.                                          *)
(***************************************************************************)
EXTENDS Naturals, Sequences, FiniteSets

CONSTANTS Stream,  \* the streams the server may open
          Kinds,   \* "serve", "listener", "tls" (its listener), "sdk"
          Ingress, \* the streams whose hostname has an ingress rule
          NoStream

ASSUME ClientAssumption == Ingress \subseteq Stream /\ NoStream \notin Stream

VARIABLES
    kind,    \* how this client takes streams up
    process, \* the command line's process: "runs", "stopping", "exited"
    pc,      \* connect: "connecting", "response"; then "connected" or "failed"
    tunnel,  \* the QUIC connection: "none", "up", "lost"
    queue,   \* streams that were opened and not yet accepted
    header,  \* what has arrived of each stream: "none", "whole", "malformed"
    loop,    \* the accept loop: "accept", "header", "tls", "ended"
    taken,   \* the stream it is at
    stage    \* what became of each stream

vars == <<kind, process, pc, tunnel, queue, header, loop, taken, stage>>

Init ==
    /\ kind \in Kinds
    /\ process = "runs"
    /\ pc = "connecting"
    /\ tunnel = "none"
    /\ queue = <<>>
    /\ header = [s \in Stream |-> "none"]
    /\ loop = "accept"
    /\ taken = NoStream
    /\ stage = [s \in Stream |-> "none"]

Loops == kind # "sdk"
-----------------------------------------------------------------------------
(* connect: the QUIC handshake and the response each have a timer. *)

Connected ==
    /\ pc = "connecting"
    /\ pc' = "response" /\ tunnel' = "up"
    /\ UNCHANGED <<kind, process, queue, header, loop, taken, stage>>

ConnectFails ==
    /\ pc = "connecting"
    /\ pc' = "failed"
    /\ UNCHANGED <<kind, process, tunnel, queue, header, loop, taken, stage>>

Welcome ==
    /\ pc = "response" /\ tunnel = "up"
    /\ pc' = "connected"
    /\ UNCHANGED <<kind, process, tunnel, queue, header, loop, taken, stage>>

\* Reject, no response in time, or no response at all: the connection is closed.  The
\* SDK closes it on a Reject; when the response cannot be read, it throws and the
\* connection stays as it is, with the event listener.
NotWelcome ==
    /\ pc = "response"
    /\ pc' = "failed"
    /\ tunnel' = "lost" \/ (~Loops /\ tunnel' = tunnel)
    /\ UNCHANGED <<kind, process, queue, header, loop, taken, stage>>
-----------------------------------------------------------------------------
(* The server and the network. *)

\* The SDK's event listener, registered before the handshake, starts a handler.
ServerOpens(s) ==
    /\ tunnel = "up" /\ stage[s] = "none"
    /\ IF Loops THEN /\ queue' = Append(queue, s)
                     /\ stage' = [stage EXCEPT ![s] = "queued"]
       ELSE /\ queue' = queue
            /\ stage' = [stage EXCEPT ![s] = "reading"]
    /\ UNCHANGED <<kind, process, pc, tunnel, header, loop, taken>>

HeaderArrives(s) ==
    /\ tunnel = "up" /\ stage[s] # "none" /\ header[s] = "none"
    /\ \E h \in {"whole", "malformed"} : header' = [header EXCEPT ![s] = h]
    /\ UNCHANGED <<kind, process, pc, tunnel, queue, loop, taken, stage>>

TunnelLost ==
    /\ tunnel = "up"
    /\ tunnel' = "lost"
    /\ UNCHANGED <<kind, process, pc, queue, header, loop, taken, stage>>
-----------------------------------------------------------------------------
(* Faulty variants. *)

\* Reading a header is not timed.
HeaderSkippedUntimed ==
    /\ loop = "header" /\ header[taken] # "whole"
    /\ header[taken] = "malformed" \/ tunnel = "lost"
    /\ stage' = [stage EXCEPT ![taken] = "skipped"]
    /\ loop' = "accept" /\ taken' = NoStream
    /\ UNCHANGED <<kind, process, pc, tunnel, queue, header>>

\* A stream that fails ends the loop.
HeaderSkippedEnding ==
    /\ loop = "header" /\ header[taken] # "whole"
    /\ stage' = [stage EXCEPT ![taken] = "skipped"]
    /\ loop' = "ended" /\ taken' = NoStream
    /\ UNCHANGED <<kind, process, pc, tunnel, queue, header>>

\* A lost tunnel is taken for a stream that failed.
LoopGoesOn ==
    /\ loop = "accept" /\ pc = "connected" /\ tunnel = "lost" /\ queue = <<>>
    /\ UNCHANGED vars
-----------------------------------------------------------------------------
(* accept_bi of TunnelClient, accept of TunnelListener. *)

\* Streams that were opened before the tunnel was lost are still accepted.
AcceptBi ==
    /\ Loops /\ loop = "accept" /\ pc = "connected" /\ queue # <<>>
    /\ taken' = Head(queue)
    /\ queue' = Tail(queue)
    /\ stage' = [stage EXCEPT ![Head(queue)] = "reading"]
    /\ loop' = "header"
    /\ UNCHANGED <<kind, process, pc, tunnel, header>>

HeaderRead ==
    /\ loop = "header" /\ header[taken] = "whole"
    /\ IF kind = "tls" THEN loop' = "tls" /\ UNCHANGED <<taken, stage>>
       ELSE /\ loop' = "accept" /\ taken' = NoStream
            /\ stage' = [stage EXCEPT ![taken] = "accepted"]
    /\ UNCHANGED <<kind, process, pc, tunnel, queue, header>>

\* Malformed, cut off by the loss of the tunnel, or not there in time.
HeaderSkipped ==
    /\ loop = "header" /\ header[taken] # "whole"
    /\ stage' = [stage EXCEPT ![taken] = "skipped"]
    /\ loop' = "accept" /\ taken' = NoStream
    /\ UNCHANGED <<kind, process, pc, tunnel, queue, header>>

\* TlsTunnelListener::accept: the handshake is not timed, and no other stream
\* is accepted while it lasts.
TlsEnds ==
    /\ loop = "tls"
    /\ \E to \in {"accepted", "skipped"} : stage' = [stage EXCEPT ![taken] = to]
    /\ loop' = "accept" /\ taken' = NoStream
    /\ UNCHANGED <<kind, process, pc, tunnel, queue, header>>

\* serve returns; the loop of an axum listener waits for its shutdown.
LoopEnds ==
    /\ Loops /\ loop = "accept" /\ pc = "connected" /\ tunnel = "lost" /\ queue = <<>>
    /\ loop' = "ended"
    /\ UNCHANGED <<kind, process, pc, tunnel, queue, header, taken, stage>>

\* handleDataStream reads the header of its stream without a timer.
HandlerReads(s) ==
    /\ ~Loops /\ stage[s] = "reading"
    /\ \/ /\ header[s] = "whole"
          /\ stage' = [stage EXCEPT ![s] = "accepted"]
       \/ /\ header[s] = "malformed" \/ tunnel = "lost"
          /\ stage' = [stage EXCEPT ![s] = "skipped"]
    /\ UNCHANGED <<kind, process, pc, tunnel, queue, header, loop, taken>>
-----------------------------------------------------------------------------
(* run_client, by signals or by itself. *)

\* The streams of these stages are gone with what held them.
DropsAll(stages) ==
    /\ stage' = [s \in Stream |-> IF stage[s] \in stages THEN "dropped" ELSE stage[s]]
    /\ queue' = <<>> /\ taken' = NoStream

\* A signal ends serve wherever it is; shutdown closes the connection and waits for
\* the endpoint.
Signal ==
    /\ kind = "serve" /\ process = "runs" /\ pc = "connected" /\ loop # "ended"
    /\ process' = "stopping" /\ loop' = "ended" /\ tunnel' = "lost"
    /\ DropsAll({"queued", "reading"})
    /\ UNCHANGED <<kind, pc, header>>

\* Until it is connected the process has no handler for signals.
Killed ==
    /\ kind = "serve" /\ process = "runs" /\ pc \in {"connecting", "response"}
    /\ process' = "exited" /\ pc' = "failed" /\ tunnel' = "lost"
    /\ DropsAll({"queued"})
    /\ UNCHANGED <<kind, header, loop>>

\* run_client returns: the endpoint is idle or SHUTDOWN_GRACE over, serve has
\* returned, or connect failed.  The tasks that forward end with the process.
Exits ==
    /\ kind = "serve" /\ process # "exited" /\ (loop = "ended" \/ pc = "failed")
    /\ process' = "exited"
    /\ DropsAll({"queued", "accepted", "dialling", "piped"})
    /\ UNCHANGED <<kind, pc, tunnel, header, loop>>
-----------------------------------------------------------------------------
(* forward_stream, and the rest of handleDataStream. *)

Forwards == kind \in {"serve", "sdk"}

Forward(s) ==
    /\ Forwards /\ stage[s] = "accepted"
    /\ stage' = [stage EXCEPT ![s] = IF s \in Ingress THEN "dialling" ELSE "dropped"]
    /\ UNCHANGED <<kind, process, pc, tunnel, queue, header, loop, taken>>

\* The local service is reached, or not.
Dialled(s) ==
    /\ stage[s] = "dialling"
    /\ \E to \in {"piped", "dropped"} : stage' = [stage EXCEPT ![s] = to]
    /\ UNCHANGED <<kind, process, pc, tunnel, queue, header, loop, taken>>

PipeEnds(s) ==
    /\ stage[s] = "piped"
    /\ stage' = [stage EXCEPT ![s] = "ended"]
    /\ UNCHANGED <<kind, process, pc, tunnel, queue, header, loop, taken>>

Loop == AcceptBi \/ HeaderRead \/ HeaderSkipped \/ TlsEnds \/ LoopEnds

Next ==
    \/ Connected \/ ConnectFails \/ Welcome \/ NotWelcome \/ TunnelLost
    \/ Loop \/ Signal \/ Killed \/ Exits
    \/ \E s \in Stream :
          \/ ServerOpens(s) \/ HeaderArrives(s) \/ HandlerReads(s)
          \/ Forward(s) \/ Dialled(s) \/ PipeEnds(s)

Spec == Init /\ [][Next]_vars

\* The timers of connect (the SDK's has none) and of a header, the client's own
\* steps, and reads that fail when the tunnel is lost.  Nothing makes the server
\* send a header, nor a TLS client finish its handshake.
FairSpec ==
    /\ Spec
    /\ WF_vars(Loops /\ ConnectFails) /\ WF_vars(Loops /\ NotWelcome)
    /\ WF_vars(AcceptBi) /\ WF_vars(HeaderRead) /\ WF_vars(HeaderSkipped) /\ WF_vars(LoopEnds)
    /\ WF_vars(tunnel = "lost" /\ TlsEnds) /\ WF_vars(Exits)
-----------------------------------------------------------------------------
\* No stream is lost between the server and the loop of a client that has one: each
\* one that was opened is queued, in the loop's hands, or was accepted or skipped.
\* The loop ends with the tunnel, never for a stream that failed, and leaves no
\* stream behind.
NoStreamForgotten ==
    Loops => /\ \A s \in Stream :
                   /\ stage[s] = "queued" <=> \E i \in DOMAIN queue : queue[i] = s
                   /\ stage[s] = "reading" <=> s = taken
             /\ loop = "ended" => tunnel = "lost" /\ queue = <<>>

\* A stream that the server opens, even before Welcome arrives, is taken up or
\* skipped though the ones before it may never send a header, unless connect fails
\* or, in a TLS listener, a handshake in accept never ends.
StreamsAreTaken ==
    []<>(loop # "tls") =>
        \A s \in Stream : stage[s] = "queued" ~> (stage[s] # "queued" \/ pc = "failed")

\* connect returns by its timers, a client that is connected stops serving when its
\* tunnel is lost, and the command line's process, which never reconnects, exits
\* then and on a signal, for its orchestrator to start it again.
LossEndsServe ==
    /\ Loops => <>(pc \in {"connected", "failed"})
    /\ (pc = "connected" /\ tunnel = "lost" /\ Loops) ~> loop = "ended"
    /\ (kind = "serve" /\ (tunnel = "lost" \/ pc = "failed")) ~> process = "exited"
=============================================================================
