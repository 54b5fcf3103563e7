--------------------------- MODULE EndpointProofs ---------------------------
(***************************************************************************)
(* The two ends of a tunnel: the client's loop that takes up streams       *)
(* (TunnelClient), for any number of streams, the certificate by which the *)
(* client knows the server (CertStore), for any number of generated pairs, *)
(* and the frames they send each other (Framing), for any frames and       *)
(* however the bytes are cut into reads.                                   *)
(***************************************************************************)
EXTENDS TunnelClient, CertStore, StreamProofs

\* A leaf is for Zenon unless it names another backend.
USE Zenon

(* The client. *)

\* Where the streams are, by what the loop is at: the queue has each of its streams
\* once, the loop holds one from its acceptance to its header or its handshake, and
\* nothing is accepted before the client is connected.
ClientInv ==
    /\ queue \in Seq(Stream) /\ DOMAIN stage = Stream /\ taken \in Stream \cup {NoStream}
    /\ Loops => /\ NoStreamForgotten
                /\ \A i, j \in DOMAIN queue : queue[i] = queue[j] => i = j
                /\ loop \in {"accept", "header", "tls", "ended"}
                /\ taken # NoStream <=> loop \in {"header", "tls"}
                /\ loop # "accept" => pc = "connected"

\* A client that connects has no streams.
LEMMA InitClient == Init => ClientInv
BY SMTT(30), ClientAssumption DEF Init, ClientInv, NoStreamForgotten

\* The first stream of the queue is taken out of it.
LEMMA TakesFirst ==
    ASSUME ClientInv, Loops, queue # <<>>
    PROVE  /\ Head(queue) \in Stream /\ Tail(queue) \in Seq(Stream)
           /\ \A s \in Stream : (\E i \in DOMAIN Tail(queue) : Tail(queue)[i] = s) <=>
                                /\ \E i \in DOMAIN queue : queue[i] = s
                                /\ s # Head(queue)
           /\ \A i, j \in DOMAIN Tail(queue) : Tail(queue)[i] = Tail(queue)[j] => i = j
<1>1. /\ queue \in Seq(Stream) /\ Len(queue) \in Nat \ {0} /\ DOMAIN queue = 1..Len(queue)
      /\ \A i, j \in DOMAIN queue : queue[i] = queue[j] => i = j
  BY SMTT(30) DEF ClientInv
<1>2. /\ Head(queue) = queue[1] /\ Tail(queue) \in Seq(Stream)
      /\ DOMAIN Tail(queue) = 1..(Len(queue) - 1)
      /\ \A i \in 1..(Len(queue) - 1) : Tail(queue)[i] = queue[i + 1]
  BY SMTT(30), <1>1
<1>3. ASSUME NEW s \in Stream, NEW i \in DOMAIN queue, queue[i] = s, s # queue[1]
      PROVE  \E k \in DOMAIN Tail(queue) : Tail(queue)[k] = s
  <2>1. i - 1 \in 1..(Len(queue) - 1) /\ (i - 1) + 1 = i
    BY SMTT(30), <1>1, <1>3
  <2> QED
    BY <1>2, <1>3, <2>1
<1>4. ASSUME NEW i \in DOMAIN Tail(queue)
      PROVE  i + 1 \in DOMAIN queue /\ Tail(queue)[i] = queue[i + 1] /\ Tail(queue)[i] # queue[1]
  BY SMTT(30), <1>1, <1>2
<1>5. \A i, j \in DOMAIN Tail(queue) : Tail(queue)[i] = Tail(queue)[j] => i = j
  BY SMTT(30), <1>1, <1>2, <1>4
<1> QED
  BY SMTT(30), <1>1, <1>2, <1>3, <1>4, <1>5

\* Steps of connect, of the server, of the loop, of the process and of the handlers
\* keep it.
LEMMA NextClient == ClientInv /\ [Next]_vars => ClientInv'
<1> SUFFICES ASSUME ClientInv, [Next]_vars PROVE ClientInv'
  BY ZenonT(60)
<1>0. kind' = kind /\ Loops' = Loops
  BY DEF Next, vars, Loops, Connected, ConnectFails, Welcome, NotWelcome, TunnelLost, Loop,
     AcceptBi, HeaderRead, HeaderSkipped, TlsEnds, LoopEnds, Signal, Killed, Exits, ServerOpens,
     HeaderArrives, HandlerReads, Forward, Dialled, PipeEnds
<1> USE ClientAssumption DEF ClientInv, NoStreamForgotten
\* The streams stay where they are.
<1>1. CASE /\ UNCHANGED <<queue, loop, taken, stage>>
           /\ loop = "ended" => tunnel' = tunnel
           /\ loop # "accept" => pc' = pc
  BY <1>0, <1>1
<1>2. CASE Connected \/ ConnectFails \/ Welcome \/ NotWelcome \/ TunnelLost \/ UNCHANGED vars
  BY <1>0, <1>1, <1>2 DEF Connected, ConnectFails, Welcome, NotWelcome, TunnelLost, vars
<1>3. CASE AcceptBi
  <2>1. /\ Loops /\ loop = "accept" /\ pc = "connected" /\ queue # <<>>
        /\ taken' = Head(queue) /\ queue' = Tail(queue) /\ loop' = "header" /\ pc' = pc
        /\ stage' = [stage EXCEPT ![Head(queue)] = "reading"]
    BY <1>3 DEF AcceptBi
  <2>2. taken = NoStream /\ \A s \in Stream : stage[s] # "reading"
    BY SMTT(30), <2>1
  <2>3. \A s \in Stream : stage'[s] = IF s = Head(queue) THEN "reading" ELSE stage[s]
    BY <2>1
  <2> QED
    BY SMTT(30), <1>0, <2>1, <2>2, <2>3, TakesFirst
\* The loop lets go of its stream.
<1>4. ASSUME NEW to \in {"accepted", "skipped"}, loop \in {"header", "tls"},
             stage' = [stage EXCEPT ![taken] = to], loop' = "accept", taken' = NoStream,
             UNCHANGED <<queue, pc, tunnel>>
      PROVE  ClientInv'
  BY SMTT(30), <1>0, <1>4
<1>5. CASE HeaderRead
  <2>1. CASE loop' = "tls" /\ UNCHANGED <<taken, stage>>
    BY SMTT(30), <1>0, <1>5, <2>1 DEF HeaderRead
  <2> QED
    BY <1>4, <1>5, <2>1 DEF HeaderRead
<1>6. CASE HeaderSkipped \/ TlsEnds
  BY <1>4, <1>6 DEF HeaderSkipped, TlsEnds
<1>7. CASE LoopEnds
  BY SMTT(30), <1>0, <1>7 DEF LoopEnds
\* The streams that are queued or in the loop's hands are dropped.
<1>8. ASSUME NEW stages, "queued" \in stages, DropsAll(stages), Loops,
             loop' \in {"accept", "ended"}, loop' # "accept" => pc' = "connected",
             loop' = "ended" => tunnel' = "lost",
             "reading" \in stages \/ taken = NoStream
      PROVE  ClientInv'
  <2>1. /\ queue' = <<>> /\ taken' = NoStream /\ DOMAIN stage' = Stream
        /\ \A s \in Stream : stage'[s] = IF stage[s] \in stages THEN "dropped" ELSE stage[s]
    BY <1>8 DEF DropsAll
  <2>2. \A s \in Stream : stage'[s] # "queued" /\ stage'[s] # "reading"
    BY SMTT(30), <1>8, <2>1
  <2> QED
    BY SMTT(30), <1>0, <1>8, <2>1, <2>2
<1>9. CASE Signal
  BY SMTT(30), <1>8, <1>9 DEF Signal, Loops
<1>10. CASE Killed
  <2>1. loop = "accept" /\ loop' = loop /\ Loops
    BY <1>10 DEF Killed, Loops
  <2> QED
    BY <1>8, <1>10, <2>1 DEF Killed
<1>11. CASE Exits
  <2>1. Loops /\ loop \in {"accept", "ended"} /\ loop' = loop /\ pc' = pc /\ tunnel' = tunnel
    BY <1>11 DEF Exits, Loops
  <2> QED
    BY SMTT(30), <1>8, <1>11, <2>1 DEF Exits
<1>12. ASSUME NEW s \in Stream, ServerOpens(s) PROVE ClientInv'
  <2>1. CASE Loops
    <3>1. /\ tunnel = "up" /\ stage[s] = "none" /\ queue' = Append(queue, s)
          /\ stage' = [stage EXCEPT ![s] = "queued"] /\ UNCHANGED <<loop, taken, pc, tunnel>>
      BY <1>12, <2>1 DEF ServerOpens
    <3>2. /\ DOMAIN queue = 1..Len(queue) /\ DOMAIN queue' = 1..(Len(queue) + 1) /\ Len(queue) \in Nat
          /\ \A i \in 1..Len(queue) : queue'[i] = queue[i]
          /\ queue'[Len(queue) + 1] = s /\ queue' \in Seq(Stream)
      BY SMTT(30), <3>1
    <3>3. \A i \in DOMAIN queue : queue[i] # s
      BY <2>1, <3>1
    <3>4. \A i, j \in DOMAIN queue' : queue'[i] = queue'[j] => i = j
      BY SMTT(30), <2>1, <3>2, <3>3
    <3>5. \A t \in Stream : (\E i \in DOMAIN queue' : queue'[i] = t) <=>
                            (t = s \/ \E i \in DOMAIN queue : queue[i] = t)
      BY SMTT(30), <3>2
    <3>6. /\ DOMAIN stage' = Stream /\ taken # s
          /\ \A t \in Stream : stage'[t] = IF t = s THEN "queued" ELSE stage[t]
      BY <2>1, <3>1
    <3> QED
      BY SMTT(30), <1>0, <2>1, <3>1, <3>2, <3>4, <3>5, <3>6
  <2>2. CASE ~Loops
    BY <1>0, <1>12, <2>2, Zenon DEF ServerOpens
  <2> QED
    BY <2>1, <2>2, Zenon
\* A stream that the loop has let go of moves on.
<1>13. ASSUME NEW s \in Stream, NEW to, stage[s] \notin {"queued", "reading"} \/ ~Loops,
              to \notin {"queued", "reading"}, stage' = [stage EXCEPT ![s] = to],
              UNCHANGED <<queue, loop, taken, pc, tunnel>>
       PROVE  ClientInv'
  BY <1>0, <1>13, SMTT(30)
<1>14. ASSUME NEW s \in Stream,
              HeaderArrives(s) \/ HandlerReads(s) \/ Forward(s) \/ Dialled(s) \/ PipeEnds(s)
       PROVE  ClientInv'
  <2>1. CASE HeaderArrives(s)
    BY <1>1, <2>1 DEF HeaderArrives
  <2>2. CASE HandlerReads(s)
    BY <1>13, <2>2 DEF HandlerReads
  <2>3. CASE Forward(s)
    BY <1>13, <2>3, Zenon DEF Forward
  <2>4. CASE Dialled(s) \/ PipeEnds(s)
    BY SMTT(30), <1>13, <2>4 DEF Dialled, PipeEnds
  <2> QED
    BY <1>14, <2>1, <2>2, <2>3, <2>4, ZenonT(30)
<1> QED
  BY <1>2, <1>3, <1>5, <1>6, <1>7, <1>9, <1>10, <1>11, <1>12, <1>14, Zenon DEF Next, Loop

\* No stream that the server opens is lost between the server and the loop of serve
\* or of a listener, and the loop ends only with its tunnel (accept_bi,
\* TunnelListener::accept).
THEOREM LoopForgetsNoStream == Spec => []NoStreamForgotten
<1>1. ClientInv => NoStreamForgotten
  BY DEF ClientInv, NoStreamForgotten
<1> QED
  BY <1>1, InitClient, NextClient, PTL DEF Spec

(* The server's certificate.  The inductive invariant says what the two files *)
(* can hold at each point: a key file only exists beside a whole certificate, *)
(* a whole key belongs to that certificate, and the pair on disk is whole as  *)
(* soon as a server has run, so that no later start generates another.        *)

Writing == {"cert", "cert_open", "key", "key_open"}

\* What the files hold, by the point the start has reached.
Files ==
    /\ key # NoFile => cert \in Pairs
    /\ key \in Pairs => cert = key /\ pinned = key
    /\ pinned # None => key = pinned
    /\ start = "load" => key # NoFile
    /\ start \in {"cert", "cert_open", "key"} => key = NoFile
    /\ start \in Writing => pair \in Pairs
    /\ start \in {"key", "key_open"} => cert = pair
    /\ start = "key_open" => key = Cut
    /\ start = "up" => material = [cert |-> pinned, key |-> pinned] /\ pinned # None

StoreInv == TypeOK /\ Files

\* The server starts with no files and no pair.
LEMMA InitStoreInv == InitStore => StoreInv
  BY SMTT(30), CertStoreAssumption
     DEF InitStore, StoreInv, TypeOK, Files, Pairs, NoFile, Cut, None, NoMaterial, Writing

\* Every step of a start, also the one that cuts it short, keeps StoreInv.
LEMMA NextStoreInv == StoreInv /\ [NextStore]_storeVars => StoreInv'
  <1> SUFFICES ASSUME StoreInv, [NextStore]_storeVars PROVE StoreInv'
    OBVIOUS
  <1> USE CertStoreAssumption DEF StoreInv, TypeOK, Files, Pairs, NoFile, Cut, None, Writing
  <1>1. CASE load_or_generate
    <2>1. CASE cert # NoFile /\ key # NoFile /\ Load
      BY <1>1, <2>1, Zenon DEF load_or_generate, Load, NoMaterial
    <2>2. CASE ~(cert # NoFile /\ key # NoFile) /\ Generate
      <3>1. key = NoFile /\ pinned = None
        BY SMTT(30), <2>2
      <3>2. last' \in 0..Generations /\ pair' \in Pairs
        BY SMTT(30), <2>2 DEF Generate
      <3> QED BY <1>1, <2>2, <3>1, <3>2, Zenon DEF load_or_generate, Generate, NoMaterial
    <2> QED BY <1>1, <2>1, <2>2, Zenon DEF load_or_generate
  <1>2. CASE load
    <2>1. cert = pinned /\ key = pinned /\ pinned \in Pairs
      BY <1>2 DEF load, Loadable
    <2>2. material' = [cert |-> pinned, key |-> pinned] /\ pinned' = pinned
      BY <1>2, <2>1 DEF load, Runs
    <2> QED BY SMTT(30), <1>2, <2>1, <2>2 DEF load, Runs, NoMaterial
  <1>3. CASE TruncateCert
    BY SMTT(30), <1>3 DEF TruncateCert, NoMaterial
  <1>4. CASE FillCert
    BY SMTT(30), <1>4 DEF FillCert, NoMaterial
  <1>5. CASE TruncateKey
    BY SMTT(30), <1>5 DEF TruncateKey, NoMaterial
  <1>6. CASE FillKey
    <2>1. pair \in Pairs /\ cert = pair /\ pinned = None
      BY SMTT(30), <1>6 DEF FillKey
    <2>2. material' = [cert |-> pair, key |-> pair] /\ pinned' = pair
      BY <1>6, <2>1 DEF FillKey, Runs
    <2> QED BY SMTT(30), <1>6, <2>1, <2>2 DEF FillKey, Runs, NoMaterial
  <1>7. CASE Stops
    BY <1>7 DEF Stops, NoMaterial
  <1>8. CASE UNCHANGED storeVars
    BY SMTT(30), <1>8 DEF storeVars
  <1> QED BY <1>1, <1>2, <1>3, <1>4, <1>5, <1>6, <1>7, <1>8, Zenon DEF NextStore

\* StoreInv holds of every start and every restart.
THEOREM CertStoreInvariance == StoreSpec => []StoreInv
  BY InitStoreInv, NextStoreInv, PTL DEF StoreSpec

\* The state of load_or_generate keeps its types.
THEOREM CertStoreTypes == StoreSpec => []TypeOK
  <1>1. StoreInv => TypeOK
    BY DEF StoreInv
  <1> QED BY <1>1, CertStoreInvariance, PTL

\* However starts are cut short, each server that runs has the fingerprint of the
\* first one and the matching key.
THEOREM FingerprintIsStable == StoreSpec => []FingerprintStable
  <1>1. StoreInv => FingerprintStable
    BY DEF StoreInv, Files, FingerprintStable
  <1> QED BY <1>1, CertStoreInvariance, PTL

\* Only a key file that was truncated and not filled, before any server ran, keeps
\* a start from loading its files.
THEOREM OnlyAnInterruptedKeyWriteWedges == StoreSpec => []OnlyKeyWriteWedges
  <1>1. StoreInv => OnlyKeyWriteWedges
    BY DEF StoreInv, TypeOK, Files, OnlyKeyWriteWedges, Loadable, Pairs, NoFile, Cut, None
  <1> QED BY <1>1, CertStoreInvariance, PTL

-----------------------------------------------------------------------------
(* Frames. *)

\* A piece that ends where it starts is empty.
LEMMA NothingLeft ==
  ASSUME NEW S, NEW w \in Seq(S), NEW s, NEW a, NEW b, Piece(s, w, a, b), b <= a
  PROVE  s = <<>>
<1>1. s \in Seq(S) /\ Len(s) = 0
  BY PieceIs, SMT
<1> QED BY <1>1, EmptySeq

\* A sequence of one element.
LEMMA OneElement ==
  ASSUME NEW S, NEW s \in Seq(S), Len(s) = 1, NEW x, s[1] = x
  PROVE  s = <<x>>
  BY SMTT(30)

\* Each element is a piece.
LEMMA OneOf ==
  ASSUME NEW S, NEW w \in Seq(S), NEW a \in Nat, a < Len(w), NEW b, b = a + 1
  PROVE  Piece(<<w[b]>>, w, a, b)
<1> DEFINE one == SubSeq(w, a + 1, b)
<1>1. b \in Nat /\ a <= b /\ b <= Len(w) /\ a < b /\ b - a = 1
  BY SMTT(30), LenProperties
<1>2. Piece(one, w, a, b)
  BY <1>1, CutOut, ZenonT(60)
<1> HIDE DEF one
<1>3. \A c : Piece(one, w, a, c) /\ a < c =>
         one \in Seq(S) /\ Len(one) = c - a /\ one[1] = w[a + 1]
  BY FirstOf, SMT
<1>4. one \in Seq(S) /\ Len(one) = 1 /\ one[1] = w[b]
  BY <1>1, <1>2, <1>3, Zenon
<1> QED BY <1>2, <1>3, <1>4, OneElement, Zenon

\* A reader that stands at the start of a frame and holds its length: the frame is
\* accepted, it is whole when the reader has come to its end, and what decode cuts
\* out is the payload, what it leaves starts behind the frame.
LEMMA AtFrame ==
  ASSUME ~Tls, NEW w \in Seq(Byte), NEW payload \in Seq(Byte), Len(payload) <= MAX_FRAME_SIZE,
         NEW held, NEW a, NEW b, NEW p, Piece(FrameBytes(payload), w, a, b),
         Piece(held, w, a, p), HasLen(held)
  PROVE  /\ frame_len(held) = Len(payload) /\ ~Refused(held)
         /\ Whole(held) <=> b <= p
         /\ \A t : Whole(held) /\ Piece(t, held, 4, 4 + frame_len(held)) => t = payload
         /\ \A t : Whole(held) /\ Piece(t, held, 4 + frame_len(held), Len(held)) =>
                      Piece(t, w, b, p)
<1> DEFINE frame == FrameBytes(payload)
           n     == Len(payload)
<1>1. /\ frame \in Seq(Byte) /\ Len(frame) = 4 + n
      /\ Piece(payload, frame, 4, 4 + n) /\ from_be_bytes(frame, 0, 4) = n
  BY FrameIs, Zenon
<1>2. Piece(frame, w, a, b)
  OBVIOUS
<1>3. n \in Nat /\ n <= MAX_FRAME_SIZE
  BY LenProperties
<1> HIDE DEF frame, n
<1>4. a \in Nat /\ b \in Nat /\ Len(frame) = b - a
  BY <1>2, PieceIs, SMT
<1>5. held \in Seq(Byte) /\ p \in Nat /\ Len(held) = p - a
  BY PieceIs, SMT
<1>6. HasLen(frame)
  BY SMTT(30), <1>1, <1>3, Headers DEF HasLen
<1>7. frame_len(held) = frame_len(frame)
  BY <1>2, <1>6, StartAlike, Zenon
<1>8. frame_len(held) = n
  BY <1>1, <1>7 DEF frame_len, LEN_PREFIX_SIZE
<1>9. ~Refused(held)
  BY SMTT(30), <1>3, <1>8, Limits DEF Refused
<1>10. b = a + (4 + n)
  BY <1>1, <1>3, <1>4, SMTT(30)
<1>11. Whole(held) <=> b <= p
  BY SMTT(30), <1>3, <1>4, <1>5, <1>8, <1>10, Headers DEF Whole
<1>12. ASSUME NEW t, Piece(t, held, 4, 4 + n)
       PROVE  t = payload
  <2>1. Piece(t, w, a + 4, a + (4 + n))
    BY <1>12, PieceOfPiece, Zenon
  <2>2. Piece(payload, w, a + 4, a + (4 + n))
    BY <1>1, <1>2, PieceOfPiece, Zenon
  <2> QED BY <2>1, <2>2, OnePiece, Zenon
<1>13. ASSUME NEW t, Piece(t, held, 4 + n, Len(held))
       PROVE  Piece(t, w, b, p)
  <2>1. Piece(t, w, a + (4 + n), a + Len(held))
    BY <1>13, PieceOfPiece, Zenon
  <2>2. a + Len(held) = p
    BY SMTT(30), <1>4, <1>5
  <2> QED BY <1>10, <2>1, <2>2, Zenon
<1>14. frame_len(held) = Len(payload)
  BY <1>8, Zenon DEF n
<1> QED BY <1>8, <1>9, <1>11, <1>12, <1>13, <1>14, Zenon

\* The last part of AtFrame, for one sequence.
LEMMA BehindFrame ==
  ASSUME ~Tls, NEW w \in Seq(Byte), NEW payload \in Seq(Byte), Len(payload) <= MAX_FRAME_SIZE,
         NEW held, NEW a, NEW b, NEW p, Piece(FrameBytes(payload), w, a, b),
         Piece(held, w, a, p), HasLen(held), Whole(held),
         NEW t, Piece(t, held, 4 + frame_len(held), Len(held))
  PROVE  Piece(t, w, b, p)
  BY AtFrame, SMT

\* A reader that stands behind the last frame holds the start of the tail.
LEMMA AtTail ==
  ASSUME NEW w \in Seq(Byte), NEW rest, NEW held, NEW a, NEW p,
         Piece(rest, w, a, Len(w)), Piece(held, w, a, p)
  PROVE  /\ Whole(held) => Whole(rest)
         /\ HasLen(held) => (Refused(held) <=> Refused(rest))
         /\ p = Len(w) => held = rest
         /\ held # <<>> => rest # <<>>
<1>1. /\ held \in Seq(Byte) /\ a \in Nat /\ p \in Nat /\ p <= Len(w) /\ Len(w) \in Nat
      /\ Len(held) = p - a /\ Len(held) \in Nat
  BY PieceIs, SMT
<1>2. rest \in Seq(Byte) /\ Len(rest) = Len(w) - a
  BY PieceIs, SMT
<1>3. header_size \in Nat
  BY Headers
<1>4. HasLen(held) => HasLen(rest)
  BY SMTT(30), <1>1, <1>2, <1>3 DEF HasLen
<1>5. HasLen(held) => frame_len(held) = frame_len(rest) /\ held[1] = rest[1]
  BY SMTT(30), <1>4, StartAlike
<1>6. HasLen(held) => frame_len(held) \in Nat
  BY <1>1, LenIsNat, Zenon
<1>7. Whole(held) => Whole(rest)
  BY <1>1, <1>2, <1>3, <1>4, <1>5, <1>6, SMTT(30) DEF Whole
<1>8. HasLen(held) => (Refused(held) <=> Refused(rest))
  BY <1>4, <1>5 DEF Refused
<1>9. p = Len(w) => held = rest
  BY OnePiece, Zenon
<1>10. held # <<>> => rest # <<>>
  <2>1. held # <<>> => Len(held) # 0
    BY SMTT(30), <1>1
  <2>2. Len(held) # 0 => Len(rest) # 0
    BY SMTT(30), <1>1, <1>2
  <2> QED BY <2>1, <2>2, EmptySeq
<1> QED BY <1>7, <1>8, <1>9, <1>10

\* The frames stand one behind the other, with the tail at the end: off[i] is where
\* frame i ends.
Layout(off) ==
    /\ off \in [0..Len(frames) -> Nat]
    /\ off[0] = 0
    /\ \A i \in 1..Len(frames) :
          /\ Len(frames[i]) <= MAX_FRAME_SIZE
          /\ Piece(FrameBytes(frames[i]), wire, off[i - 1], off[i])
    /\ Piece(tail, wire, off[Len(frames)], Len(wire))
    /\ ~finished => tail = <<>>
    /\ (finished /\ (reader = "FramedRead" \/ frames = <<>>)) => ~Whole(tail) \/ Refused(tail)

\* The reader has returned the first frames and holds what it has read behind them.
Progress(off) ==
    /\ Piece(items, frames, 0, Len(items))
    /\ status # "failed" => Piece(buf, wire, off[Len(items)], pos)
    /\ status = "read" => ~Refused(buf) /\ ~Whole(buf)
    /\ reader # "FramedRead" => Len(items) = IF status = "done" THEN 1 ELSE 0
    /\ reader = "read_frame" =>
          /\ status = "done" => buf = <<>>
          /\ (status = "decode" /\ HasLen(buf)) => Len(buf) <= 4 + frame_len(buf)
    /\ reader = "FramedRead" =>
          /\ status = "done" => items = frames /\ finished /\ tail = <<>>
          /\ (status = "failed" /\ items = frames) => tail # <<>>
          /\ (status = "failed" /\ items # frames) => ~Cbor(frames[Len(items) + 1])

\* The inductive invariant of the frame readers.
FramesInv == ~Tls => status # "parsed" /\ \E off : Layout(off) /\ Progress(off)

\* A step that writes nothing keeps the layout.
LEMMA LayoutKept ==
  ASSUME NEW off, Layout(off), UNCHANGED <<written, reader>>
  PROVE  Layout(off)'
<1>1. (Whole(tail)' <=> Whole(tail)) /\ (Refused(tail)' <=> Refused(tail))
  BY SameReader DEF written
<1> QED BY <1>1, Zenon DEF Layout, written

\* The frames returned are no more than were written.
LEMMA Places ==
  ASSUME WireTypes, NEW off, Layout(off), Progress(off)
  PROVE  /\ Len(items) \in Nat /\ Len(frames) \in Nat /\ Len(items) <= Len(frames)
         /\ Len(wire) \in Nat /\ Len(buf) \in Nat
         /\ Len(items) = Len(frames) => items = frames
         /\ \A i \in 0..Len(frames) : off[i] \in Nat
<1>1. Piece(items, frames, 0, Len(items)) /\ frames \in Seq(Seq(Byte))
  BY Zenon DEF Progress, WireTypes
<1>2. Len(items) \in Nat /\ Len(items) <= Len(frames) /\ Len(frames) \in Nat
  BY <1>1, PieceIs, Zenon
<1>3. Piece(frames, frames, 0, Len(frames))
  BY <1>1, AllOfIt, Zenon
<1>4. Len(items) = Len(frames) => items = frames
  BY <1>1, <1>3, OnePiece, Zenon
<1>5. off \in [0..Len(frames) -> Nat]
  BY Zenon DEF Layout
<1>6. \A i \in 0..Len(frames) : off[i] \in Nat
  BY <1>5, Zenon
<1>7. Len(wire) \in Nat /\ Len(buf) \in Nat
  BY LenProperties DEF WireTypes
<1> QED BY <1>2, <1>4, <1>6, <1>7, Zenon

\* The frame after those that were returned.
LEMMA NextFrame ==
  ASSUME ~Tls, WireTypes, NEW off, Layout(off), Progress(off), Len(items) < Len(frames),
         NEW next, next = Len(items) + 1
  PROVE  /\ next \in 1..Len(frames) /\ frames[next] \in Seq(Byte)
         /\ Len(frames[next]) <= MAX_FRAME_SIZE
         /\ Piece(FrameBytes(frames[next]), wire, off[Len(items)], off[next])
         /\ Piece(<<frames[next]>>, frames, Len(items), next)
<1>1. /\ Len(items) \in Nat /\ Len(frames) \in Nat
      /\ frames \in Seq(Seq(Byte))
  BY Places DEF WireTypes
<1>2. next \in 1..Len(frames) /\ next - 1 = Len(items) /\ next \in Nat
  BY SMTT(30), <1>1
<1>3. frames[next] \in Seq(Byte)
  BY <1>1, <1>2, ElementOfSeq, Zenon
<1>4. /\ Len(frames[next]) <= MAX_FRAME_SIZE
      /\ Piece(FrameBytes(frames[next]), wire, off[next - 1], off[next])
  BY <1>2, Zenon DEF Layout
<1>5. Piece(FrameBytes(frames[next]), wire, off[Len(items)], off[next])
  BY <1>2, <1>4, Zenon
<1>6. Piece(<<frames[next]>>, frames, Len(items), next)
  BY <1>1, OneOf, Zenon
<1> QED BY <1>2, <1>3, <1>4, <1>5, <1>6, ZenonT(60)

\* Behind the last frame nothing is decoded: what is held there is refused or
\* incomplete, and is the tail once everything was read.
LEMMA BehindLast ==
  ASSUME ~Tls, WireTypes, NEW off, Layout(off), Progress(off), Len(items) = Len(frames),
         reader = "FramedRead" \/ Len(items) = 0, status # "failed"
  PROVE  /\ Whole(buf) => Refused(buf)
         /\ HasLen(buf) => tail # <<>>
         /\ pos = Len(wire) => buf = tail
<1>1. Piece(buf, wire, off[Len(frames)], pos) /\ Piece(tail, wire, off[Len(frames)], Len(wire))
  BY Zenon DEF Layout, Progress
<1>2. /\ wire \in Seq(Byte) /\ finished \in BOOLEAN /\ frames \in Seq(Seq(Byte))
      /\ tail \in Seq(Byte) /\ buf \in Seq(Byte)
  BY DEF WireTypes
<1>3. /\ Whole(buf) => Whole(tail)
      /\ HasLen(buf) => (Refused(buf) <=> Refused(tail))
      /\ pos = Len(wire) => buf = tail
      /\ buf # <<>> => tail # <<>>
  BY <1>1, <1>2, AtTail, ZenonT(60)
<1>4. HasLen(buf) => buf # <<>>
  BY SMTT(30), <1>2, Headers, EmptySeq DEF HasLen
<1>5. Whole(buf) => HasLen(buf)
  BY DEF Whole
<1>6. HasLen(buf) => finished
  BY <1>2, <1>3, <1>4 DEF Layout
<1>7. frames = <<>> \/ reader = "FramedRead"
  BY <1>2, EmptySeq
<1>8. finished => ~Whole(tail) \/ Refused(tail)
  BY <1>7, Zenon DEF Layout
<1> QED BY <1>3, <1>4, <1>5, <1>6, <1>8, Zenon

\* The types hold of a writer that has written nothing.
LEMMA InitFrameTypes == InitFrames => WireTypes
<1>1. <<>> \in Seq(Byte) /\ <<>> \in Seq(Seq(Byte)) /\ Len(<<>>) = 0
  BY EmptySeq
<1> SUFFICES ASSUME InitFrames PROVE WireTypes
  OBVIOUS
<1>2. pos = 0 /\ wire = <<>> /\ 0 \in Nat /\ 0 <= 0
  BY SMTT(30) DEF InitFrames
<1>3. pos \in Nat /\ pos <= Len(wire)
  BY <1>1, <1>2, Zenon
<1> QED BY <1>1, <1>3, Zenon DEF InitFrames, WireTypes

\* An empty stream satisfies the invariant.
LEMMA InitFramesInv == InitAll => FramesInv
<1> SUFFICES ASSUME InitAll, ~Tls PROVE status # "parsed" /\ \E off : Layout(off) /\ Progress(off)
  BY DEF FramesInv
<1>1. InitFrames
  BY DEF InitAll, InitHello, Tls
<1> DEFINE off == [i \in 0..0 |-> 0]
<1>2. off \in [0..0 -> Nat] /\ off[0] = 0
  BY SMTT(30)
<1> HIDE DEF off
<1>3. <<>> \in Seq(Byte) /\ <<>> \in Seq(Seq(Byte)) /\ Len(<<>>) = 0 /\ 0 \in Nat /\ 0 <= 0
  BY SMTT(30), EmptySeq
<1>4. Piece(<<>>, <<>>, 0, 0)
  BY <1>3, NoPiece, Zenon
<1>5. ~HasLen(<<>>)
  BY SMTT(30), <1>3, Headers DEF HasLen
<1>6. ~Whole(<<>>) /\ ~Refused(<<>>)
  BY <1>5, Zenon DEF Whole, Refused
<1>7. 1..0 = {}
  BY SMTT(30)
<1>8. Layout(off)
  BY <1>1, <1>2, <1>3, <1>4, <1>6, <1>7, Zenon DEF InitFrames, Layout
<1>9. Progress(off)
  BY <1>1, <1>2, <1>3, <1>4, <1>6, Zenon DEF InitFrames, Progress
<1> QED BY <1>1, <1>8, <1>9 DEF InitFrames

\* Read keeps the invariant.
LEMMA ReadStep ==
  ASSUME ~Tls, WireTypes, NEW off, Layout(off), Progress(off), NEW n \in 1..Len(wire), Read(n)
  PROVE  Layout(off)' /\ Progress(off)'
<1>1. Layout(off)'
  BY LayoutKept, Zenon DEF Read
<1>2. /\ status = "read" /\ status' = "decode" /\ items' = items /\ frames' = frames
      /\ reader' = reader /\ (reader = "read_frame" => Asks(n))
  BY DEF Read, written
<1>3. Piece(buf, wire, off[Len(items)], pos)
  BY <1>2, Zenon DEF Progress
<1>4. /\ Piece(buf', wire', off[Len(items)], pos')
      /\ (Asks(n) /\ HasLen(buf)') => Len(buf') <= header_size' + frame_len(buf)'
  BY <1>3, ReadAdds, Zenon
<1>5. header_size' = 4
  BY <1>2 DEF header_size, LEN_PREFIX_SIZE, Tls
<1>6. reader = "read_frame" /\ HasLen(buf)' => Len(buf') <= 4 + frame_len(buf)'
  BY <1>2, <1>4, <1>5, Zenon
<1> QED BY <1>1, <1>2, <1>4, <1>6, Zenon DEF Progress

\* StreamEnds keeps it: a stream that ends with all frames returned has only its
\* tail left.
LEMMA EndStep ==
  ASSUME ~Tls, WireTypes, NEW off, Layout(off), Progress(off), StreamEnds
  PROVE  Layout(off)' /\ Progress(off)'
<1>1. Layout(off)'
  BY LayoutKept, Zenon DEF StreamEnds
<1>2. /\ status = "read" /\ finished /\ pos = Len(wire) /\ items' = items /\ frames' = frames
      /\ wire' = wire /\ reader' = reader /\ pos' = pos /\ finished' = finished /\ tail' = tail
      /\ buf' = buf
      /\ status' = IF reader = "FramedRead" /\ buf = <<>> THEN "done" ELSE "failed"
  BY DEF StreamEnds, written
<1>3. Piece(buf, wire, off[Len(items)], pos) /\ ~Whole(buf)
  BY <1>2, Zenon DEF Progress
<1>4. /\ Len(items) \in Nat /\ Len(frames) \in Nat /\ Len(items) <= Len(frames)
      /\ Len(items) = Len(frames) => items = frames
  BY Places
<1>5. Len(items) = Len(frames)
  <2> SUFFICES ASSUME Len(items) < Len(frames) PROVE FALSE
    BY SMTT(30), <1>4
  <2> DEFINE next    == Len(items) + 1
             payload == frames[next]
  <2>1. /\ payload \in Seq(Byte) /\ Len(payload) <= MAX_FRAME_SIZE
        /\ Piece(FrameBytes(payload), wire, off[Len(items)], off[next])
    BY NextFrame, Zenon
  <2>2. Len(FrameBytes(payload)) = 4 + Len(payload)
    BY <2>1, FrameIs, Zenon
  <2> HIDE DEF next, payload
  <2>3. wire \in Seq(Byte)
    BY DEF WireTypes
  <2>4. /\ off[next] \in Nat /\ off[Len(items)] \in Nat /\ off[next] <= Len(wire)
        /\ Len(FrameBytes(payload)) = off[next] - off[Len(items)]
    BY <2>1, <2>3, PieceIs, SMTT(30)
  <2>5. pos \in Nat /\ Len(buf) = pos - off[Len(items)]
    BY <1>3, <2>3, PieceIs, SMT
  <2>6. Len(payload) \in Nat
    BY <2>1, LenProperties
  <2>7. HasLen(buf)
    BY SMTT(30), <1>2, <2>2, <2>4, <2>5, <2>6, Headers DEF HasLen
  <2>8. Whole(buf) <=> off[next] <= pos
    BY <1>3, <2>1, <2>3, <2>7, AtFrame, SMT
  <2> QED BY <1>2, <1>3, <2>4, <2>8
<1>6. reader = "FramedRead" => buf = tail
  BY <1>2, <1>5, BehindLast
<1>7. reader # "FramedRead" => Len(items) = 0
  BY <1>2 DEF Progress
<1>8. Piece(items, frames, 0, Len(items))
  BY Zenon DEF Progress
<1>9. reader = "FramedRead" => items = frames
  BY <1>4, <1>5
<1> QED BY <1>1, <1>2, <1>3, <1>6, <1>7, <1>8, <1>9, ZenonT(60) DEF Progress

\* decode takes the next frame, or it fails behind the last one.
LEMMA Decoded ==
  ASSUME ~Tls, WireTypes, NEW off, Layout(off), Progress(off), status = "decode",
         NEW next, next = Len(items) + 1, NEW size, size = header_size + frame_len(buf),
         NEW payload, payload = SubSeq(buf, header_size + 1, size),
         NEW rest, rest = SubSeq(buf, size + 1, Len(buf))
  PROVE  /\ Refused(buf) => Len(items) = Len(frames) /\ tail # <<>>
         /\ (Whole(buf) /\ ~Refused(buf)) =>
               /\ Len(items) < Len(frames) /\ payload = frames[next]
               /\ Piece(rest, wire, off[next], pos)
               /\ Piece(rest, buf, size, Len(buf))
<1>1. /\ Len(items) \in Nat /\ Len(frames) \in Nat /\ Len(items) <= Len(frames)
  BY Places
<1>2. Piece(buf, wire, off[Len(items)], pos) /\ wire \in Seq(Byte)
  BY Zenon DEF Progress, WireTypes
<1>3. CASE Len(items) = Len(frames)
  <2>1. reader = "FramedRead" \/ Len(items) = 0
    BY DEF Progress
  <2>2. (Whole(buf) => Refused(buf)) /\ (HasLen(buf) => tail # <<>>)
    BY <1>3, <2>1, BehindLast
  <2> QED BY <1>3, <2>2, Zenon DEF Refused
<1>4. CASE Len(items) < Len(frames)
  <2> DEFINE frame == frames[next]
  <2>1. /\ frame \in Seq(Byte) /\ Len(frame) <= MAX_FRAME_SIZE
        /\ Piece(FrameBytes(frame), wire, off[Len(items)], off[next])
    BY <1>4, NextFrame, Zenon
  <2> HIDE DEF frame
  <2>2. ASSUME HasLen(buf)
        PROVE  /\ ~Refused(buf)
               /\ \A t : Whole(buf) /\ Piece(t, buf, 4, 4 + frame_len(buf)) => t = frame
               /\ \A t : Whole(buf) /\ Piece(t, buf, 4 + frame_len(buf), Len(buf)) =>
                            Piece(t, wire, off[next], pos)
    <3>1. ~Refused(buf)
      BY <1>2, <2>1, <2>2, AtFrame, Zenon
    <3>2. ASSUME NEW t, Whole(buf), Piece(t, buf, 4, 4 + frame_len(buf))
          PROVE  t = frame
      BY <1>2, <2>1, <2>2, <3>2, AtFrame, ZenonT(60)
    <3>3. ASSUME NEW t, Whole(buf), Piece(t, buf, 4 + frame_len(buf), Len(buf))
          PROVE  Piece(t, wire, off[next], pos)
      BY <1>2, <2>1, <2>2, <3>3, BehindFrame, Zenon
    <3> QED BY <3>1, <3>2, <3>3, Zenon
  <2>3. ~Refused(buf)
    BY <2>2, Zenon DEF Refused
  <2>4. ASSUME Whole(buf) PROVE payload = frame /\ Piece(rest, wire, off[next], pos)
                                 /\ Piece(rest, buf, size, Len(buf))
    <3>1. HasLen(buf)
      BY <2>4, Zenon DEF Whole
    <3>2. Piece(payload, buf, header_size, size) /\ Piece(rest, buf, size, Len(buf))
      BY <2>4, DecodeCuts, Zenon
    <3>3. header_size = 4 /\ size = 4 + frame_len(buf)
      BY Headers
    <3>4. /\ Piece(payload, buf, 4, 4 + frame_len(buf))
          /\ Piece(rest, buf, 4 + frame_len(buf), Len(buf))
      BY <3>2, <3>3, Zenon
    <3> QED BY <2>2, <2>4, <3>1, <3>2, <3>4, Zenon
  <2> QED BY <1>4, <2>3, <2>4, Zenon DEF frame
<1> QED BY SMTT(30), <1>1, <1>3, <1>4

\* decode keeps the invariant.
LEMMA DecodeStep ==
  ASSUME ~Tls, WireTypes, NEW off, Layout(off), Progress(off), decode
  PROVE  Layout(off)' /\ Progress(off)'
<1>1. Layout(off)'
  BY LayoutKept, Zenon DEF decode
<1>2. /\ status = "decode" /\ frames' = frames /\ wire' = wire /\ reader' = reader
      /\ pos' = pos /\ finished' = finished /\ tail' = tail
  BY DEF decode, written
<1> DEFINE next    == Len(items) + 1
           size    == header_size + frame_len(buf)
           payload == SubSeq(buf, header_size + 1, size)
           rest    == SubSeq(buf, size + 1, Len(buf))
<1>3. /\ Refused(buf) => Len(items) = Len(frames) /\ tail # <<>>
      /\ (Whole(buf) /\ ~Refused(buf)) =>
            /\ Len(items) < Len(frames) /\ payload = frames[next]
            /\ Piece(rest, wire, off[next], pos)
            /\ Piece(rest, buf, size, Len(buf))
  BY <1>2, Decoded, Zenon
<1>4. /\ Len(items) \in Nat /\ Len(frames) \in Nat
      /\ Len(items) = Len(frames) => items = frames
  BY Places
<1>5. /\ Piece(items, frames, 0, Len(items)) /\ Piece(buf, wire, off[Len(items)], pos)
      /\ reader # "FramedRead" => Len(items) = 0
      /\ reader = "read_frame" /\ HasLen(buf) => Len(buf) <= 4 + frame_len(buf)
  BY <1>2, Zenon DEF Progress
<1>6. ASSUME Refused(buf), status' = "failed", buf' = buf, items' = items
      PROVE  Progress(off)'
  <2>1. items = frames /\ tail # <<>>
    BY <1>3, <1>4, <1>6
  <2> QED BY <1>2, <1>5, <1>6, <2>1, Zenon DEF Progress
<1>7. ASSUME ~Refused(buf), ~Whole(buf), status' = "read", buf' = buf, items' = items
      PROVE  Progress(off)'
  <2>1. (Whole(buf)' <=> Whole(buf)) /\ (Refused(buf)' <=> Refused(buf))
    BY <1>2, <1>7, SameReader
  <2> QED BY <1>2, <1>5, <1>7, <2>1, ZenonT(60) DEF Progress
<1>8. ASSUME ~Refused(buf), Whole(buf), ~Cbor(payload), items' = items, status' = "failed"
      PROVE  Progress(off)'
  <2>1. Len(items) < Len(frames) /\ payload = frames[next]
    BY <1>3, <1>8, Zenon
  <2>2. items # frames
    BY SMTT(30), <1>4, <2>1
  <2>3. ~Cbor(frames[Len(items) + 1])
    BY <1>8, <2>1, Zenon
  <2> QED BY <1>2, <1>5, <1>8, <2>2, <2>3, Zenon DEF Progress
<1>9. ASSUME ~Refused(buf), Whole(buf), buf' = rest, items' = Append(items, payload),
             status' = IF reader = "FramedRead" THEN "decode" ELSE "done"
      PROVE  Progress(off)'
  <2>1. /\ Len(items) < Len(frames) /\ payload = frames[next]
        /\ Piece(rest, wire, off[next], pos) /\ Piece(rest, buf, size, Len(buf))
    BY <1>3, <1>9, Zenon
  <2>2. /\ Piece(<<frames[next]>>, frames, Len(items), next) /\ frames[next] \in Seq(Byte)
    BY <2>1, NextFrame, Zenon
  <2> HIDE DEF payload, rest
  <2>3. frames \in Seq(Seq(Byte)) /\ items \in Seq(Seq(Byte)) /\ buf \in Seq(Byte)
    BY DEF WireTypes
  <2>4. Append(items, payload) = items \o <<frames[next]>>
    BY <2>1, <2>2, <2>3, AppendIsConcat, Zenon
  <2>5. Piece(items \o <<frames[next]>>, frames, 0, next)
    BY <1>5, <2>2, <2>3, PiecesJoin, Zenon
  <2>6. Piece(items', frames, 0, next)
    BY <1>9, <2>4, <2>5, Zenon
  <2>7. Len(Append(items, payload)) = Len(items) + 1
    BY <2>1, <2>2, <2>3, AppendProperties, Zenon
  <2>8. Len(items') = next
    BY <1>9, <2>7, Zenon
  <2>9. reader = "read_frame" => rest = <<>>
    <3> SUFFICES ASSUME reader = "read_frame" PROVE rest = <<>>
      OBVIOUS
    <3>1. HasLen(buf)
      BY <1>9, Zenon DEF Whole
    <3>2. Len(buf) <= size
      BY <1>5, <3>1, Headers
    <3> QED BY <2>1, <2>3, <3>2, NothingLeft, Zenon
  <2>10. reader # "FramedRead" => next = 1
    BY SMTT(30), <1>5
  <2> HIDE DEF next, size
  <2>11. Piece(items', frames', 0, Len(items')) /\ Piece(buf', wire', off[Len(items')], pos')
    BY <1>2, <1>9, <2>1, <2>6, <2>8, Zenon
  <2> QED BY <1>2, <1>9, <2>8, <2>9, <2>10, <2>11, Zenon DEF Progress
<1>10. \/ Refused(buf) /\ status' = "failed" /\ buf' = buf /\ items' = items
       \/ ~Refused(buf) /\ ~Whole(buf) /\ status' = "read" /\ buf' = buf /\ items' = items
       \/ /\ ~Refused(buf) /\ Whole(buf) /\ buf' = rest
          /\ \/ ~Cbor(payload) /\ items' = items /\ status' = "failed"
             \/ /\ items' = Append(items, payload)
                /\ status' = IF reader = "FramedRead" THEN "decode" ELSE "done"
  BY Zenon DEF decode, Ready
<1> HIDE DEF next, size, payload, rest
<1> QED BY <1>1, <1>6, <1>7, <1>8, <1>9, <1>10, Zenon

\* While the writer goes on, its frames fill the stream.
LEMMA FramesFill ==
  ASSUME WireTypes, NEW off, Layout(off), ~finished
  PROVE  off[Len(frames)] = Len(wire)
<1>1. Piece(tail, wire, off[Len(frames)], Len(wire)) /\ tail = <<>> /\ wire \in Seq(Byte)
  BY Zenon DEF Layout, WireTypes
<1> DEFINE end == off[Len(frames)]
<1>2. Piece(tail, wire, end, Len(wire))
  BY <1>1
<1> HIDE DEF end
<1>3. end \in Nat /\ Len(wire) \in Nat /\ Len(tail) = Len(wire) - end
  BY <1>1, <1>2, PieceIs, SMT
<1>4. Len(tail) = 0
  BY <1>1, EmptySeq
<1>5. end = Len(wire)
  BY SMTT(30), <1>3, <1>4
<1> QED BY <1>5 DEF end

\* What is written meanwhile does not disturb the reader.
LEMMA WriteKeepsProgress ==
  ASSUME WireTypes, NEW off, Layout(off), Progress(off), ~finished, NEW new,
         \A i \in 0..Len(frames) : new[i] = off[i], NEW more \in Seq(Byte), wire' = wire \o more,
         UNCHANGED <<reader, pos, buf, items, status>>,
         Piece(items, frames', 0, Len(items)),
         items # frames => items # frames' /\ frames'[Len(items) + 1] = frames[Len(items) + 1]
  PROVE  Progress(new)'
<1>1. /\ Len(items) \in Nat /\ Len(frames) \in Nat /\ Len(items) <= Len(frames)
  BY Places
<1>2. new[Len(items)] = off[Len(items)]
  BY SMTT(30), <1>1
<1>3. wire \in Seq(Byte) /\ tail = <<>>
  BY Zenon DEF WireTypes, Layout
<1>4. status # "failed" => Piece(buf, wire \o more, off[Len(items)], pos)
  BY <1>3, PieceKept, Zenon DEF Progress
<1>5. status' # "failed" => Piece(buf', wire', new[Len(items')], pos')
  BY <1>2, <1>4, ZenonT(60)
<1>6. /\ (Whole(buf)' <=> Whole(buf)) /\ (Refused(buf)' <=> Refused(buf))
      /\ (HasLen(buf)' <=> HasLen(buf)) /\ frame_len(buf)' = frame_len(buf)
  BY SameReader
<1>7. reader = "FramedRead" => status # "done"
  BY Zenon DEF Progress
<1>8. (reader = "FramedRead" /\ status = "failed") =>
         items' # frames' /\ ~Cbor(frames'[Len(items') + 1])
  BY <1>3, Zenon DEF Progress
<1>9. Piece(items', frames', 0, Len(items'))
  BY Zenon
<1>10. /\ status' = "read" => ~Refused(buf)' /\ ~Whole(buf)'
       /\ reader' # "FramedRead" => Len(items') = IF status' = "done" THEN 1 ELSE 0
       /\ reader' = "read_frame" =>
             /\ status' = "done" => buf' = <<>>
             /\ (status' = "decode" /\ HasLen(buf)') => Len(buf') <= 4 + frame_len(buf)'
  BY <1>6, Zenon DEF Progress
<1> QED BY <1>5, <1>7, <1>8, <1>9, <1>10, ZenonT(60) DEF Progress

\* encode keeps the invariant: the new frame ends where the stream does.
LEMMA EncodeStep ==
  ASSUME ~Tls, WireTypes, NEW off, Layout(off), Progress(off),
         NEW payload \in Payloads, encode(payload)
  PROVE  \E new : Layout(new)' /\ Progress(new)'
<1> DEFINE n     == Len(frames)
           bytes == FrameBytes(payload)
           end   == Len(wire) + Len(bytes)
           ends  == [i \in 0..(n + 1) |-> IF i <= n THEN off[i] ELSE end]
<1>1. /\ ~finished /\ frames' = Append(frames, payload) /\ wire' = wire \o bytes /\ finished' = finished
      /\ UNCHANGED <<tail, reader, pos, buf, items, status>> /\ Len(payload) <= MAX_FRAME_SIZE
  BY DEF encode, Encodes
<1>2. payload \in Seq(Byte) /\ frames \in Seq(Seq(Byte)) /\ wire \in Seq(Byte)
  BY Limits DEF WireTypes
<1>3. bytes \in Seq(Byte)
  BY <1>1, <1>2, FrameIs, Zenon
<1>4. /\ wire \o bytes \in Seq(Byte) /\ Len(wire \o bytes) = end
      /\ Piece(bytes, wire \o bytes, Len(wire), end)
  BY <1>2, <1>3, PieceAdded, Zenon
<1>5. Append(frames, payload) = frames \o <<payload>> /\ <<payload>> \in Seq(Seq(Byte))
  BY SMTT(30), <1>2, AppendIsConcat
<1>6. /\ Append(frames, payload) \in Seq(Seq(Byte)) /\ Len(Append(frames, payload)) = n + 1
      /\ Append(frames, payload)[n + 1] = payload
      /\ \A i \in 1..n : Append(frames, payload)[i] = frames[i]
  BY SMTT(30), <1>2, AppendProperties
<1>7. n \in Nat /\ end \in Nat /\ Len(wire) \in Nat
  BY SMTT(30), <1>2, <1>3, LenProperties
<1>8. off[n] = Len(wire) /\ tail = <<>>
  BY <1>1, FramesFill, Zenon DEF Layout
<1>9. off \in [0..n -> Nat] /\ off[0] = 0
  BY Zenon DEF Layout
<1>10. /\ ends \in [0..(n + 1) -> Nat] /\ ends[0] = 0 /\ ends[n + 1] = end
       /\ \A i \in 0..n : ends[i] = off[i]
  BY SMTT(30), <1>7, <1>9
<1> HIDE DEF bytes, end, ends, n
<1>11. PICK new :
       /\ new \in [0..(n + 1) -> Nat] /\ new[0] = 0 /\ new[n + 1] = end
       /\ \A i \in 0..n : new[i] = off[i]
  BY <1>10, Zenon
<1>12. \A i \in 1..(n + 1) : \/ i \in 1..n /\ i - 1 \in 0..n /\ i \in 0..n
                             \/ i = n + 1 /\ i - 1 = n /\ n \in 0..n
  BY SMTT(30), <1>7
<1>13. ASSUME NEW i \in 1..(n + 1)
       PROVE  /\ Len(frames'[i]) <= MAX_FRAME_SIZE
              /\ Piece(FrameBytes(frames'[i]), wire', new[i - 1], new[i])
  <2>1. CASE i \in 1..n /\ i - 1 \in 0..n /\ i \in 0..n
    <3>1. /\ Len(frames[i]) <= MAX_FRAME_SIZE
          /\ Piece(FrameBytes(frames[i]), wire, off[i - 1], off[i])
      BY <2>1, Zenon DEF Layout, n
    <3>2. Piece(FrameBytes(frames[i]), wire \o bytes, off[i - 1], off[i])
      BY <1>2, <1>3, <3>1, PieceKept, Zenon
    <3>3. frames'[i] = frames[i] /\ new[i] = off[i] /\ new[i - 1] = off[i - 1]
      BY <1>1, <1>6, <1>11, <2>1, Zenon
    <3> QED BY <1>1, <3>1, <3>2, <3>3, Zenon
  <2>2. CASE i = n + 1 /\ i - 1 = n /\ n \in 0..n
    <3>1. frames'[i] = payload /\ new[i] = end /\ new[i - 1] = Len(wire)
      BY <1>1, <1>6, <1>8, <1>11, <2>2, Zenon
    <3> QED BY <1>1, <1>4, <3>1, Zenon DEF bytes
  <2> QED BY <1>12, <2>1, <2>2, Zenon
<1>14. Piece(<<>>, wire \o bytes, end, end)
  <2>1. end <= end
    BY SMTT(30), <1>7
  <2> QED BY <1>4, <1>7, <2>1, NoPiece, Zenon
<1>15. Layout(new)'
  <2>1. Len(frames') = n + 1 /\ Len(wire') = end
    BY <1>1, <1>4, <1>6, Zenon
  <2>2. Piece(tail', wire', new[Len(frames')], Len(wire'))
    BY <1>1, <1>8, <1>11, <1>14, <2>1, Zenon
  <2>3. new \in [0..Len(frames') -> Nat]
    BY <1>11, <2>1, Zenon
  <2>4. \A i \in 1..Len(frames') : /\ Len(frames'[i]) <= MAX_FRAME_SIZE
                                    /\ Piece(FrameBytes(frames'[i]), wire', new[i - 1], new[i])
    BY <1>13, <2>1, Zenon
  <2>5. ~finished' /\ tail' = <<>>
    BY <1>1, <1>8
  <2> QED BY <1>11, <2>2, <2>3, <2>4, <2>5, Zenon DEF Layout
<1>16. Progress(new)'
  <2>1. Piece(items, frames, 0, Len(items))
    BY Zenon DEF Progress
  <2>2. Piece(items, frames \o <<payload>>, 0, Len(items))
    BY <1>2, <1>5, <2>1, PieceKept, Zenon
  <2>3. Piece(items, frames', 0, Len(items))
    BY <1>1, <1>5, <2>2, Zenon
  <2>4. /\ Len(items) \in Nat /\ Len(items) <= n /\ (Len(items) = n => items = frames)
    BY Places DEF n
  <2>5. items # frames => Len(items) + 1 \in 1..n
    BY SMTT(30), <1>7, <2>4
  <2>6. Len(frames') # Len(items)
    BY SMTT(30), <1>1, <1>6, <1>7, <2>4
  <2>7. items # frames => items # frames' /\ frames'[Len(items) + 1] = frames[Len(items) + 1]
    BY <1>1, <1>6, <2>5, <2>6, Zenon
  <2>8. /\ \A i \in 0..Len(frames) : new[i] = off[i]
        /\ ~finished /\ UNCHANGED <<reader, pos, buf, items, status>> /\ wire' = wire \o bytes
    BY <1>1, <1>11 DEF n
  <2> QED BY <1>3, <2>3, <2>7, <2>8, WriteKeepsProgress, Zenon
<1> QED BY <1>15, <1>16

\* Finish keeps it: the tail stands behind the last frame.
LEMMA FinishStep ==
  ASSUME ~Tls, WireTypes, NEW off, Layout(off), Progress(off), NEW bytes \in Tails, Finish(bytes)
  PROVE  Layout(off)' /\ Progress(off)'
<1> DEFINE end == Len(wire) + Len(bytes)
<1>1. /\ ~finished /\ frames' = frames /\ wire' = wire \o bytes /\ finished' = TRUE /\ tail' = bytes
      /\ UNCHANGED <<reader, pos, buf, items, status>>
      /\ reader = "FramedRead" \/ frames = <<>> => ~Whole(bytes) \/ Refused(bytes)
  BY DEF Finish
<1>2. bytes \in Seq(Byte) /\ wire \in Seq(Byte)
  BY Limits DEF WireTypes
<1>3. Len(wire \o bytes) = end /\ Piece(bytes, wire \o bytes, Len(wire), end)
  BY <1>2, PieceAdded, Zenon
<1>4. off[Len(frames)] = Len(wire)
  BY <1>1, FramesFill, Zenon
<1>5. Piece(tail', wire', off[Len(frames')], Len(wire'))
  BY <1>1, <1>3, <1>4, Zenon
<1>6. (Whole(tail)' <=> Whole(bytes)) /\ (Refused(tail)' <=> Refused(bytes))
  BY <1>1, SameReader
<1>7. ASSUME NEW i \in 1..Len(frames)
      PROVE  Piece(FrameBytes(frames'[i]), wire', off[i - 1], off[i])
  <2>1. Piece(FrameBytes(frames[i]), wire, off[i - 1], off[i])
    BY Zenon DEF Layout
  <2>2. Piece(FrameBytes(frames[i]), wire \o bytes, off[i - 1], off[i])
    BY <1>2, <2>1, PieceKept, Zenon
  <2> QED BY <1>1, <2>2, Zenon
<1>8. Layout(off)'
  BY <1>1, <1>5, <1>6, <1>7, Zenon DEF Layout
<1>9. Piece(items, frames', 0, Len(items))
  BY <1>1, Zenon DEF Progress
<1>10. Progress(off)'
  BY <1>1, <1>2, <1>9, WriteKeepsProgress, Zenon
<1> QED BY <1>8, <1>10

\* Every step keeps the invariant of a frame reader.
LEMMA FramesStep ==
  ASSUME ~Tls, WireTypes, FramesInv, NextAll
  PROVE  FramesInv'
<1> SUFFICES status' # "parsed" /\ \E off : Layout(off)' /\ Progress(off)'
  BY DEF FramesInv
<1>1. PICK off : status # "parsed" /\ Layout(off) /\ Progress(off)
  BY DEF FramesInv
<1>2. ASSUME NEW payload \in Payloads, encode(payload)
      PROVE  status' # "parsed" /\ \E new : Layout(new)' /\ Progress(new)'
  BY <1>1, <1>2, EncodeStep, Zenon DEF encode
<1>3. ASSUME NEW bytes \in Tails, Finish(bytes)
      PROVE  status' # "parsed" /\ Layout(off)' /\ Progress(off)'
  BY <1>1, <1>3, FinishStep DEF Finish
<1>4. ASSUME NEW n \in 1..Len(wire), Read(n)
      PROVE  status' # "parsed" /\ Layout(off)' /\ Progress(off)'
  BY <1>1, <1>4, ReadStep, Zenon DEF Read
<1>5. ASSUME StreamEnds PROVE status' # "parsed" /\ Layout(off)' /\ Progress(off)'
  BY <1>1, <1>5, EndStep DEF StreamEnds
<1>6. ASSUME decode PROVE status' # "parsed" /\ Layout(off)' /\ Progress(off)'
  BY <1>1, <1>6, DecodeStep DEF decode
<1>7. NextFrames
  BY DEF NextAll, Parse, poll_read
<1> QED BY <1>2, <1>3, <1>4, <1>5, <1>6, <1>7 DEF NextFrames

\* The inductive invariant of a stream of frames.
FrameInv == FramesInv /\ (~Tls => WireTypes)

\* The invariant holds of every stream, however many frames it has, whatever their
\* payloads and however the bytes are cut into reads.
THEOREM FrameInvariance == SpecAll => []FrameInv
<1>1. InitAll => FrameInv
  <2>1. ASSUME InitAll, ~Tls PROVE InitFrames
    BY <2>1 DEF InitAll, InitHello, Tls
  <2> QED BY <2>1, InitFrameTypes, InitFramesInv DEF FrameInv
<1>2. FrameInv /\ [NextAll]_allVars => FrameInv'
  <2> SUFFICES ASSUME FrameInv, [NextAll]_allVars PROVE FrameInv'
    OBVIOUS
  <2>1. Tls' <=> Tls
    BY Zenon DEF NextAll, NextFrames, encode, Finish, Read, StreamEnds, decode, Parse,
                 poll_read, Tls, allVars, frameVars
  <2>2. CASE Tls
    BY <2>1, <2>2, Zenon DEF FrameInv, FramesInv
  <2>3. CASE ~Tls
    <3>1. WireTypes /\ FramesInv /\ WireTypes'
      BY <2>3, WireStep DEF FrameInv
    <3>2. CASE UNCHANGED allVars
      <4>1. PICK off : status # "parsed" /\ Layout(off) /\ Progress(off)
        BY <2>3, <3>1 DEF FramesInv
      <4>2. Layout(off)'
        BY <3>1, <3>2, <4>1, LayoutKept DEF allVars, frameVars
      <4>3. UNCHANGED <<frames, tail, wire, finished, reader, pos, buf, items, status>>
        BY <3>2 DEF allVars, frameVars, written
      <4>4. /\ (Whole(buf)' <=> Whole(buf)) /\ (Refused(buf)' <=> Refused(buf))
            /\ (HasLen(buf)' <=> HasLen(buf)) /\ frame_len(buf)' = frame_len(buf)
        BY <4>3, SameReader
      <4>5. Progress(off)'
        BY <4>1, <4>3, <4>4, Zenon DEF Progress
      <4>6. status' # "parsed" /\ \E o : Layout(o)' /\ Progress(o)'
        BY <4>1, <4>2, <4>3, <4>5
      <4> QED BY <3>1, <4>6 DEF FrameInv, FramesInv
    <3>3. CASE NextAll
      <4>1. FramesInv'
        BY <2>3, <3>1, <3>3, FramesStep
      <4> QED BY <3>1, <4>1 DEF FrameInv
    <3> QED BY <3>2, <3>3
  <2> QED BY <2>2, <2>3
<1> QED BY <1>1, <1>2, PTL DEF SpecAll

\* FramedRead over FrameCodec returns the frames that encode wrote, in order, and
\* fails only at a frame that is none, is too long or is cut off.
THEOREM FramesArriveAsSent == SpecAll => []FramesAsSent
<1>1. FrameInv => FramesAsSent
  <2> SUFFICES ASSUME FrameInv, reader = "FramedRead"
               PROVE  /\ items = SubSeq(frames, 1, Len(items))
                      /\ status = "done" => items = frames /\ tail = <<>>
                      /\ status = "failed" => IF items = frames THEN tail # <<>>
                                              ELSE ~Cbor(frames[Len(items) + 1])
    BY DEF FramesAsSent
  <2>1. PICK off : Progress(off)
    BY DEF FrameInv, FramesInv, Tls
  <2>2. Piece(items, frames, 0, Len(items))
    BY <2>1, Zenon DEF Progress
  <2>3. items = SubSeq(frames, 0 + 1, Len(items)) /\ 0 + 1 = 1
    BY SMTT(30), <2>2 DEF Piece
  <2>4. items = SubSeq(frames, 1, Len(items))
    BY <2>3, Zenon
  <2> QED BY <2>1, <2>4, Zenon DEF Progress
<1> QED BY <1>1, FrameInvariance, PTL

\* read_frame and the SDK's readFrame return the header and leave all bytes behind
\* it to the forwarding.
THEOREM HeaderLeavesTheRest == SpecAll => []RawBytesKept
<1>1. FrameInv => RawBytesKept
  <2> DEFINE more == SubSeq(wire, pos + 1, Len(wire))
             head == FrameBytes(items[1])
  <2> SUFFICES ASSUME FrameInv, reader \in {"read_frame", "readFrame"}, status = "done"
               PROVE  /\ items = SubSeq(frames, 1, 1)
                      /\ head \o buf \o more = wire
                      /\ reader = "read_frame" => buf = <<>>
    BY Zenon DEF RawBytesKept
  <2>1. WireTypes /\ ~Tls
    BY DEF FrameInv, Tls
  <2>2. PICK off : Layout(off) /\ Progress(off)
    BY <2>1 DEF FrameInv, FramesInv
  <2>3. /\ Piece(items, frames, 0, Len(items)) /\ Piece(buf, wire, off[Len(items)], pos)
        /\ Len(items) = 1 /\ (reader = "read_frame" => buf = <<>>)
    BY <2>2 DEF Progress
  <2>4. wire \in Seq(Byte) /\ frames \in Seq(Seq(Byte)) /\ pos \in Nat /\ pos <= Len(wire)
        /\ Len(wire) \in Nat /\ Len(wire) <= Len(wire)
    BY SMTT(30), <2>1, LenProperties DEF WireTypes
  <2>5. Len(items) <= Len(frames) /\ Len(frames) \in Nat
    BY <2>1, <2>2, Places
  <2>6. 1 \in 1..Len(frames) /\ 1 - 1 = 0 /\ 0 + 1 = 1 /\ 1 \in 1..1
    BY SMTT(30), <2>3, <2>5
  <2>7. Piece(FrameBytes(frames[1]), wire, off[1 - 1], off[1]) /\ off[0] = 0
    BY <2>2, <2>6, Zenon DEF Layout
  <2>8. Piece(items, frames, 0, 1)
    BY <2>3, Zenon
  <2>9. items[1] = frames[1]
    BY SMTT(30), <2>4, <2>6, <2>8, StartIs
  <2>10. Piece(head, wire, 0, off[1]) /\ Piece(buf, wire, off[1], pos)
    BY <2>3, <2>6, <2>7, <2>9, Zenon
  <2>11. Piece(more, wire, pos, Len(wire))
    BY <2>4, CutOut, Zenon
  <2> HIDE DEF more, head
  <2>12. Piece(head \o buf, wire, 0, pos)
    BY <2>4, <2>10, PiecesJoin, Zenon
  <2>13. Piece(head \o buf \o more, wire, 0, Len(wire))
    BY <2>4, <2>11, <2>12, PiecesJoin, Zenon
  <2>14. Piece(wire, wire, 0, Len(wire))
    BY <2>4, AllOfIt, Zenon
  <2>15. head \o buf \o more = wire
    BY <2>13, <2>14, OnePiece, Zenon
  <2>16. items = SubSeq(frames, 0 + 1, 1)
    BY <2>8, Zenon DEF Piece
  <2>17. items = SubSeq(frames, 1, 1)
    BY <2>6, <2>16, Zenon
  <2> QED BY <2>3, <2>15, <2>17, Zenon
<1> QED BY <1>1, FrameInvariance, PTL
=============================================================================
