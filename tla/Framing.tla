------------------------------- MODULE Framing -------------------------------
(***************************************************************************)
(* What is read off the wire by a length it carries.  The frames of the    *)
(* tunnel protocol have three readers: the FrameCodec decoder under        *)
(* FramedRead (codec.rs decode), the exact reader of a data stream's       *)
(* header (codec.rs read_frame) and the buffering reader of the TypeScript *)
(* SDK (protocol.ts readFrame).  The TLS record with a public client's     *)
(* ClientHello has one, read_client_hello of public.rs; module ClientHello *)
(* says what is made of the record.  The bytes of a stream arrive in       *)
(* pieces of any size, while the writer goes on, and the stream may end    *)
(* anywhere.  A payload's CBOR is reduced to whether it is that of a frame *)
(* of the expected type.                                                   *)
(***************************************************************************)
EXTENDS Naturals, Sequences

CONSTANTS MAX_FRAME_SIZE,   \* the longest payload (64 KiB)
          MAX_RECORD_SIZE,  \* the longest body of a TLS record (16 KiB)
          Payloads,         \* what is encoded
          Cbor(_),          \* whether a payload is a frame of the expected type
          MaxFrames,        \* frames of a stream
          Tails             \* what may follow them

Byte == 0..255

\* The limit of a frame fits the four bytes of its length.
ASSUME FramingAssumption ==
    /\ MAX_FRAME_SIZE \in Nat /\ MAX_FRAME_SIZE <= 2147483647
    /\ MAX_RECORD_SIZE \in Nat
    /\ Payloads \subseteq Seq(Byte) /\ Tails \subseteq Seq(Byte)

LEN_PREFIX_SIZE == 4

Readers == {"FramedRead", "read_frame", "readFrame"}

Handshake == 22  \* the type of a TLS record that carries a ClientHello

VARIABLES
    frames,   \* the payloads of the frames that were written
    tail,     \* the bytes written after them, or all bytes of a TLS client
    wire,     \* all bytes that were written
    finished, \* the writer has finished the stream
    reader,   \* who reads the stream: one of Readers or "read_client_hello"
    pos,      \* how many bytes of the stream it has taken
    buf,      \* the bytes it holds
    items,    \* the frames it has returned
    status    \* "read", "decode", "done", "failed"

written == <<frames, tail, wire, finished>>

frameVars == <<written, reader, pos, buf, items, status>>

Tls == reader = "read_client_hello"

\* A number as n <= 4 big-endian bytes, and the number in the n bytes after p.
Weight == <<1, 256, 65536, 16777216>>

to_be_bytes(v, n) == [i \in 1..n |-> (v \div Weight[n - i + 1]) % 256]

from_be_bytes(bytes, p, n) ==
    LET part(i) == IF i <= n THEN bytes[p + n - i + 1] * Weight[i] ELSE 0
    IN  part(1) + part(2) + part(3) + part(4)

\* A frame starts with its length; a record with type, version and length.
header_size == IF Tls THEN 5 ELSE LEN_PREFIX_SIZE

frame_len(bytes) ==
    IF Tls THEN from_be_bytes(bytes, 3, 2) ELSE from_be_bytes(bytes, 0, LEN_PREFIX_SIZE)

HasLen(bytes) == Len(bytes) >= header_size

\* A length over the limit, or a record that is no handshake.
Refused(bytes) ==
    HasLen(bytes) /\ IF Tls THEN bytes[1] # Handshake \/ frame_len(bytes) > MAX_RECORD_SIZE
                     ELSE frame_len(bytes) > MAX_FRAME_SIZE

Whole(bytes) == HasLen(bytes) /\ Len(bytes) >= header_size + frame_len(bytes)

FrameBytes(payload) == to_be_bytes(Len(payload), LEN_PREFIX_SIZE) \o payload
-----------------------------------------------------------------------------
(* Faulty variants. *)

EncodesAnySize(payload) == TRUE

\* An exact read takes what has arrived.
TakesAll(n) == TRUE
-----------------------------------------------------------------------------
InitFrames ==
    /\ reader \in Readers
    /\ frames = <<>> /\ tail = <<>> /\ wire = <<>> /\ finished = FALSE
    /\ pos = 0 /\ buf = <<>> /\ items = <<>>
    /\ status = "read"
-----------------------------------------------------------------------------
(* The writer *)

\* encode refuses a payload over the limit.
Encodes(payload) == Len(payload) <= MAX_FRAME_SIZE

encode(payload) ==
    /\ ~finished /\ Len(frames) < MaxFrames
    /\ Encodes(payload)
    /\ frames' = Append(frames, payload)
    /\ wire' = wire \o FrameBytes(payload)
    /\ UNCHANGED <<tail, finished, reader, pos, buf, items, status>>

\* The stream goes on with raw bytes, or breaks off in a frame.  What follows the
\* frames is no other one; raw bytes behind a header may look like one.
Finish(bytes) ==
    /\ ~finished
    /\ reader = "FramedRead" \/ frames = <<>> => ~Whole(bytes) \/ Refused(bytes)
    /\ tail' = bytes
    /\ wire' = wire \o bytes
    /\ finished' = TRUE
    /\ UNCHANGED <<frames, reader, pos, buf, items, status>>
-----------------------------------------------------------------------------
(* The readers *)

\* read_exact asks for the bytes up to the length, then for those of the payload;
\* the other readers take what there is.
Missing ==
    IF HasLen(buf) THEN header_size + frame_len(buf) - Len(buf)
    ELSE header_size - Len(buf)

Asks(n) == n <= Missing

Read(n) ==
    /\ status = "read"
    /\ pos + n <= Len(wire)
    /\ reader = "read_frame" \/ Tls => Asks(n)
    /\ buf' = buf \o SubSeq(wire, pos + 1, pos + n)
    /\ pos' = pos + n
    /\ status' = "decode"
    /\ UNCHANGED <<written, reader, items>>

\* The stream ends: FramedRead may have nothing left, the header readers still
\* wait for their frame.
StreamEnds ==
    /\ status = "read" /\ finished /\ pos = Len(wire)
    /\ status' = IF reader = "FramedRead" /\ buf = <<>> THEN "done" ELSE "failed"
    /\ UNCHANGED <<written, reader, pos, buf, items>>

\* All bytes of the next frame are there.
Ready(bytes) == Whole(bytes)

\* FramedRead calls decode until it asks for more bytes; the other readers
\* return after one frame or record and leave the rest.  A record is returned
\* with its header.
decode ==
    /\ status = "decode"
    /\ LET payload == SubSeq(buf, IF Tls THEN 1 ELSE header_size + 1,
                             header_size + frame_len(buf))
           rest == SubSeq(buf, header_size + frame_len(buf) + 1, Len(buf))
       IN  \/ /\ Refused(buf)
              /\ status' = "failed"
              /\ UNCHANGED <<buf, items>>
           \/ /\ ~Refused(buf) /\ ~Ready(buf)
              /\ status' = "read"
              /\ UNCHANGED <<buf, items>>
           \/ /\ ~Refused(buf) /\ Ready(buf)
              /\ buf' = rest
              /\ IF Tls \/ Cbor(payload)
                 THEN /\ items' = Append(items, payload)
                      /\ status' = IF reader = "FramedRead" THEN "decode" ELSE "done"
                 ELSE /\ items' = items
                      /\ status' = "failed"
    /\ UNCHANGED <<written, reader, pos>>

NextFrames ==
    \/ \E payload \in Payloads : encode(payload)
    \/ \E bytes \in Tails : Finish(bytes)
    \/ \E n \in 1..Len(wire) : Read(n)
    \/ StreamEnds
    \/ decode
-----------------------------------------------------------------------------
\* However the bytes are cut into pieces, FramedRead returns the frames that were
\* sent, in order: all of them when the stream ends well, and when it fails then
\* at the frame that is not one, is too long or is cut off.
FramesAsSent ==
    reader = "FramedRead" =>
        /\ items = SubSeq(frames, 1, Len(items))
        /\ status = "done" => items = frames /\ tail = <<>>
        /\ status = "failed" => IF items = frames THEN tail # <<>>
                                ELSE ~Cbor(frames[Len(items) + 1])

\* A header reader returns the first frame, and the bytes after it are all there
\* for the forwarding that follows: unread in the stream, or held by the SDK's
\* reader, and never taken by read_frame.
RawBytesKept ==
    (reader \in {"read_frame", "readFrame"} /\ status = "done") =>
        /\ items = SubSeq(frames, 1, 1)
        /\ FrameBytes(items[1]) \o buf \o SubSeq(wire, pos + 1, Len(wire)) = wire
        /\ reader = "read_frame" => buf = <<>>
=============================================================================
