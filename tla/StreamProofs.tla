---------------------------- MODULE StreamProofs -----------------------------
(***************************************************************************)
(* What holds of every reader of a stream of bytes: of the readers of      *)
(* frames (EndpointProofs) and of the reader of a ClientHello              *)
(* (ClientHelloProofs).  What a reader holds and returns are pieces of the *)
(* stream.  Piece is expanded in its own lemmas only.                      *)
(***************************************************************************)
EXTENDS ClientHello, SequenceTheorems, TLAPS

\* A leaf is for Zenon unless it names another backend.
USE Zenon
-----------------------------------------------------------------------------
(* Pieces of sequences. *)

\* The length and the elements of a piece.
LEMMA PieceIs ==
  ASSUME NEW S, NEW w \in Seq(S), NEW s, NEW a, NEW b, Piece(s, w, a, b)
  PROVE  /\ s \in Seq(S) /\ a \in Nat /\ b \in Nat /\ a <= b /\ b <= Len(w)
         /\ Len(s) = b - a /\ Len(s) \in Nat /\ Len(w) \in Nat
         /\ \A i \in 1..(b - a) : s[i] = w[a + i]
<1> DEFINE t == SubSeq(w, a + 1, b)
<1>1. a \in Nat /\ b \in Nat /\ a <= b /\ b <= Len(w) /\ s = t
  BY DEF Piece
<1>2. t \in Seq(S) /\ Len(t) = b - a /\ \A i \in 1..(b - a) : t[i] = w[a + i]
  BY SMTT(30), <1>1, SubSeqProperties
<1>3. Len(w) \in Nat
  BY LenProperties
<1> HIDE DEF t
<1>4. Len(t) \in Nat
  BY SMTT(30), <1>1, <1>2
<1> QED BY <1>1, <1>2, <1>3, <1>4, Zenon

\* A piece from the start has the elements of the whole.
LEMMA StartIs ==
  ASSUME NEW S, NEW w \in Seq(S), NEW s, NEW n, Piece(s, w, 0, n)
  PROVE  \A i \in 1..n : s[i] = w[i]
<1>1. PICK a : a = 0
  OBVIOUS
<1>2. Piece(s, w, a, n)
  BY <1>1, Zenon
<1>3. a \in Nat /\ n \in Nat /\ \A i \in 1..(n - a) : s[i] = w[a + i]
  BY <1>2, PieceIs, SMT
<1>4. n - a = n /\ \A i \in 1..n : a + i = i
  BY SMTT(30), <1>1, <1>3
<1> QED BY <1>3, <1>4, Zenon

\* A piece is determined by where it lies.
LEMMA OnePiece ==
  ASSUME NEW s, NEW t, NEW w, NEW a, NEW b, Piece(s, w, a, b), Piece(t, w, a, b)
  PROVE  s = t
  BY Zenon DEF Piece

\* The empty piece lies anywhere.
LEMMA NoPiece ==
  ASSUME NEW S, NEW w \in Seq(S), NEW a \in Nat, a <= Len(w)
  PROVE  Piece(<<>>, w, a, a)
  BY SMTT(30), SubSeqEmpty DEF Piece

\* A sequence is a piece of itself.
LEMMA AllOfIt ==
  ASSUME NEW S, NEW w \in Seq(S)
  PROVE  Piece(w, w, 0, Len(w))
<1>1. SubSeq(w, 0 + 1, Len(w)) = w
  BY SMTT(30), SubSeqFull
<1> QED BY SMTT(30), <1>1, LenProperties DEF Piece

\* What SubSeq cuts out is a piece.
LEMMA CutOut ==
  ASSUME NEW s, NEW a \in Nat, NEW b \in Nat, a <= b, b <= Len(s)
  PROVE  Piece(SubSeq(s, a + 1, b), s, a, b)
  BY Zenon DEF Piece

\* The same from the start.
LEMMA CutStart ==
  ASSUME NEW s, NEW b \in Nat, b <= Len(s)
  PROVE  Piece(SubSeq(s, 1, b), s, 0, b)
<1>1. 0 + 1 = 1 /\ 0 \in Nat /\ 0 <= b
  BY SMTT(30)
<1> QED BY <1>1, Zenon DEF Piece

\* The first element of a piece.
LEMMA FirstOf ==
  ASSUME NEW S, NEW w \in Seq(S), NEW s, NEW a, NEW b, Piece(s, w, a, b), a < b
  PROVE  s \in Seq(S) /\ Len(s) = b - a /\ s[1] = w[a + 1]
<1>1. s \in Seq(S) /\ a \in Nat /\ b \in Nat /\ Len(s) = b - a
  BY PieceIs, SMT
<1>2. \A i \in 1..(b - a) : s[i] = w[a + i]
  BY PieceIs, SMT
<1>3. 1 \in 1..(b - a)
  BY SMTT(30), <1>1
<1> QED BY <1>1, <1>2, <1>3, Zenon

\* A piece of a piece is a piece of the whole, further on.
LEMMA PieceOfPiece ==
  ASSUME NEW S, NEW w \in Seq(S), NEW s, NEW a, NEW b, Piece(s, w, a, b),
         NEW t, NEW c, NEW d, Piece(t, s, c, d)
  PROVE  Piece(t, w, a + c, a + d)
<1>1. /\ s \in Seq(S) /\ a \in Nat /\ b \in Nat /\ a <= b /\ b <= Len(w) /\ Len(s) = b - a
      /\ Len(w) \in Nat /\ \A i \in 1..(b - a) : s[i] = w[a + i]
  BY PieceIs, SMT
<1>2. /\ t \in Seq(S) /\ c \in Nat /\ d \in Nat /\ c <= d /\ d <= Len(s)
      /\ Len(t) = d - c /\ Len(t) \in Nat /\ Len(s) \in Nat
      /\ \A i \in 1..(d - c) : t[i] = s[c + i]
  <2>1. s \in Seq(S)
    BY <1>1
  <2> QED BY <2>1, PieceIs, SMT
<1> DEFINE p == a + c
           q == a + d
           v == SubSeq(w, p + 1, q)
<1>3. p \in Nat /\ q \in Nat /\ p <= q /\ q <= Len(w) /\ q - p = d - c
  BY SMTT(30), <1>1, <1>2
<1>4. Piece(v, w, p, q)
  BY <1>3, Zenon DEF Piece
<1> HIDE DEF p, q, v
<1>5. v \in Seq(S) /\ Len(v) = q - p /\ \A i \in 1..(q - p) : v[i] = w[p + i]
  BY <1>4, PieceIs, SMT
<1>6. Len(t) = Len(v) /\ \A i \in 1..Len(t) : t[i] = v[i]
  BY <1>1, <1>2, <1>3, <1>5, SMTT(30) DEF p
<1>7. t = v
  BY <1>2, <1>5, <1>6, SeqEqual, Zenon
<1> QED BY <1>4, <1>7, Zenon DEF p, q

\* Two pieces that meet are one piece.
LEMMA PiecesJoin ==
  ASSUME NEW S, NEW w \in Seq(S), NEW s, NEW t, NEW a, NEW b, NEW c,
         Piece(s, w, a, b), Piece(t, w, b, c)
  PROVE  Piece(s \o t, w, a, c)
<1>1. /\ a \in Nat /\ b \in Nat /\ a <= b /\ s = SubSeq(w, a + 1, b)
      /\ c \in Nat /\ b <= c /\ c <= Len(w) /\ t = SubSeq(w, b + 1, c)
  BY Zenon DEF Piece
<1>2. Len(w) \in Nat
  BY LenProperties
<1>3. a + 1 \in 1..Len(w) + 1 /\ b \in (a + 1) - 1 .. Len(w) /\ c \in b..Len(w) /\ a <= c
  BY SMTT(30), <1>1, <1>2
<1>4. SubSeq(w, a + 1, b) \o SubSeq(w, b + 1, c) = SubSeq(w, a + 1, c)
  BY <1>3, ConcatAdjacentSubSeq, Zenon
<1> QED BY <1>1, <1>3, <1>4, Zenon DEF Piece

\* A piece stays where it is when the sequence grows.
LEMMA PieceKept ==
  ASSUME NEW S, NEW w \in Seq(S), NEW t \in Seq(S), NEW s, NEW a, NEW b, Piece(s, w, a, b)
  PROVE  Piece(s, w \o t, a, b)
<1>1. a \in Nat /\ b \in Nat /\ a <= b /\ b <= Len(w) /\ s = SubSeq(w, a + 1, b)
  BY Zenon DEF Piece
<1>2. b <= Len(w \o t)
  BY SMTT(30), <1>1, ConcatProperties, LenProperties
<1>3. CASE a = b
  BY SMTT(30), <1>1, <1>2, <1>3, SubSeqEmpty DEF Piece
<1>4. CASE a < b
  <2>1. a + 1 \in 1..Len(w) /\ b \in 1..Len(w)
    BY SMTT(30), <1>1, <1>4, LenProperties
  <2>2. SubSeq(w \o t, a + 1, b) = SubSeq(w, a + 1, b)
    BY <2>1, SubSeqOfConcat1, Zenon
  <2> QED BY <1>1, <1>2, <2>2, Zenon DEF Piece
<1> QED BY SMTT(30), <1>1, <1>3, <1>4

\* What was there and what was added are the pieces of the longer sequence.
LEMMA PieceAdded ==
  ASSUME NEW S, NEW w \in Seq(S), NEW t \in Seq(S)
  PROVE  /\ w \o t \in Seq(S) /\ Len(w \o t) = Len(w) + Len(t)
         /\ Piece(w, w \o t, 0, Len(w)) /\ Piece(t, w \o t, Len(w), Len(w) + Len(t))
<1>1. Len(w) \in Nat /\ Len(t) \in Nat
  BY LenProperties
<1>2. w \o t \in Seq(S) /\ Len(w \o t) = Len(w) + Len(t)
  BY ConcatProperties, Zenon
<1>3. SubSeq(w \o t, Len(w) + 1, Len(w) + Len(t)) = t
  <2>1. CASE t = <<>>
    BY SMTT(30), <1>1, <2>1, SubSeqEmpty
  <2>2. CASE t # <<>>
    BY SMTT(30), <1>1, <2>2, SubSeqOfConcat2, SubSeqFull
  <2> QED BY <2>1, <2>2
<1>4. Piece(w, w \o t, 0, Len(w))
  BY AllOfIt, PieceKept, Zenon
<1> DEFINE n == Len(w) + Len(t)
<1>5. n \in Nat /\ Len(w) <= n
  BY SMTT(30), <1>1
<1>6. n <= n
  BY SMTT(30), <1>5
<1> QED BY <1>1, <1>2, <1>3, <1>4, <1>5, <1>6, Zenon DEF Piece

-----------------------------------------------------------------------------
(* Numbers as bytes, and frames. *)

\* A byte is a number below 256.
LEMMA ByteDef == \A n : n \in Byte <=> n \in Nat /\ n < 256
  BY SMT DEF Byte

\* Division by 256 and its remainder.
LEMMA DivMod ==
  ASSUME NEW n \in Nat
  PROVE  n = 256 * (n \div 256) + (n % 256) /\ n \div 256 \in Nat /\ (n % 256) \in Byte
<1>1. n = 256 * (n \div 256) + (n % 256)
  BY SMT
<1>2. n \div 256 \in Nat
  BY SMT
<1>3. (n % 256) \in Byte
  BY SMT, ByteDef
<1> QED BY <1>1, <1>2, <1>3

\* A number of four bytes is the sum of its bytes by their weights.
LEMMA Digits ==
  ASSUME NEW v \in Nat, v <= 2147483647
  PROVE  /\ (v \div 256) % 256 \in Byte /\ (v \div 65536) % 256 \in Byte
         /\ (v \div 16777216) % 256 \in Byte
         /\ (v % 256) + ((v \div 256) % 256) * 256 + ((v \div 65536) % 256) * 65536
              + ((v \div 16777216) % 256) * 16777216 = v
<1> DEFINE a == v \div 256
           b == v \div 65536
           c == v \div 16777216
<1>1. c \in Nat /\ (c % 256) = c
  BY SMT
<1>2. a = v \div 256 /\ b = a \div 256 /\ c = b \div 256 /\ a \in Nat /\ b \in Nat
  BY SMT
<1> HIDE DEF a, b, c
<1>3. v = 256 * a + (v % 256) /\ a = 256 * b + (a % 256) /\ b = 256 * c + (b % 256)
  BY DivMod, <1>2, SMT
<1>4. (a % 256) \in Byte /\ (b % 256) \in Byte /\ (c % 256) \in Byte /\ (v % 256) \in Byte
  BY DivMod, <1>1, <1>2, SMT
<1>5. \A p, q, r, s \in Nat : p + (q * 256) + (r * 65536) + (s * 16777216)
                                = p + 256 * (q + 256 * (r + 256 * s))
  BY SMT
<1>6. (a % 256) \in Nat /\ (b % 256) \in Nat /\ (c % 256) \in Nat /\ (v % 256) \in Nat
  BY <1>4, ByteDef, SMT
<1>7. (v % 256) + (a % 256) * 256 + (b % 256) * 65536 + (c % 256) * 16777216 = v
  BY <1>1, <1>3, <1>5, <1>6, SMT
<1> QED BY <1>4, <1>7, SMT DEF a, b, c

\* The weights of the four bytes.
LEMMA Weights == Weight[1] = 1 /\ Weight[2] = 256 /\ Weight[3] = 65536 /\ Weight[4] = 16777216
  BY SMT DEF Weight

\* to_be_bytes makes four bytes that add up to the number.
LEMMA ToBytes ==
  ASSUME NEW v \in Nat, v <= 2147483647
  PROVE  /\ to_be_bytes(v, 4) \in Seq(Byte) /\ Len(to_be_bytes(v, 4)) = 4
         /\ to_be_bytes(v, 4)[4] + to_be_bytes(v, 4)[3] * 256 + to_be_bytes(v, 4)[2] * 65536
              + to_be_bytes(v, 4)[1] * 16777216 = v
<1> DEFINE d(i) == (v \div Weight[4 - i + 1]) % 256
<1>1. /\ d(1) = (v \div 16777216) % 256 /\ d(2) = (v \div 65536) % 256
      /\ d(3) = (v \div 256) % 256 /\ d(4) = (v % 256)
  <2>1. v \div 1 = v
    BY SMT
  <2> QED BY Weights, <2>1, SMT
<1>2. d(1) \in Byte /\ d(2) \in Byte /\ d(3) \in Byte /\ d(4) \in Byte
  <2>1. (v % 256) \in Byte
    BY DivMod, SMT
  <2> QED BY <1>1, <2>1, Digits, SMT
<1>3. to_be_bytes(v, 4) = [i \in 1..4 |-> d(i)]
  BY SMT DEF to_be_bytes
<1> HIDE DEF d
<1>4. d(4) + d(3) * 256 + d(2) * 65536 + d(1) * 16777216 = v
  BY <1>1, Digits, SMT
<1>5. \A i \in 1..4 : d(i) \in Byte
  BY <1>2, SMT
<1>6. [i \in 1..4 |-> d(i)] \in Seq(Byte)
  BY <1>5, IsASeq, SMT
<1>7. Len([i \in 1..4 |-> d(i)]) = 4
  BY SMT
<1>8. /\ to_be_bytes(v, 4)[1] = d(1) /\ to_be_bytes(v, 4)[2] = d(2)
      /\ to_be_bytes(v, 4)[3] = d(3) /\ to_be_bytes(v, 4)[4] = d(4)
  BY <1>3, SMT
<1>9. to_be_bytes(v, 4)[4] + to_be_bytes(v, 4)[3] * 256 + to_be_bytes(v, 4)[2] * 65536
        + to_be_bytes(v, 4)[1] * 16777216 = v
  BY <1>4, <1>8, SMT
<1> DEFINE s == [i \in 1..4 |-> d(i)]
<1>10. to_be_bytes(v, 4) = s /\ s \in Seq(Byte) /\ Len(s) = 4
  BY <1>3, <1>6, <1>7, SMT
<1> HIDE DEF s
<1>11. to_be_bytes(v, 4) \in Seq(Byte) /\ Len(to_be_bytes(v, 4)) = 4
  BY <1>10, SMT
<1> QED BY <1>9, <1>11, SMT

\* from_be_bytes reads a number from four bytes.
LEMMA FourBytes ==
  ASSUME NEW bytes \in Seq(Byte), 4 <= Len(bytes)
  PROVE  /\ from_be_bytes(bytes, 0, 4)
              = bytes[4] + bytes[3] * 256 + bytes[2] * 65536 + bytes[1] * 16777216
         /\ from_be_bytes(bytes, 0, 4) \in Nat
<1>1. bytes[1] \in Nat /\ bytes[2] \in Nat /\ bytes[3] \in Nat /\ bytes[4] \in Nat
  BY ByteDef, SMTT(30)
<1> DEFINE part(i) == IF i <= 4 THEN bytes[0 + 4 - i + 1] * Weight[i] ELSE 0
<1>2. part(1) = bytes[4] /\ part(2) = bytes[3] * 256
  BY <1>1, Weights, SMT
<1>3. part(3) = bytes[2] * 65536 /\ part(4) = bytes[1] * 16777216
  BY <1>1, Weights, SMT
<1>4. from_be_bytes(bytes, 0, 4) = part(1) + part(2) + part(3) + part(4)
  BY SMT DEF from_be_bytes
<1> HIDE DEF part
<1>5. from_be_bytes(bytes, 0, 4)
        = bytes[4] + bytes[3] * 256 + bytes[2] * 65536 + bytes[1] * 16777216
  BY <1>2, <1>3, <1>4, SMT
<1>6. bytes[4] + bytes[3] * 256 + bytes[2] * 65536 + bytes[1] * 16777216 \in Nat
  <2> DEFINE w == bytes[4]
             x == bytes[3]
             y == bytes[2]
             z == bytes[1]
  <2>1. w \in Nat /\ x \in Nat /\ y \in Nat /\ z \in Nat
    BY <1>1, SMT
  <2> HIDE DEF w, x, y, z
  <2>2. w + x * 256 + y * 65536 + z * 16777216 \in Nat
    BY <2>1, SMT
  <2> QED BY <2>2, SMT DEF w, x, y, z
<1> QED BY <1>5, <1>6, SMT

\* The length of a TLS record is a number.
LEMMA RecordLen ==
  ASSUME NEW bytes \in Seq(Byte), 5 <= Len(bytes)
  PROVE  from_be_bytes(bytes, 3, 2) \in Nat
<1>1. bytes[4] \in Nat /\ bytes[5] \in Nat
  BY ByteDef, SMT
<1> DEFINE part(i) == IF i <= 2 THEN bytes[3 + 2 - i + 1] * Weight[i] ELSE 0
<1>2. part(1) = bytes[5] /\ part(2) = bytes[4] * 256 /\ part(3) = 0 /\ part(4) = 0
  BY <1>1, Weights, SMT
<1>4. from_be_bytes(bytes, 3, 2) = part(1) + part(2) + part(3) + part(4)
  BY SMT DEF from_be_bytes
<1> HIDE DEF part
<1> QED BY <1>1, <1>2, <1>4, SMTT(30)

\* The part of FramingAssumption that has no large number in it.
LEMMA Limits ==
  /\ MAX_FRAME_SIZE \in Nat /\ MAX_RECORD_SIZE \in Nat
  /\ Payloads \subseteq Seq(Byte) /\ Tails \subseteq Seq(Byte)
  BY FramingAssumption, SMT

\* encode puts four bytes before the payload, and the length they are read as is
\* the payload's.
LEMMA FrameIs ==
  ASSUME NEW payload \in Seq(Byte), Len(payload) <= MAX_FRAME_SIZE
  PROVE  /\ FrameBytes(payload) \in Seq(Byte)
         /\ Len(FrameBytes(payload)) = 4 + Len(payload)
         /\ Piece(payload, FrameBytes(payload), 4, 4 + Len(payload))
         /\ from_be_bytes(FrameBytes(payload), 0, 4) = Len(payload)
<1> DEFINE prefix == to_be_bytes(Len(payload), 4)
           frame  == prefix \o payload
<1>1. Len(payload) \in Nat /\ Len(payload) <= 2147483647
  BY FramingAssumption, SMT
<1>2. prefix \in Seq(Byte) /\ Len(prefix) = 4
  BY <1>1, ToBytes, SMT
<1>3. prefix[4] + prefix[3] * 256 + prefix[2] * 65536 + prefix[1] * 16777216 = Len(payload)
  BY <1>1, ToBytes, SMT
<1>4. FrameBytes(payload) = frame
  BY SMT DEF FrameBytes, LEN_PREFIX_SIZE
<1> HIDE DEF prefix
<1>5. /\ frame \in Seq(Byte) /\ Len(frame) = Len(prefix) + Len(payload)
      /\ Piece(prefix, frame, 0, Len(prefix))
      /\ Piece(payload, frame, Len(prefix), Len(prefix) + Len(payload))
  BY <1>2, PieceAdded, Zenon
<1> HIDE DEF frame
<1>6. /\ frame \in Seq(Byte) /\ Len(frame) = 4 + Len(payload)
      /\ Piece(prefix, frame, 0, 4) /\ Piece(payload, frame, 4, 4 + Len(payload))
  BY <1>2, <1>5, Zenon
<1>7. \A i \in 1..4 : prefix[i] = frame[i]
  BY <1>6, StartIs, SMT
<1>8. prefix[1] = frame[1] /\ prefix[2] = frame[2] /\ prefix[3] = frame[3] /\ prefix[4] = frame[4]
  BY <1>7, SMT
<1>9. 4 <= Len(frame)
  BY <1>1, <1>6, SMT
<1>10. from_be_bytes(frame, 0, 4)
          = frame[4] + frame[3] * 256 + frame[2] * 65536 + frame[1] * 16777216
  BY <1>6, <1>9, FourBytes, SMTT(30)
<1>11. from_be_bytes(frame, 0, 4) = Len(payload)
  BY <1>3, <1>8, <1>10, SMT
<1> QED BY <1>4, <1>6, <1>11, Zenon

\* Five bytes before a record, four before a frame.
LEMMA Headers == header_size = (IF Tls THEN 5 ELSE 4)
  BY DEF header_size, LEN_PREFIX_SIZE

\* The length that a header tells is a number.
LEMMA LenIsNat ==
  ASSUME NEW bytes \in Seq(Byte), HasLen(bytes)
  PROVE  frame_len(bytes) \in Nat
<1>1. CASE Tls
  <2>1. 5 <= Len(bytes)
    BY <1>1, Headers DEF HasLen
  <2> QED BY <1>1, <2>1, RecordLen DEF frame_len
<1>2. CASE ~Tls
  <2>1. 4 <= Len(bytes)
    BY <1>2, Headers DEF HasLen
  <2>2. from_be_bytes(bytes, 0, 4) \in Nat
    BY <2>1, FourBytes, SMT
  <2> QED BY <1>2, <2>2 DEF frame_len, LEN_PREFIX_SIZE
<1> QED BY <1>1, <1>2

\* Bytes that start alike say the same of their frame.
LEMMA SameHead ==
  ASSUME NEW s \in Seq(Byte), NEW t \in Seq(Byte), HasLen(s), HasLen(t),
         \A i \in 1..header_size : s[i] = t[i]
  PROVE  frame_len(s) = frame_len(t) /\ s[1] = t[1]
<1>1. CASE Tls
  <2>1. s[1] = t[1] /\ s[4] = t[4] /\ s[5] = t[5]
    BY SMTT(30), <1>1, Headers
  <2>2. from_be_bytes(s, 3, 2) = from_be_bytes(t, 3, 2)
    BY SMTT(30), <2>1 DEF from_be_bytes
  <2> QED BY <1>1, <2>1, <2>2 DEF frame_len
<1>2. CASE ~Tls
  <2>1. s[1] = t[1] /\ s[2] = t[2] /\ s[3] = t[3] /\ s[4] = t[4]
    BY SMTT(30), <1>2, Headers
  <2>2. from_be_bytes(s, 0, 4) = from_be_bytes(t, 0, 4)
    BY SMTT(30), <2>1 DEF from_be_bytes
  <2> QED BY <1>2, <2>1, <2>2 DEF frame_len, LEN_PREFIX_SIZE
<1> QED BY <1>1, <1>2

\* Two pieces of the stream that start at one place say the same of their frame.
LEMMA StartAlike ==
  ASSUME NEW w \in Seq(Byte), NEW s, NEW t, NEW a, NEW b, NEW c,
         Piece(s, w, a, b), Piece(t, w, a, c), HasLen(s), HasLen(t)
  PROVE  frame_len(s) = frame_len(t) /\ s[1] = t[1]
<1>1. /\ s \in Seq(Byte) /\ a \in Nat /\ b \in Nat /\ Len(s) = b - a
      /\ \A i \in 1..(b - a) : s[i] = w[a + i]
  BY PieceIs, SMT
<1>2. /\ t \in Seq(Byte) /\ c \in Nat /\ Len(t) = c - a
      /\ \A i \in 1..(c - a) : t[i] = w[a + i]
  BY PieceIs, SMT
<1>3. header_size \in Nat /\ header_size <= b - a /\ header_size <= c - a
  BY <1>1, <1>2, Headers DEF HasLen
<1>4. \A i \in 1..header_size : s[i] = t[i]
  BY SMTT(30), <1>1, <1>2, <1>3
<1> QED BY <1>1, <1>2, <1>4, SameHead, Zenon

-----------------------------------------------------------------------------
(* The types. *)

\* The types of the variables that both kinds of reader have.
WireTypes ==
    /\ reader \in Readers \cup {"read_client_hello"}
    /\ frames \in Seq(Seq(Byte)) /\ tail \in Seq(Byte) /\ wire \in Seq(Byte)
    /\ finished \in BOOLEAN
    /\ pos \in Nat /\ pos <= Len(wire)
    /\ buf \in Seq(Byte) /\ items \in Seq(Seq(Byte))
    /\ status \in {"read", "decode", "done", "failed", "parsed"}

\* The same for the bytes that the reader holds.
LEMMA HeldLen ==
  ASSUME WireTypes, HasLen(buf)
  PROVE  /\ header_size \in Nat /\ frame_len(buf) \in Nat
         /\ Len(buf) \in Nat /\ header_size <= Len(buf)
<1>1. buf \in Seq(Byte)
  BY DEF WireTypes
<1> QED BY <1>1, LenIsNat, LenProperties, Headers DEF HasLen

\* What decode cuts out of a whole frame or record.
LEMMA DecodeCuts ==
  ASSUME WireTypes, Whole(buf), NEW n, n = header_size + frame_len(buf)
  PROVE  /\ n \in Nat /\ n <= Len(buf) /\ header_size \in Nat /\ header_size <= n
         /\ Piece(SubSeq(buf, header_size + 1, n), buf, header_size, n)
         /\ Piece(SubSeq(buf, 1, n), buf, 0, n)
         /\ Piece(SubSeq(buf, n + 1, Len(buf)), buf, n, Len(buf))
<1>1. HasLen(buf) /\ n <= Len(buf)
  BY DEF Whole
<1>2. /\ n \in Nat /\ header_size \in Nat /\ header_size <= n
      /\ Len(buf) \in Nat /\ Len(buf) <= Len(buf)
  BY SMTT(30), <1>1, HeldLen
<1> QED BY <1>1, <1>2, CutOut, CutStart, Zenon

\* Every step of the writer, of a reader and of PrefixedStream keeps the types.
LEMMA WireStep == WireTypes /\ [NextAll]_allVars => WireTypes'
<1> SUFFICES ASSUME WireTypes, [NextAll]_allVars PROVE WireTypes'
  OBVIOUS
<1>1. ASSUME NEW payload \in Payloads, encode(payload) PROVE WireTypes'
  <2>1. payload \in Seq(Byte)
    BY Limits
  <2>2. FrameBytes(payload) \in Seq(Byte)
    BY <1>1, <2>1, FrameIs DEF encode, Encodes
  <2>3. /\ wire \o FrameBytes(payload) \in Seq(Byte)
        /\ Len(wire \o FrameBytes(payload)) = Len(wire) + Len(FrameBytes(payload))
    BY <2>2, PieceAdded, Zenon DEF WireTypes
  <2>4. Len(wire) \in Nat /\ Len(FrameBytes(payload)) \in Nat
    BY <2>2, LenProperties DEF WireTypes
  <2>5. pos <= Len(wire \o FrameBytes(payload))
    BY SMTT(30), <2>3, <2>4 DEF WireTypes
  <2>6. Append(frames, payload) \in Seq(Seq(Byte))
    BY <2>1, AppendProperties, Zenon DEF WireTypes
  <2> QED BY <1>1, <2>3, <2>5, <2>6, Zenon DEF encode, WireTypes
<1>2. ASSUME NEW bytes \in Tails, Finish(bytes) PROVE WireTypes'
  <2>1. bytes \in Seq(Byte)
    BY Limits
  <2>2. wire \o bytes \in Seq(Byte) /\ Len(wire \o bytes) = Len(wire) + Len(bytes)
    BY <2>1, PieceAdded, Zenon DEF WireTypes
  <2>3. Len(wire) \in Nat /\ Len(bytes) \in Nat
    BY <2>1, LenProperties DEF WireTypes
  <2>4. pos <= Len(wire \o bytes)
    BY SMTT(30), <2>2, <2>3 DEF WireTypes
  <2> QED BY <1>2, <2>1, <2>2, <2>4, Zenon DEF Finish, WireTypes
<1>3. ASSUME NEW n \in 1..Len(wire), Read(n) PROVE WireTypes'
  <2>1. n \in Nat /\ pos \in Nat /\ pos + n \in Nat /\ pos <= pos + n /\ pos + n <= Len(wire)
    BY SMTT(30), <1>3, LenProperties DEF Read, WireTypes
  <2> DEFINE more == SubSeq(wire, pos + 1, pos + n)
  <2>2. Piece(more, wire, pos, pos + n)
    BY <2>1, CutOut, Zenon
  <2> HIDE DEF more
  <2>3. more \in Seq(Byte)
    BY <2>2, PieceIs, SMT DEF WireTypes
  <2>4. buf \o more \in Seq(Byte)
    BY <2>3, PieceAdded, Zenon DEF WireTypes
  <2> QED BY <1>3, <2>1, <2>4, Zenon DEF Read, WireTypes, more, written
<1>4. CASE StreamEnds
  BY <1>4 DEF StreamEnds, WireTypes, written
<1>5. CASE decode
  <2> DEFINE n == header_size + frame_len(buf)
             payload == SubSeq(buf, IF Tls THEN 1 ELSE header_size + 1, n)
             rest == SubSeq(buf, n + 1, Len(buf))
  <2>1. ASSUME Whole(buf) PROVE payload \in Seq(Byte) /\ rest \in Seq(Byte)
    <3>1. /\ Piece(SubSeq(buf, header_size + 1, n), buf, header_size, n)
          /\ Piece(SubSeq(buf, 1, n), buf, 0, n) /\ Piece(rest, buf, n, Len(buf))
      BY <2>1, DecodeCuts, Zenon
    <3>2. buf \in Seq(Byte)
      BY DEF WireTypes
    <3>3. SubSeq(buf, header_size + 1, n) \in Seq(Byte)
      BY <3>1, <3>2, PieceIs, Zenon
    <3>4. SubSeq(buf, 1, n) \in Seq(Byte)
      BY <3>1, <3>2, PieceIs, Zenon
    <3>5. rest \in Seq(Byte)
      BY <3>1, <3>2, PieceIs, Zenon
    <3> QED BY <3>3, <3>4, <3>5, Zenon
  <2>2. Whole(buf) => Append(items, payload) \in Seq(Seq(Byte))
    BY <2>1, AppendProperties, Zenon DEF WireTypes
  <2>3. /\ UNCHANGED <<frames, tail, wire, finished, reader, pos>>
        /\ status' \in {"read", "decode", "done", "failed"}
        /\ buf' = buf \/ (Whole(buf) /\ buf' = rest)
        /\ items' = items \/ (Whole(buf) /\ items' = Append(items, payload))
    BY <1>5, Zenon DEF decode, Ready, written
  <2> HIDE DEF n, payload, rest
  <2> QED BY <2>1, <2>2, <2>3, Zenon DEF WireTypes
<1>6. CASE Parse
  BY <1>6 DEF Parse, WireTypes, written
<1>7. ASSUME NEW n \in 1..Len(wire), poll_read(n) PROVE WireTypes'
  <2>1. pos' \in Nat /\ pos' <= Len(wire)
    BY <1>7, LenProperties, SMTT(30) DEF poll_read, FromPrefix, FromInner, WireTypes
  <2> QED BY <1>7, <2>1 DEF poll_read, WireTypes, written
<1>8. CASE UNCHANGED allVars
  BY <1>8 DEF allVars, frameVars, written, WireTypes
<1> QED BY <1>1, <1>2, <1>3, <1>4, <1>5, <1>6, <1>7, <1>8 DEF NextAll, NextFrames

-----------------------------------------------------------------------------
(* Reads. *)

\* The reader stays the same, so what the next state says of a sequence of bytes is
\* what this one does.
LEMMA SameReader ==
  ASSUME reader' = reader
  PROVE  /\ (~Tls)' = ~Tls
         /\ \A bytes : bytes = buf' =>
               /\ HasLen(bytes) <=> HasLen(buf)'
               /\ frame_len(bytes) = frame_len(buf)'
               /\ Whole(bytes) <=> Whole(buf)'
               /\ Refused(bytes) <=> Refused(buf)'
         /\ \A bytes : bytes = tail' =>
               /\ Whole(bytes) <=> Whole(tail)'
               /\ Refused(bytes) <=> Refused(tail)'
  BY DEF HasLen, frame_len, Whole, Refused, Tls, header_size

\* A read puts the next bytes of the stream behind those that are held; an exact
\* read never goes past the frame.
LEMMA ReadAdds ==
  ASSUME WireTypes, NEW n \in 1..Len(wire), Read(n), NEW a, Piece(buf, wire, a, pos)
  PROVE  /\ Piece(buf', wire', a, pos')
         /\ (Asks(n) /\ HasLen(buf)') => Len(buf') <= header_size' + frame_len(buf)'
<1>1. wire' = wire /\ reader' = reader /\ pos' = pos + n
  BY DEF Read, written
<1>2. /\ pos \in Nat /\ n \in Nat /\ pos + n \in Nat /\ pos <= pos + n /\ pos + n <= Len(wire)
      /\ wire \in Seq(Byte) /\ buf \in Seq(Byte) /\ Len(buf) \in Nat
  BY SMTT(30), LenProperties DEF Read, WireTypes
<1> DEFINE more == SubSeq(wire, pos + 1, pos + n)
           new  == buf \o more
<1>3. Piece(more, wire, pos, pos + n) /\ buf' = new
  BY <1>2, CutOut, Zenon DEF Read
<1> HIDE DEF more
<1>4. more \in Seq(Byte) /\ Len(more) = (pos + n) - pos
  BY <1>2, <1>3, PieceIs, SMT
<1>5. Piece(new, wire, a, pos + n)
  BY <1>2, <1>3, PiecesJoin, Zenon
<1>6. Len(new) = Len(buf) + Len(more)
  BY <1>2, <1>4, PieceAdded, Zenon
<1> HIDE DEF new
<1>7. Len(new) = Len(buf) + n
  BY SMTT(30), <1>2, <1>4, <1>6
<1>8. ASSUME Asks(n), HasLen(new)
      PROVE  Len(new) <= header_size + frame_len(new)
  <2>1. n <= Missing
    BY <1>8 DEF Asks
  <2>2. new \in Seq(Byte)
    BY <1>2, <1>5, PieceIs, Zenon
  <2>3. frame_len(new) \in Nat
    BY <1>8, <2>2, LenIsNat, Zenon
  <2>4. CASE HasLen(buf)
    <3>1. frame_len(buf) = frame_len(new)
      BY <1>2, <1>5, <1>8, <2>4, StartAlike, Zenon
    <3> QED BY <1>2, <1>7, <2>1, <2>3, <2>4, <3>1, Headers, SMTT(30) DEF Missing
  <2>5. CASE ~HasLen(buf)
    BY SMTT(30), <1>2, <1>7, <2>1, <2>3, <2>5, Headers DEF Missing
  <2> QED BY <2>4, <2>5
<1>9. /\ (HasLen(buf)' <=> HasLen(new)) /\ frame_len(buf)' = frame_len(new)
      /\ header_size' = header_size
  BY <1>1, <1>3, SameReader DEF header_size, Tls
<1>10. Piece(buf', wire', a, pos')
  BY <1>1, <1>3, <1>5, Zenon
<1> QED BY <1>3, <1>8, <1>9, <1>10, Zenon
=============================================================================
