-------------------------- MODULE ClientHelloProofs --------------------------
(***************************************************************************)
(* The ClientHello of a public connection, for every ClientHello and       *)
(* however its bytes are cut into reads: parse_sni finds the first host    *)
(* name in it, and PrefixedStream gives all its bytes to the reader behind *)
(* it.                                                                     *)
(***************************************************************************)
EXTENDS StreamProofs, WellFoundedInduction

\* A leaf is for Zenon unless it names another backend.
USE Zenon
-----------------------------------------------------------------------------
(* What a TLS client sends. *)

\* A piece of the whole that lies in its start is a piece of the start.
LEMMA PieceOfStart ==
  ASSUME NEW S, NEW w \in Seq(S), NEW s, NEW n, Piece(s, w, 0, n),
         NEW t, NEW a, NEW b, Piece(t, w, a, b), b <= n
  PROVE  Piece(t, s, a, b)
<1>1. a \in Nat /\ b \in Nat /\ a <= b
  BY DEF Piece
<1>2. s \in Seq(S) /\ n \in Nat /\ Len(s) = n
  <2>1. PICK o : o = 0
    OBVIOUS
  <2>2. Piece(s, w, o, n)
    BY <2>1, Zenon
  <2>3. s \in Seq(S) /\ n \in Nat /\ Len(s) = n - o
    BY <2>2, PieceIs, SMT
  <2> QED BY SMTT(30), <2>1, <2>3
<1> DEFINE u == SubSeq(s, a + 1, b)
<1>3. Piece(u, s, a, b)
  BY <1>1, <1>2, CutOut, Zenon
<1> HIDE DEF u
<1>4. Piece(u, w, 0 + a, 0 + b) /\ 0 + a = a /\ 0 + b = b
  BY SMTT(30), <1>1, <1>3, PieceOfPiece
<1>5. u = t
  BY <1>4, OnePiece, Zenon
<1> QED BY <1>3, <1>5, Zenon

\* A number as up to four bytes.
LEMMA Encoded ==
  ASSUME NEW v \in Nat, NEW n \in 1..4
  PROVE  to_be_bytes(v, n) \in Seq(Byte) /\ Len(to_be_bytes(v, n)) = n
<1> DEFINE d(i) == (v \div Weight[n - i + 1]) % 256
<1>1. \A i \in 1..4 : Weight[i] \in Nat \ {0}
  BY Weights, SMT
<1>2. \A w \in Nat \ {0} : v \div w \in Nat
  BY SMT
<1>3. \A i \in 1..n : d(i) \in Byte
  <2> TAKE i \in 1..n
  <2>1. n - i + 1 \in 1..4
    BY SMT
  <2>2. v \div Weight[n - i + 1] \in Nat
    BY <1>1, <1>2, <2>1, Zenon
  <2> QED BY <2>2, DivMod, ZenonT(60)
<1>4. to_be_bytes(v, n) = [i \in 1..n |-> d(i)]
  BY SMT DEF to_be_bytes
<1> HIDE DEF d
<1> DEFINE s == [i \in 1..n |-> d(i)]
<1>5. s \in Seq(Byte)
  BY <1>3, IsASeq, SMT
<1>6. Len(s) = n
  BY SMT
<1> HIDE DEF s
<1> QED BY <1>4, <1>5, <1>6, Zenon DEF s

\* One byte and two bytes hold the number.
LEMMA Small == \A v \in 0..255 : v % 256 = v
  BY SMT

LEMMA EncodedOne ==
  ASSUME NEW v \in Nat, v < 256
  PROVE  to_be_bytes(v, 1)[1] = v
<1>1. v \div 1 = v
  BY SMT
<1>2. v % 256 = v
  <2>1. v \in 0..255
    BY SMT
  <2> QED BY <2>1, Small, SMT
<1>3. 1 - 1 + 1 = 1 /\ 1 \in 1..1
  BY SMT
<1>4. to_be_bytes(v, 1)[1] = (v \div Weight[1 - 1 + 1]) % 256
  BY <1>3, SMT DEF to_be_bytes
<1> QED BY <1>1, <1>2, <1>3, <1>4, Weights, SMT

LEMMA EncodedTwo ==
  ASSUME NEW v \in Nat, v < 65536
  PROVE  to_be_bytes(v, 2)[2] + to_be_bytes(v, 2)[1] * 256 = v
<1>1. 2 - 2 + 1 = 1 /\ 2 - 1 + 1 = 2 /\ 1 \in 1..2 /\ 2 \in 1..2
  BY SMT
<1>2. /\ to_be_bytes(v, 2)[2] = (v \div Weight[2 - 2 + 1]) % 256
      /\ to_be_bytes(v, 2)[1] = (v \div Weight[2 - 1 + 1]) % 256
  BY <1>1, SMT DEF to_be_bytes
<1>3. v \div 1 = v
  BY SMT
<1>4. /\ v = 256 * (v \div 256) + (v % 256) /\ v \div 256 \in Nat
      /\ (v % 256) \in Nat /\ (v % 256) < 256
  BY DivMod, ByteDef, SMT
<1> DEFINE a == v \div 256
           b == v % 256
<1>5. /\ v = 256 * a + b /\ a \in Nat /\ b \in Nat
      /\ to_be_bytes(v, 2)[2] = b /\ to_be_bytes(v, 2)[1] = a % 256
  BY <1>1, <1>2, <1>3, <1>4, Weights, SMT
<1> HIDE DEF a, b
<1>6. a \in 0..255 /\ b + a * 256 = v
  BY <1>5, SMT
<1> QED BY <1>5, <1>6, Small, SMT

\* read_u8 and read_u16.
LEMMA ReadOne ==
  ASSUME NEW w \in Seq(Byte), NEW p \in Nat, p + 1 <= Len(w)
  PROVE  from_be_bytes(w, p, 1) = w[p + 1] /\ from_be_bytes(w, p, 1) \in Nat
<1>1. w[p + 1] \in Byte
  <2>1. p + 1 \in 1..Len(w)
    BY LenProperties, SMT
  <2> QED BY <2>1, ElementOfSeq, Zenon
<1>2. w[p + 1] \in Nat
  BY <1>1, ByteDef, Zenon
<1>3. p + 1 - 1 + 1 = p + 1
  BY SMT
<1> QED BY <1>2, <1>3, Weights, SMT DEF from_be_bytes

LEMMA ReadTwo ==
  ASSUME NEW w \in Seq(Byte), NEW p \in Nat, p + 2 <= Len(w)
  PROVE  /\ from_be_bytes(w, p, 2) = w[p + 2] + w[p + 1] * 256
         /\ from_be_bytes(w, p, 2) \in Nat
<1>1. w[p + 1] \in Byte /\ w[p + 2] \in Byte
  <2>1. p + 1 \in 1..Len(w) /\ p + 2 \in 1..Len(w)
    BY LenProperties, SMT
  <2> QED BY <2>1, ElementOfSeq, Zenon
<1>2. w[p + 1] \in Nat /\ w[p + 2] \in Nat
  BY <1>1, ByteDef, Zenon
<1>3. p + 2 - 1 + 1 = p + 2 /\ p + 2 - 2 + 1 = p + 1
  BY SMT
<1>4. from_be_bytes(w, p, 2) = w[p + 2] * 1 + w[p + 1] * 256 + 0 + 0
  BY <1>3, Weights, SMT DEF from_be_bytes
<1> DEFINE x == w[p + 1]
           y == w[p + 2]
<1>5. x \in Nat /\ y \in Nat /\ from_be_bytes(w, p, 2) = y * 1 + x * 256 + 0 + 0
  BY <1>2, <1>4, Zenon
<1> HIDE DEF x, y
<1>6. y * 1 + x * 256 + 0 + 0 = y + x * 256 /\ y + x * 256 \in Nat
  BY <1>5, SMT
<1> QED BY <1>5, <1>6, Zenon DEF x, y

\* A vector of bytes that stands in w: the number before it is its length.
LEMMA VectorAt ==
  ASSUME NEW w \in Seq(Byte), NEW n \in {1, 2}, NEW b, Fits(n, b),
         NEW a, NEW c, Piece(Vector(n, b), w, a, c)
  PROVE  /\ b \in Seq(Byte) /\ Len(b) \in Nat /\ a \in Nat /\ c \in Nat /\ c = a + n + Len(b)
         /\ a + n <= Len(w) /\ c <= Len(w) /\ from_be_bytes(w, a, n) = Len(b)
         /\ Piece(b, w, a + n, c)
<1> DEFINE l == to_be_bytes(Len(b), n)
<1>1. b \in Seq(Byte) /\ Len(b) \in Nat /\ Len(b) < Weight[n + 1] /\ n \in 1..4
  BY SMTT(30), LenProperties DEF Fits
<1>2. l \in Seq(Byte) /\ Len(l) = n
  BY <1>1, Encoded, Zenon
<1>3. Piece(l \o b, w, a, c)
  BY Zenon DEF Vector
<1>4. Len(b) < (IF n = 1 THEN 256 ELSE 65536)
  BY <1>1, Weights, SMT
<1>5. IF n = 1 THEN l[1] = Len(b) ELSE l[2] + l[1] * 256 = Len(b)
  BY <1>1, <1>4, EncodedOne, EncodedTwo, SMT
<1> HIDE DEF l
<1>6. /\ l \o b \in Seq(Byte) /\ Len(l \o b) = Len(l) + Len(b)
      /\ Piece(l, l \o b, 0, Len(l)) /\ Piece(b, l \o b, Len(l), Len(l) + Len(b))
  BY <1>1, <1>2, PieceAdded, Zenon
<1> DEFINE u == l \o b
<1> HIDE DEF u
<1>7. /\ a \in Nat /\ c \in Nat /\ c <= Len(w) /\ Len(w) \in Nat
      /\ Len(u) = c - a
  <2>1. Piece(u, w, a, c)
    BY <1>3, Zenon DEF u
  <2> QED BY <2>1, PieceIs, SMT
<1>8. c = a + n + Len(b) /\ a + n <= Len(w)
  BY SMTT(30), <1>1, <1>2, <1>6, <1>7 DEF u
<1>9. Piece(l, w, a + 0, a + n) /\ Piece(b, w, a + n, a + (n + Len(b)))
  BY <1>2, <1>3, <1>6, PieceOfPiece, Zenon
<1>10. a + 0 = a /\ a + (n + Len(b)) = c
  BY SMTT(30), <1>1, <1>7, <1>8
<1>11. Piece(l, w, a, a + n) /\ Piece(b, w, a + n, c)
  BY <1>9, <1>10, Zenon
<1>12. \A i \in 1..((a + n) - a) : l[i] = w[a + i]
  <2> DEFINE d == a + n
  <2>1. Piece(l, w, a, d)
    BY <1>11, Zenon
  <2> HIDE DEF d
  <2>2. \A i \in 1..(d - a) : l[i] = w[a + i]
    BY <2>1, PieceIs, SMT
  <2> QED BY <2>2, Zenon DEF d
<1>13. (a + n) - a = n /\ 1 \in 1..n /\ (n = 2 => 2 \in 1..n)
  BY SMTT(30), <1>7
<1>14. l[1] = w[a + 1] /\ (n = 2 => l[2] = w[a + 2])
  BY <1>12, <1>13, Zenon
<1>15. from_be_bytes(w, a, n) = Len(b)
  <2>1. CASE n = 1
    BY <1>5, <1>7, <1>8, <1>14, <2>1, ReadOne
  <2>2. CASE n = 2
    BY SMTT(30), <1>5, <1>7, <1>8, <1>14, <2>2, ReadTwo
  <2> QED BY <2>1, <2>2
<1> QED BY <1>1, <1>7, <1>8, <1>11, <1>15

\* The bytes of a vector follow its length.
LEMMA VectorIs ==
  ASSUME NEW n \in 1..4, NEW b \in Seq(Byte)
  PROVE  /\ Vector(n, b) \in Seq(Byte) /\ Len(Vector(n, b)) = n + Len(b)
         /\ Piece(b, Vector(n, b), n, n + Len(b))
<1>1. Len(b) \in Nat
  BY LenProperties
<1> DEFINE l == to_be_bytes(Len(b), n)
<1>2. l \in Seq(Byte) /\ Len(l) = n
  BY <1>1, Encoded, Zenon
<1> HIDE DEF l
<1>3. /\ l \o b \in Seq(Byte) /\ Len(l \o b) = Len(l) + Len(b)
      /\ Piece(b, l \o b, Len(l), Len(l) + Len(b))
  BY <1>2, PieceAdded, Zenon
<1> QED BY <1>2, <1>3, Zenon DEF Vector, l

\* What a ClientHello's message consists of: the places of the vectors that the parser
\* skips over, the last one with the extensions.
Vectors(h, k1, k2, k3) ==
    /\ Piece(Vector(1, h.session_id), Message(h), 6 + RandomSize, k1)
    /\ Piece(Vector(2, h.cipher_suites), Message(h), k1, k2)
    /\ Piece(Vector(1, h.compression), Message(h), k2, k3)
    /\ Piece(Vector(2, h.data), Message(h), k3, Len(Message(h)))

LEMMA MessageIs ==
  ASSUME NEW h, IsHello(h)
  PROVE  /\ Message(h) \in Seq(Byte) /\ 4 <= Len(Message(h)) /\ Message(h)[1] = 1
         /\ \E k1, k2, k3 : Vectors(h, k1, k2, k3)
<1> DEFINE v0 == h.random
           v1 == Vector(1, h.session_id)
           v2 == Vector(2, h.cipher_suites)
           v3 == Vector(1, h.compression)
           v4 == Vector(2, h.data)
           body == v0 \o v1 \o v2 \o v3 \o v4
           sized == Vector(3, body)
           m == <<1>> \o sized
<1>1. /\ v0 \in Seq(Byte) /\ Len(v0) = 2 + RandomSize /\ RandomSize \in Nat
      /\ h.session_id \in Seq(Byte) /\ h.cipher_suites \in Seq(Byte)
      /\ h.compression \in Seq(Byte) /\ h.data \in Seq(Byte)
  BY HelloAssumption DEF IsHello, Fits
<1>2. 1 \in 1..4 /\ 2 \in 1..4 /\ 3 \in 1..4
  BY SMTT(30)
<1>3. v1 \in Seq(Byte) /\ v2 \in Seq(Byte) /\ v3 \in Seq(Byte) /\ v4 \in Seq(Byte)
  BY <1>1, <1>2, VectorIs, Zenon
<1>4. Message(h) = m
  BY Zenon DEF Message
<1> HIDE DEF v0, v1, v2, v3, v4
<1> DEFINE b1 == v0 \o v1
           b2 == b1 \o v2
           b3 == b2 \o v3
           b4 == b3 \o v4
<1>5. body = b4
  OBVIOUS
<1> HIDE DEF body
<1>6. /\ b1 \in Seq(Byte) /\ Len(b1) = Len(v0) + Len(v1)
      /\ Piece(v1, b1, Len(v0), Len(v0) + Len(v1))
  BY <1>1, <1>3, PieceAdded, Zenon
<1> HIDE DEF b1
<1>7. /\ b2 \in Seq(Byte) /\ Len(b2) = Len(b1) + Len(v2)
      /\ Piece(v2, b2, Len(b1), Len(b1) + Len(v2))
      /\ Piece(v1, b2, Len(v0), Len(b1))
  BY <1>3, <1>6, PieceAdded, PieceKept, Zenon
<1> HIDE DEF b2
<1>8. /\ b3 \in Seq(Byte) /\ Len(b3) = Len(b2) + Len(v3)
      /\ Piece(v3, b3, Len(b2), Len(b2) + Len(v3))
      /\ Piece(v2, b3, Len(b1), Len(b2)) /\ Piece(v1, b3, Len(v0), Len(b1))
  BY <1>3, <1>7, PieceAdded, PieceKept, Zenon
<1> HIDE DEF b3
<1>9. /\ b4 \in Seq(Byte) /\ Len(b4) = Len(b3) + Len(v4)
      /\ Piece(v4, b4, Len(b3), Len(b3) + Len(v4)) /\ Piece(v3, b4, Len(b2), Len(b3))
      /\ Piece(v2, b4, Len(b1), Len(b2)) /\ Piece(v1, b4, Len(v0), Len(b1))
  BY <1>3, <1>8, PieceAdded, PieceKept, Zenon
<1> HIDE DEF b4
<1>10. /\ sized \in Seq(Byte) /\ Len(sized) = 3 + Len(body) /\ body \in Seq(Byte)
       /\ Piece(body, sized, 3, 3 + Len(body))
  BY <1>2, <1>5, <1>9, VectorIs, Zenon
<1> HIDE DEF sized
<1>11. <<1>> \in Seq(Byte) /\ Len(<<1>>) = 1 /\ <<1>>[1] = 1
  BY SMTT(30), ByteDef
<1> DEFINE one == <<1>>
<1> HIDE DEF one
<1>12. /\ one \o sized \in Seq(Byte) /\ Len(one \o sized) = Len(one) + Len(sized)
       /\ Piece(sized, one \o sized, Len(one), Len(one) + Len(sized))
       /\ Piece(one, one \o sized, 0, Len(one))
  BY <1>10, <1>11, PieceAdded, Zenon DEF one
<1>13. m = one \o sized /\ Len(one) = 1 /\ one[1] = 1
  BY <1>11 DEF one
<1>14. /\ m \in Seq(Byte) /\ Len(m) = 1 + Len(sized) /\ Piece(sized, m, 1, 1 + Len(sized))
       /\ Piece(one, m, 0, 1)
  BY <1>12, <1>13, Zenon
<1> HIDE DEF m
<1>15. m[1] = 1
  <2>1. 1 \in 1..1
    BY SMTT(30)
  <2>2. \A i \in 1..1 : one[i] = m[i]
    BY <1>14, StartIs, SMT
  <2> QED BY <1>13, <2>1, <2>2, Zenon
<1>16. Piece(body, m, 1 + 3, 1 + (3 + Len(body)))
  BY <1>10, <1>14, PieceOfPiece, Zenon
<1>17. /\ Len(body) \in Nat /\ 1 + 3 = 4 /\ 4 + Len(body) = Len(m) /\ 4 <= Len(m)
       /\ 1 + (3 + Len(body)) = Len(m)
  BY SMTT(30), <1>10, <1>14, LenProperties
<1>18. Piece(b4, m, 4, Len(m))
  BY <1>5, <1>16, <1>17, Zenon
<1>19. /\ Piece(v4, m, 4 + Len(b3), 4 + (Len(b3) + Len(v4)))
       /\ Piece(v3, m, 4 + Len(b2), 4 + Len(b3)) /\ Piece(v2, m, 4 + Len(b1), 4 + Len(b2))
       /\ Piece(v1, m, 4 + Len(v0), 4 + Len(b1))
  BY <1>9, <1>14, <1>18, PieceOfPiece, Zenon
<1>20. 4 + (Len(b3) + Len(v4)) = Len(m) /\ 4 + Len(v0) = 6 + RandomSize
  BY SMTT(30), <1>1, <1>5, <1>9, <1>17
<1>21. Vectors(h, 4 + Len(b1), 4 + Len(b2), 4 + Len(b3))
  BY <1>4, <1>19, <1>20, Zenon DEF Vectors, v1, v2, v3, v4
<1> QED BY <1>4, <1>14, <1>15, <1>17, <1>21, Zenon

\* From o on, r has the first bytes of m, as many as there are.
Sees(r, m, o) ==
    /\ o <= Len(r) /\ Len(r) <= o + Len(m)
    /\ \A i \in 1..Len(m) : o + i <= Len(r) => r[o + i] = m[i]

\* The parser skips over a vector, or it runs out of bytes before the vector's end.
LEMMA SkipVector ==
  ASSUME NEW r \in Seq(Byte), NEW m \in Seq(Byte), NEW o \in Nat, Sees(r, m, o),
         NEW n \in {1, 2}, NEW b, Fits(n, b), NEW a, NEW c, Piece(Vector(n, b), m, a, c)
  PROVE  \/ Skip(r, o + a, n) = o + c
         \/ Skip(r, o + a, n) = Len(r) + 1 /\ Len(r) < o + c
<1>1. /\ Len(b) \in Nat /\ a \in Nat /\ c \in Nat /\ c = a + n + Len(b)
      /\ a + n <= Len(m) /\ c <= Len(m) /\ from_be_bytes(m, a, n) = Len(b)
  BY VectorAt, SMT
<1>2. Len(r) \in Nat /\ Len(m) \in Nat
  BY LenProperties
<1>3. CASE o + a + n <= Len(r)
  <2>1. from_be_bytes(r, o + a, n) = from_be_bytes(m, a, n)
    <3>1. a + 1 \in 1..Len(m) /\ o + (a + 1) <= Len(r) /\ o + (a + 1) = (o + a) + 1
      BY SMTT(30), <1>1, <1>2, <1>3
    <3>2. r[(o + a) + 1] = m[a + 1]
      BY <3>1, SMT DEF Sees
    <3>3. CASE n = 1
      <4>1. o + a \in Nat /\ (o + a) + 1 <= Len(r) /\ a + 1 <= Len(m)
        BY SMTT(30), <1>1, <1>3, <3>3
      <4> QED BY <1>1, <3>2, <3>3, <4>1, ReadOne, SMT
    <3>4. CASE n = 2
      <4>1. /\ o + a \in Nat /\ (o + a) + 2 <= Len(r) /\ a + 2 <= Len(m)
            /\ a + 2 \in 1..Len(m) /\ o + (a + 2) <= Len(r) /\ o + (a + 2) = (o + a) + 2
        BY SMTT(30), <1>1, <1>2, <1>3, <3>4
      <4>2. r[(o + a) + 2] = m[a + 2]
        BY <4>1, SMT DEF Sees
      <4>3. from_be_bytes(m, a, 2) = m[a + 2] + m[a + 1] * 256
        BY <1>1, <4>1, ReadTwo, SMT
      <4>4. from_be_bytes(r, o + a, 2) = r[(o + a) + 2] + r[(o + a) + 1] * 256
        BY <4>1, ReadTwo, SMT
      <4> QED BY <3>2, <3>4, <4>2, <4>3, <4>4, ZenonT(60)
    <3> QED BY <3>3, <3>4
  <2>2. CanRead(r, o + a, n) /\ Skip(r, o + a, n) = o + a + n + Len(b)
    BY <1>1, <1>3, <2>1, ZenonT(30) DEF Skip, CanRead
  <2> QED BY SMTT(30), <1>1, <2>2
<1>4. CASE ~(o + a + n <= Len(r))
  <2>1. Skip(r, o + a, n) = Len(r) + 1
    BY <1>4 DEF Skip, CanRead
  <2> QED BY SMTT(30), <1>1, <1>2, <1>4, <2>1
<1> QED BY <1>3, <1>4

\* Where the bytes have run out it stays so.
LEMMA SkipNothing ==
  ASSUME NEW r \in Seq(Byte), NEW n \in {1, 2}
  PROVE  Skip(r, Len(r) + 1, n) = Len(r) + 1
  BY SMTT(30), LenProperties DEF Skip, CanRead

\* What a client sends starts with a record of the first bytes of its message.
LEMMA ClientBytesAre ==
  ASSUME NEW h, IsHello(h)
  PROVE  /\ ClientBytes(h) \in Seq(Byte) /\ ClientBytes(h)[1] = Handshake
         /\ h.sent \in Nat /\ h.sent <= Len(Message(h)) /\ 5 + h.sent <= Len(ClientBytes(h))
         /\ from_be_bytes(ClientBytes(h), 3, 2) = h.sent
         /\ Piece(SubSeq(Message(h), 1, h.sent), Message(h), 0, h.sent)
         /\ Piece(SubSeq(Message(h), 1, h.sent), ClientBytes(h), 5, 5 + h.sent)
<1> DEFINE first == SubSeq(Message(h), 1, h.sent)
           m == Message(h)
           hd == <<Handshake, 3, 1>>
           v == Vector(2, first)
           rest == h.rest
           n == h.sent
<1>1. m \in Seq(Byte) /\ rest \in Seq(Byte) /\ n \in 0..Len(m) /\ n < Weight[3]
  BY MessageIs, Zenon DEF IsHello
<1>2. ClientBytes(h) = (hd \o v) \o rest
  BY Zenon DEF ClientBytes
<1> HIDE DEF m, n, rest
<1>3. n \in Nat /\ n <= Len(m)
  BY SMTT(30), <1>1
<1>4. Piece(first, m, 0, n)
  BY <1>3, CutStart, Zenon DEF m, n
<1> HIDE DEF first
<1>5. first \in Seq(Byte) /\ Len(first) = n
  <2>1. PICK o : o = 0
    OBVIOUS
  <2>2. Piece(first, m, o, n)
    BY <1>4, <2>1, Zenon
  <2>3. first \in Seq(Byte) /\ Len(first) = n - o
    BY <1>1, <2>2, PieceIs, SMT
  <2> QED BY SMTT(30), <1>3, <2>1, <2>3
<1>6. Fits(2, first) /\ 2 \in 1..4 /\ 2 \in {1, 2} /\ 2 + 1 = 3
  BY SMTT(30), <1>1, <1>5 DEF Fits
<1>7. v \in Seq(Byte) /\ Len(v) = 2 + n
  BY <1>5, <1>6, VectorIs, Zenon
<1>8. hd \in Seq(Byte) /\ Len(hd) = 3 /\ hd[1] = Handshake
  BY ByteDef, SMT DEF Handshake
<1> HIDE DEF hd, v
<1> DEFINE b == hd \o v
<1>9. /\ b \in Seq(Byte) /\ Len(b) = Len(hd) + Len(v) /\ Piece(hd, b, 0, Len(hd))
      /\ Piece(v, b, Len(hd), Len(hd) + Len(v))
  BY <1>7, <1>8, PieceAdded, Zenon
<1> HIDE DEF b
<1> DEFINE w == b \o rest
<1>10. w \in Seq(Byte) /\ Len(w) = Len(b) + Len(rest)
  BY <1>1, <1>9, PieceAdded, Zenon
<1>11. Piece(hd, w, 0, Len(hd)) /\ Piece(v, w, Len(hd), Len(hd) + Len(v))
  BY <1>1, <1>9, PieceKept, Zenon
<1> HIDE DEF w
<1>12. Len(hd) + Len(v) = 5 + n /\ 5 + n <= Len(w) /\ 1 \in 1..3 /\ 3 + 2 = 5
  BY SMTT(30), <1>1, <1>3, <1>7, <1>8, <1>9, <1>10, LenProperties
<1>13. Piece(hd, w, 0, 3) /\ Piece(v, w, 3, 5 + n)
  BY <1>8, <1>11, <1>12, Zenon
<1>14. \A i \in 1..3 : hd[i] = w[i]
  BY <1>10, <1>13, StartIs, SMT
<1>15. from_be_bytes(w, 3, 2) = Len(first) /\ Piece(first, w, 3 + 2, 5 + n)
  <2> DEFINE c == 5 + n
             a == 3
  <2>1. Piece(Vector(2, first), w, a, c)
    BY <1>13, Zenon DEF v
  <2> HIDE DEF a, c
  <2>2. from_be_bytes(w, a, 2) = Len(first) /\ Piece(first, w, a + 2, c)
    BY <1>6, <1>10, <2>1, VectorAt, SMT
  <2> QED BY <2>2, Zenon DEF a, c
<1>16. ClientBytes(h) = w
  BY <1>2, Zenon DEF w, b
<1> QED BY <1>3, <1>4, <1>5, <1>8, <1>10, <1>12, <1>14, <1>15, <1>16, Zenon DEF m, n, first

-----------------------------------------------------------------------------
(* Induction over numbers, and walks. *)

\* A set of numbers that is not empty has a least one.
LEMMA Least ==
  ASSUME NEW T, T \subseteq Nat, T # {}
  PROVE  \E m \in T : \A n \in T : m <= n
<1>1. PICK m \in T : \A n \in T : <<n, m>> \notin OpToRel(<, Nat)
  BY WFMin, NatLessThanWellFounded, Zenon
<1>2. ASSUME NEW n \in T, ~(m <= n) PROVE FALSE
  <2>1. n < m /\ m \in Nat /\ n \in Nat
    BY SMTT(30), <1>2
  <2>2. <<n, m>> \in OpToRel(<, Nat)
    BY <2>1 DEF OpToRel
  <2> QED BY <1>1, <2>2, Zenon
<1> QED BY <1>2

\* Induction from n down to 0.
LEMMA Downward ==
  ASSUME NEW n \in Nat, NEW G, n \in G, \A i \in 0..n : i # n /\ i + 1 \in G => i \in G
  PROVE  \A i \in 0..n : i \in G
<1> DEFINE T == {k \in 0..n : n - k \notin G}
<1> SUFFICES ASSUME NEW i \in 0..n, i \notin G PROVE FALSE
  OBVIOUS
<1>1. n - i \in T
  <2>1. n - i \in 0..n /\ n - (n - i) = i
    BY SMTT(30)
  <2> QED BY <2>1
<1>2. T \subseteq Nat
  BY SMTT(30)
<1>3. PICK k \in T : \A l \in T : k <= l
  BY <1>1, <1>2, Least, Zenon
<1>4. k \in 0..n /\ n - k \notin G
  OBVIOUS
<1>5. k # 0
  BY SMTT(30), <1>4
<1>6. k - 1 \in 0..n /\ ~(k <= k - 1)
  BY SMTT(30), <1>4, <1>5
<1>7. n - (k - 1) \in G
  BY <1>3, <1>6
<1>8. n - (k - 1) = (n - k) + 1 /\ n - k \in 0..n /\ n - k # n
  BY SMTT(30), <1>4, <1>5
<1> QED BY <1>4, <1>7, <1>8

\* A walk through a..b: at a place of stop it ends with val, and from any other place
\* it goes on at nxt.  f has its results.
WalkIs(f, a, b, stop, val, nxt) ==
    f = [q \in a..b |-> IF q \in stop THEN val[q] ELSE f[nxt[q]]]

Upward(a, b, stop, nxt) == \A q \in a..b : q \notin stop => nxt[q] \in a..b /\ q < nxt[q]

\* A walk that only goes up has results.
LEMMA Walk ==
  ASSUME NEW a \in Nat, NEW b \in Nat, NEW stop, NEW val, NEW nxt, Upward(a, b, stop, nxt)
  PROVE  \E f : WalkIs(f, a, b, stop, val, nxt)
<1> DEFINE Has(c) == \E f : f = [q \in c..b |-> IF q \in stop THEN val[q] ELSE f[nxt[q]]]
           G == {i \in Nat : a + i <= b + 1 => Has(a + i)}
           n == (b + 1) - a
<1> SUFFICES ASSUME a <= b PROVE Has(a)
  <2> SUFFICES Has(a)
    BY DEF WalkIs
  <2>1. CASE ~(a <= b)
    <3>1. a..b = {}
      BY SMTT(30), <2>1
    <3> WITNESS [q \in {} |-> 0]
    <3> QED BY <3>1, ZenonT(60)
  <2> QED BY <2>1
<1>1. n \in Nat /\ a + n = b + 1
  BY SMTT(30)
<1>2. n \in G
  <2>1. Has(b + 1)
    <3>1. (b + 1)..b = {}
      BY SMTT(30)
    <3> WITNESS [q \in {} |-> 0]
    <3> QED BY <3>1, ZenonT(60)
  <2> QED BY <1>1, <2>1, Zenon
<1>3. ASSUME NEW i \in 0..n, i # n, i + 1 \in G PROVE i \in G
  <2> DEFINE c == a + i
  <2>1. c \in Nat /\ a + (i + 1) = c + 1 /\ c + 1 <= b + 1 /\ c \in a..b /\ i \in Nat
    BY SMTT(30), <1>1, <1>3
  <2>2. Has(c + 1)
    BY <1>3, <2>1, Zenon
  <2> HIDE DEF c
  <2>3. PICK g : g = [q \in (c + 1)..b |-> IF q \in stop THEN val[q] ELSE g[nxt[q]]]
    BY <2>2, ZenonT(60)
  <2> DEFINE f == [q \in c..b |-> IF q = c THEN IF c \in stop THEN val[c] ELSE g[nxt[c]]
                                  ELSE g[q]]
  <2>4. ASSUME NEW q \in c..b PROVE f[q] = IF q \in stop THEN val[q] ELSE f[nxt[q]]
    <3>1. q \in a..b
      BY SMTT(30), <2>1
    <3>2. q \notin stop => nxt[q] \in (c + 1)..b /\ nxt[q] \in c..b /\ nxt[q] # c
      BY SMTT(30), <2>1, <3>1 DEF Upward
    <3>3. q \notin stop => f[nxt[q]] = g[nxt[q]]
      BY <3>2
    <3>4. CASE q = c
      BY <3>3, <3>4
    <3>5. CASE q # c
      <4>1. q \in (c + 1)..b
        BY SMTT(30), <2>1, <3>5
      <4>2. f[q] = g[q]
        BY <3>5
      <4>3. g[q] = IF q \in stop THEN val[q] ELSE g[nxt[q]]
        BY <2>3, <4>1, Zenon
      <4> QED BY <3>3, <4>2, <4>3
    <3> QED BY <3>4, <3>5
  <2>5. f = [q \in c..b |-> f[q]]
    OBVIOUS
  <2> HIDE DEF f
  <2>6. f = [q \in c..b |-> IF q \in stop THEN val[q] ELSE f[nxt[q]]]
    BY <2>4, <2>5
  <2>7. Has(c)
    BY <2>6, ZenonT(60)
  <2> QED BY <2>1, <2>7 DEF c
<1> HIDE DEF G
<1>4. \A i \in 0..n : i \in G
  BY <1>1, <1>2, <1>3, Downward, Zenon
<1>5. 0 \in G
  BY SMTT(30), <1>1, <1>4
<1> QED BY SMTT(30), <1>5 DEF G

-----------------------------------------------------------------------------
(* parse_sni. *)

\* The parser's way through a list of server names: where it ends, with what, and
\* where it goes on.
NameStops(bytes, q, end) ==
    \/ q = end \/ ~CanRead(bytes, q, 3) \/ Skip(bytes, q + 1, 2) > end
    \/ from_be_bytes(bytes, q, 1) = 0

NameResult(bytes, q, end) ==
    IF q = end THEN GoOn
    ELSE IF ~CanRead(bytes, q, 3) \/ Skip(bytes, q + 1, 2) > end THEN Stop(<<>>)
    ELSE IF from_be_bytes(bytes, q + 1, 2) > MAX_SNI_LEN THEN Stop(<<>>)
    ELSE Stop(from_utf8(SubSeq(bytes, q + 4, q + 3 + from_be_bytes(bytes, q + 1, 2))))

NameNext(bytes, q) == q + 3 + from_be_bytes(bytes, q + 1, 2)

\* What ServerNames computes.
LEMMA NamesFrom ==
  ASSUME NEW bytes \in Seq(Byte), NEW start \in Nat, NEW end \in Nat, start <= end
  PROVE  \E f : /\ ServerNames(bytes, start, end) = f[start]
                /\ \A q \in start..end :
                      f[q] = IF NameStops(bytes, q, end) THEN NameResult(bytes, q, end)
                             ELSE f[NameNext(bytes, q)]
<1> DEFINE Body(f, q) ==
            IF q = end THEN GoOn
            ELSE IF ~CanRead(bytes, q, 3) \/ Skip(bytes, q + 1, 2) > end THEN Stop(<<>>)
            ELSE LET name_len == from_be_bytes(bytes, q + 1, 2)
                     name_end == q + 3 + name_len
                 IN  IF from_be_bytes(bytes, q, 1) # 0 THEN f[name_end]
                     ELSE IF name_len > MAX_SNI_LEN THEN Stop(<<>>)
                     ELSE Stop(from_utf8(SubSeq(bytes, q + 4, name_end)))
           name == CHOOSE f : f = [q \in start..end |-> Body(f, q)]
           stop == {q \in start..end : NameStops(bytes, q, end)}
           val == [q \in start..end |-> NameResult(bytes, q, end)]
           nxt == [q \in start..end |-> NameNext(bytes, q)]
<1>1. ServerNames(bytes, start, end) = name[start]
  BY SMTT(30) DEF ServerNames
<1>2. \A f, q : Body(f, q) = IF NameStops(bytes, q, end) THEN NameResult(bytes, q, end)
                             ELSE f[NameNext(bytes, q)]
  BY Zenon DEF NameStops, NameResult, NameNext
<1> HIDE DEF Body
<1>3. ASSUME NEW q \in start..end, q \notin stop PROVE nxt[q] \in start..end /\ q < nxt[q]
  <2>1. q + 3 <= Len(bytes) /\ Skip(bytes, q + 1, 2) <= end /\ q \in Nat /\ q + 1 \in Nat
    <3>1. CanRead(bytes, q, 3) /\ ~(Skip(bytes, q + 1, 2) > end)
      BY <1>3, Zenon DEF NameStops
    <3>2. q \in Nat /\ q + 3 <= Len(bytes) /\ (q + 1) + 2 <= Len(bytes)
      BY SMTT(30), <3>1, LenProperties DEF CanRead
    <3>3. from_be_bytes(bytes, q + 1, 2) \in Nat
      BY <3>2, ReadTwo, SMT
    <3>4. Skip(bytes, q + 1, 2) \in Nat
      BY SMTT(30), <3>2, <3>3 DEF Skip, CanRead
    <3> QED BY SMTT(30), <3>1, <3>2, <3>4
  <2>2. (q + 1) + 2 <= Len(bytes)
    BY SMTT(30), <2>1, LenProperties
  <2>3. from_be_bytes(bytes, q + 1, 2) \in Nat
    BY <2>1, <2>2, ReadTwo, ZenonT(30)
  <2>4. Skip(bytes, q + 1, 2) = (q + 1) + 2 + from_be_bytes(bytes, q + 1, 2)
    BY <2>2, SMT DEF Skip, CanRead
  <2>5. nxt[q] = q + 3 + from_be_bytes(bytes, q + 1, 2)
    BY Zenon DEF NameNext
  <2> QED BY SMTT(30), <2>1, <2>3, <2>4, <2>5
<1>4. PICK g : g = [q \in start..end |-> IF q \in stop THEN val[q] ELSE g[nxt[q]]]
  <2> HIDE DEF stop, val, nxt
  <2>1. Upward(start, end, stop, nxt)
    BY <1>3, Zenon DEF Upward
  <2>2. \E f : WalkIs(f, start, end, stop, val, nxt)
    BY <2>1, Walk, Zenon
  <2> QED BY <2>2, Zenon DEF WalkIs
<1>5. g = [q \in start..end |-> Body(g, q)]
  <2>1. \A q \in start..end : (IF q \in stop THEN val[q] ELSE g[nxt[q]]) = Body(g, q)
    BY <1>2, Zenon
  <2> HIDE DEF stop, val, nxt
  <2> QED BY <1>4, <2>1, Zenon
<1>6. name = [q \in start..end |-> Body(name, q)]
  BY <1>5, Zenon
<1> HIDE DEF name
<1>7. \A q \in start..end : name[q] = Body(name, q)
  BY <1>6, Zenon
<1> QED BY <1>1, <1>2, <1>7, Zenon

\* The parser's way through the extensions.
NamesAt(bytes, p) ==
    IF from_be_bytes(bytes, p, 2) # 0 THEN GoOn
    ELSE IF ~CanRead(bytes, p + 4, 2) THEN Stop(<<>>)
    ELSE ServerNames(bytes, p + 6, Skip(bytes, p + 2, 2))

NoneAt(bytes, p, end) == p = end \/ ~CanRead(bytes, p, 4) \/ Skip(bytes, p + 2, 2) > end

\* What Extensions computes.
LEMMA ExtensionsFrom ==
  ASSUME NEW bytes \in Seq(Byte), NEW start \in Nat, NEW end \in Nat, start <= end
  PROVE  \E f : /\ Extensions(bytes, start, end) = f[start]
                /\ \A p \in start..end :
                      f[p] = IF NoneAt(bytes, p, end) THEN <<>>
                             ELSE IF NamesAt(bytes, p).go_on THEN f[Skip(bytes, p + 2, 2)]
                             ELSE NamesAt(bytes, p).sni
<1> DEFINE Body(f, p) ==
            IF p = end \/ ~CanRead(bytes, p, 4) \/ Skip(bytes, p + 2, 2) > end THEN <<>>
            ELSE LET ext_end == Skip(bytes, p + 2, 2)
                     names   == IF from_be_bytes(bytes, p, 2) # 0 THEN GoOn
                                ELSE IF ~CanRead(bytes, p + 4, 2) THEN Stop(<<>>)
                                ELSE ServerNames(bytes, p + 6, ext_end)
                 IN  IF names.go_on THEN f[ext_end] ELSE names.sni
           extension == CHOOSE f : f = [p \in start..end |-> Body(f, p)]
           stop == {p \in start..end : NoneAt(bytes, p, end) \/ ~NamesAt(bytes, p).go_on}
           val == [p \in start..end |->
                      IF NoneAt(bytes, p, end) THEN <<>> ELSE NamesAt(bytes, p).sni]
           nxt == [p \in start..end |-> Skip(bytes, p + 2, 2)]
<1>1. Extensions(bytes, start, end) = extension[start]
  BY DEF Extensions
<1>2. \A f, p : Body(f, p) = IF NoneAt(bytes, p, end) THEN <<>>
                             ELSE IF NamesAt(bytes, p).go_on THEN f[Skip(bytes, p + 2, 2)]
                             ELSE NamesAt(bytes, p).sni
  BY Zenon DEF NoneAt, NamesAt
<1> HIDE DEF Body
<1>3. ASSUME NEW p \in start..end, p \notin stop PROVE nxt[p] \in start..end /\ p < nxt[p]
  <2>1. CanRead(bytes, p, 4) /\ ~(Skip(bytes, p + 2, 2) > end)
    BY <1>3, Zenon DEF NoneAt
  <2>2. p \in Nat /\ p + 2 \in Nat /\ (p + 2) + 2 <= Len(bytes)
    BY SMTT(30), <2>1, LenProperties DEF CanRead
  <2>3. from_be_bytes(bytes, p + 2, 2) \in Nat
    BY <2>2, ReadTwo, ZenonT(30)
  <2>4. Skip(bytes, p + 2, 2) = (p + 2) + 2 + from_be_bytes(bytes, p + 2, 2)
    BY <2>2, SMT DEF Skip, CanRead
  <2>5. Skip(bytes, p + 2, 2) \in start..end /\ p < Skip(bytes, p + 2, 2)
    BY <2>1, <2>2, <2>3, <2>4, SMTT(30)
  <2> QED BY <2>5, Zenon
<1>4. PICK g : g = [p \in start..end |-> IF p \in stop THEN val[p] ELSE g[nxt[p]]]
  <2> HIDE DEF stop, val, nxt
  <2>1. Upward(start, end, stop, nxt)
    BY <1>3, Zenon DEF Upward
  <2>2. \E f : WalkIs(f, start, end, stop, val, nxt)
    BY <2>1, Walk, Zenon
  <2> QED BY <2>2, Zenon DEF WalkIs
<1>5. g = [p \in start..end |-> Body(g, p)]
  <2>1. \A p \in start..end : (IF p \in stop THEN val[p] ELSE g[nxt[p]]) = Body(g, p)
    BY <1>2, Zenon
  <2> HIDE DEF stop, val, nxt
  <2> QED BY <1>4, <2>1, Zenon
<1>6. extension = [p \in start..end |-> Body(extension, p)]
  BY <1>5, Zenon
<1> HIDE DEF extension
<1>7. \A p \in start..end : extension[p] = Body(extension, p)
  BY <1>6, Zenon
<1> QED BY <1>1, <1>2, <1>7, Zenon

\* A server name that stands in the list, as the parser reads it.
LEMMA NameAt ==
  ASSUME NEW w \in Seq(Byte), NEW n, n.type \in Byte, Fits(2, n.name),
         NEW a, NEW c, Piece(NameBytes(n), w, a, c)
  PROVE  /\ a \in Nat /\ c \in Nat /\ a < c /\ c <= Len(w)
         /\ CanRead(w, a, 3) /\ Skip(w, a + 1, 2) = c
         /\ from_be_bytes(w, a, 1) = n.type /\ from_be_bytes(w, a + 1, 2) = Len(n.name)
         /\ c = a + 3 + Len(n.name) /\ n.name = SubSeq(w, a + 4, c)
<1> DEFINE t == <<n.type>>
           v == Vector(2, n.name)
<1>1. t \in Seq(Byte) /\ Len(t) = 1 /\ t[1] = n.type
  BY SMTT(30)
<1>2. n.name \in Seq(Byte) /\ 2 \in 1..4 /\ 2 \in {1, 2}
  BY SMTT(30) DEF Fits
<1>3. v \in Seq(Byte)
  BY <1>2, VectorIs, Zenon
<1>4. Piece(t \o v, w, a, c)
  BY Zenon DEF NameBytes
<1> HIDE DEF t, v
<1>5. /\ Piece(t, t \o v, 0, Len(t)) /\ Piece(v, t \o v, Len(t), Len(t) + Len(v))
      /\ Len(t \o v) = Len(t) + Len(v) /\ t \o v \in Seq(Byte)
  BY <1>1, <1>3, PieceAdded, Zenon
<1> DEFINE u == t \o v
<1> HIDE DEF u
<1>6. /\ a \in Nat /\ c \in Nat /\ c <= Len(w) /\ Len(w) \in Nat /\ Len(u) = c - a
  <2>1. Piece(u, w, a, c)
    BY <1>4, Zenon DEF u
  <2> QED BY <2>1, PieceIs, SMT
<1>7. /\ Piece(t, w, a + 0, a + Len(t)) /\ Piece(v, w, a + Len(t), a + (Len(t) + Len(v)))
  BY <1>4, <1>5, PieceOfPiece, Zenon
<1>8. Len(v) \in Nat /\ a + 0 = a /\ a + (Len(t) + Len(v)) = c /\ a + 1 \in Nat
  BY SMTT(30), <1>1, <1>3, <1>5, <1>6, LenProperties DEF u
<1>9. Piece(t, w, a, a + 1) /\ Piece(v, w, a + 1, c)
  BY <1>1, <1>7, <1>8, Zenon
<1>10. /\ Len(n.name) \in Nat /\ c = (a + 1) + 2 + Len(n.name) /\ (a + 1) + 2 <= Len(w)
       /\ from_be_bytes(w, a + 1, 2) = Len(n.name) /\ Piece(n.name, w, (a + 1) + 2, c)
  <2> DEFINE b == a + 1
  <2>1. Piece(Vector(2, n.name), w, b, c)
    BY <1>9, Zenon DEF v
  <2> HIDE DEF b
  <2>2. /\ Len(n.name) \in Nat /\ c = b + 2 + Len(n.name) /\ b + 2 <= Len(w)
        /\ from_be_bytes(w, b, 2) = Len(n.name) /\ Piece(n.name, w, b + 2, c)
    BY <1>2, <2>1, VectorAt, SMT
  <2> QED BY <2>2, Zenon DEF b
<1>11. w[a + 1] = n.type
  <2> DEFINE b == a + 1
  <2>1. Piece(t, w, a, b) /\ a < b
    BY SMTT(30), <1>6, <1>9
  <2> HIDE DEF b
  <2>2. t[1] = w[a + 1]
    BY <2>1, FirstOf, SMT
  <2> QED BY <1>1, <2>2, Zenon
<1>12. from_be_bytes(w, a, 1) = n.type
  BY <1>6, <1>10, <1>11, ReadOne, SMT
<1>13. CanRead(w, a, 3) /\ c = a + 3 + Len(n.name) /\ a < c
  <2>1. \A l \in Nat : /\ (a + 1) + 2 = a + 3 /\ (a + 1) + 2 + l = a + 3 + l
                      /\ a < a + 3 + l
    BY SMTT(30), <1>6
  <2> QED BY <1>10, <2>1, Zenon DEF CanRead
<1>14. Skip(w, a + 1, 2) = c
  BY <1>10 DEF Skip, CanRead
<1>15. (a + 1) + 2 + 1 = a + 4
  BY SMTT(30), <1>6
<1>16. n.name = SubSeq(w, a + 4, c)
  BY <1>10, <1>15, Zenon DEF Piece
<1> QED BY <1>6, <1>10, <1>12, <1>13, <1>14, <1>16, Zenon

\* An extension, as the parser reads it.
LEMMA ExtensionAt ==
  ASSUME NEW w \in Seq(Byte), NEW e, IsExtension(e), NEW a, NEW c, Piece(ExtensionBytes(e), w, a, c)
  PROVE  /\ a \in Nat /\ c \in Nat /\ a < c /\ c <= Len(w)
         /\ CanRead(w, a, 4) /\ Skip(w, a + 2, 2) = c /\ from_be_bytes(w, a, 2) = e.type
         /\ e.type = 0 => CanRead(w, a + 4, 2) /\ Piece(e.list, w, a + 6, c)
<1> DEFINE t == to_be_bytes(e.type, 2)
           v == Vector(2, e.data)
<1>1. e.type \in Nat /\ e.type < Weight[3] /\ Fits(2, e.data)
  BY DEF IsExtension
<1>2. e.data \in Seq(Byte) /\ 2 \in 1..4 /\ 2 \in {1, 2}
  BY SMTT(30), <1>1 DEF Fits
<1>3. t \in Seq(Byte) /\ Len(t) = 2 /\ v \in Seq(Byte)
  BY <1>1, <1>2, Encoded, VectorIs, Zenon
<1>4. t[2] + t[1] * 256 = e.type
  BY <1>1, Weights, EncodedTwo, SMT
<1>5. Piece(t \o v, w, a, c)
  BY Zenon DEF ExtensionBytes
<1> HIDE DEF t, v
<1>6. /\ Piece(t, t \o v, 0, Len(t)) /\ Piece(v, t \o v, Len(t), Len(t) + Len(v))
      /\ Len(t \o v) = Len(t) + Len(v) /\ t \o v \in Seq(Byte)
  BY <1>3, PieceAdded, Zenon
<1> DEFINE u == t \o v
<1> HIDE DEF u
<1>7. /\ a \in Nat /\ c \in Nat /\ c <= Len(w) /\ Len(w) \in Nat /\ Len(u) = c - a
  <2>1. Piece(u, w, a, c)
    BY <1>5, Zenon DEF u
  <2> QED BY <2>1, PieceIs, SMT
<1>8. /\ Piece(t, w, a + 0, a + Len(t)) /\ Piece(v, w, a + Len(t), a + (Len(t) + Len(v)))
  BY <1>5, <1>6, PieceOfPiece, Zenon
<1>9. Len(v) \in Nat /\ a + 0 = a /\ a + (Len(t) + Len(v)) = c /\ a + 2 \in Nat
  BY <1>3, <1>6, <1>7, LenProperties, SMTT(30) DEF u
<1> DEFINE b == a + 2
<1>10. Piece(t, w, a, b) /\ Piece(v, w, b, c)
  BY <1>3, <1>8, <1>9, Zenon
<1>11. b - a = 2 /\ 1 \in 1..2 /\ 2 \in 1..2
  BY SMTT(30), <1>7
<1> HIDE DEF b
<1>12. /\ Len(e.data) \in Nat /\ c = b + 2 + Len(e.data) /\ b + 2 <= Len(w)
       /\ from_be_bytes(w, b, 2) = Len(e.data) /\ Piece(e.data, w, b + 2, c)
  BY <1>1, <1>2, <1>10, VectorAt, SMTT(30) DEF v
<1>13. \A i \in 1..(b - a) : t[i] = w[a + i]
  BY <1>10, PieceIs, SMT
<1>14. w[a + 1] = t[1] /\ w[a + 2] = t[2]
  BY <1>11, <1>13, Zenon
<1>15. b \in Nat /\ a + 4 = b + 2 /\ b = a + 2 /\ a < c /\ a + 2 <= Len(w)
  <2>1. b \in Nat /\ a + 4 = b + 2 /\ b = a + 2 /\ \A l \in Nat : a < b + 2 + l
    BY SMTT(30), <1>7 DEF b
  <2>2. \A l \in Nat : b + 2 <= l => a + 2 <= l
    BY SMTT(30), <1>7 DEF b
  <2> QED BY <1>7, <1>12, <2>1, <2>2, Zenon
<1>16. from_be_bytes(w, a, 2) = w[a + 2] + w[a + 1] * 256
  BY <1>7, <1>15, ReadTwo, SMT
<1>17. from_be_bytes(w, a, 2) = e.type
  BY <1>4, <1>14, <1>16, Zenon
<1>18. CanRead(w, a, 4)
  BY <1>12, <1>15 DEF CanRead
<1>19. Skip(w, b, 2) = c
  BY <1>12 DEF Skip, CanRead
<1>20. ASSUME e.type = 0 PROVE CanRead(w, a + 4, 2) /\ Piece(e.list, w, a + 6, c)
  <2>1. Fits(2, e.list) /\ e.data = Vector(2, e.list)
    BY <1>20 DEF IsExtension
  <2> DEFINE d == b + 2
  <2>2. Piece(Vector(2, e.list), w, d, c)
    BY <1>12, <2>1, Zenon
  <2>3. d = a + 4 /\ a + 6 = d + 2
    BY SMTT(30), <1>7, <1>15
  <2> HIDE DEF d
  <2>4. d + 2 <= Len(w) /\ Piece(e.list, w, d + 2, c)
    BY <1>2, <2>1, <2>2, VectorAt, ZenonT(30)
  <2>5. CanRead(w, d, 2)
    BY <2>4 DEF CanRead
  <2> QED BY <2>3, <2>4, <2>5, ZenonT(60)
<1> QED BY <1>7, <1>15, <1>17, <1>18, <1>19, <1>20, Zenon

\* What the parser finds among the names of e behind the first j: nothing, and goes on,
\* or the first host name.
NameFound(e, j, v) ==
    \/ v = GoOn /\ \A l \in 1..Len(e.names) : j < l => e.names[l].type # 0
    \/ \E l \in 1..Len(e.names) :
          /\ j < l /\ e.names[l].type = 0 /\ v = Stop(HostName(e.names[l].name))
          /\ \A k \in 1..Len(e.names) : j < k /\ k < l => e.names[k].type # 0

LEMMA NamesWalk ==
  ASSUME NEW w \in Seq(Byte), NEW e, IsExtension(e), e.type = 0,
         NEW x, NEW end, Piece(e.list, w, x, end)
  PROVE  NameFound(e, 0, ServerNames(w, x, end))
<1> DEFINE n == Len(e.names)
           parts == [j \in 1..n |-> NameBytes(e.names[j])]
           list == e.list
           ends == e.ends
<1>1. /\ n \in Nat /\ Joined(list, parts, ends) /\ Fits(2, list)
      /\ \A j \in 1..n : e.names[j].type \in Byte /\ Fits(2, e.names[j].name)
  BY Zenon DEF IsExtension
<1>2. Len(parts) = n /\ \A j \in 1..n : parts[j] = NameBytes(e.names[j])
  BY SMTT(30), <1>1
<1> HIDE DEF n, parts, list, ends
<1>3. /\ ends[0] = 0 /\ ends[n] = Len(list)
      /\ \A j \in 1..n : Piece(NameBytes(e.names[j]), list, ends[j - 1], ends[j])
  BY <1>1, <1>2, Zenon DEF Joined
<1>4. /\ x \in Nat /\ end \in Nat /\ x <= end /\ end <= Len(w) /\ Len(list) = end - x
  BY PieceIs, SMT DEF list
<1>5. x + ends[n] = end /\ x + ends[0] = x
  BY SMTT(30), <1>3, <1>4
<1>6. PICK f : /\ ServerNames(w, x, end) = f[x]
               /\ \A q \in x..end :
                     f[q] = IF NameStops(w, q, end) THEN NameResult(w, q, end)
                            ELSE f[NameNext(w, q)]
  BY <1>4, NamesFrom, Zenon
<1> DEFINE G == {j \in 0..n : NameFound(e, j, f[x + ends[j]])}
<1>7. n \in G
  <2>1. end \in x..end /\ n \in 0..n /\ \A l \in 1..n : ~(n < l)
    BY SMTT(30), <1>1, <1>4
  <2>2. f[end] = GoOn
    BY <1>6, <2>1, Zenon DEF NameStops, NameResult
  <2> QED BY <1>5, <2>1, <2>2, Zenon DEF NameFound, n
<1>8. ASSUME NEW j \in 0..n, j # n, j + 1 \in G PROVE j \in G
  <2> DEFINE i == j + 1
             m == e.names[i]
             a == x + ends[j]
             c == x + ends[i]
  <2>1. i \in 1..n /\ i - 1 = j
    BY SMTT(30), <1>1, <1>8
  <2>2. Piece(NameBytes(m), list, ends[j], ends[i]) /\ m.type \in Byte /\ Fits(2, m.name)
    BY <1>1, <1>3, <2>1, Zenon
  <2>3. Piece(NameBytes(m), w, a, c)
    BY <2>2, PieceOfPiece, Zenon DEF list
  <2>4. NameFound(e, i, f[c])
    BY <1>8, Zenon
  <2>5. /\ ends[j] \in Nat /\ ends[i] \in Nat /\ ends[i] <= Len(list)
    BY <2>2, Zenon DEF Piece
  <2>6. x <= a /\ c <= end
    BY SMTT(30), <1>4, <2>5
  <2>7. \A k \in 1..n : j < k <=> k = i \/ i < k
    BY SMTT(30), <1>1, <1>8
  <2>8. ~(i < i) /\ j < i /\ \A k \in 1..n : i < k => j < k
    BY SMTT(30), <1>1, <1>8
  <2> HIDE DEF i, m, a, c
  <2>9. /\ a \in Nat /\ c \in Nat /\ a < c /\ c <= Len(w)
        /\ CanRead(w, a, 3) /\ Skip(w, a + 1, 2) = c
        /\ from_be_bytes(w, a, 1) = m.type /\ from_be_bytes(w, a + 1, 2) = Len(m.name)
        /\ c = a + 3 + Len(m.name) /\ m.name = SubSeq(w, a + 4, c)
    BY <2>2, <2>3, NameAt, ZenonT(60)
  <2>10. a \in x..end /\ a # end /\ ~(c > end) /\ Len(m.name) \in Nat
    <3>1. Len(m.name) \in Nat
      BY <2>2, LenProperties DEF Fits
    <3>2. a \in Nat /\ c \in Nat /\ a < c
      BY <2>9, Zenon
    <3>3. a \in x..end /\ a # end /\ ~(c > end)
      BY SMTT(30), <1>4, <2>6, <3>2
    <3> QED BY <3>1, <3>3, Zenon
  <2>11. CASE m.type # 0
    <3>1. f[a] = f[c]
      BY <1>6, <2>9, <2>10, <2>11, ZenonT(60) DEF NameStops, NameNext
    <3>2. NameFound(e, j, f[c])
      <4>1. CASE f[c] = GoOn /\ \A l \in 1..n : i < l => e.names[l].type # 0
        BY <2>7, <2>11, <4>1, Zenon DEF NameFound, m, n
      <4>2. ASSUME NEW l \in 1..n, i < l, e.names[l].type = 0, f[c] = Stop(HostName(e.names[l].name)),
                   \A k \in 1..n : i < k /\ k < l => e.names[k].type # 0
            PROVE  NameFound(e, j, f[c])
        <5>1. \A k \in 1..n : j < k /\ k < l => e.names[k].type # 0
          BY <2>7, <2>11, <4>2, Zenon DEF m
        <5> QED BY <2>8, <4>2, <5>1, Zenon DEF NameFound, n
      <4> QED BY <2>4, <4>1, <4>2, Zenon DEF NameFound, n
    <3> QED BY <3>1, <3>2, Zenon DEF a
  <2>12. CASE m.type = 0
    <3>1. f[a] = Stop(HostName(m.name))
      <4>1. NameStops(w, a, end)
        BY <2>9, <2>12, Zenon DEF NameStops
      <4>2. NameResult(w, a, end) = IF Len(m.name) > MAX_SNI_LEN THEN Stop(<<>>)
                                    ELSE Stop(from_utf8(m.name))
        BY <2>9, <2>10, Zenon DEF NameResult
      <4>3. Len(m.name) > MAX_SNI_LEN <=> ~(Len(m.name) <= MAX_SNI_LEN)
        BY SMTT(30), <2>10, HelloAssumption
      <4>4. f[a] = NameResult(w, a, end)
        BY <1>6, <2>10, <4>1, Zenon
      <4> QED BY <4>2, <4>3, <4>4, Zenon DEF HostName
    <3>2. \A k \in 1..n : ~(j < k /\ k < i)
      BY SMTT(30), <2>1, <1>8
    <3>3. NameFound(e, j, f[a])
      BY <2>1, <2>8, <2>12, <3>1, <3>2, Zenon DEF NameFound, m, n
    <3> QED BY <3>3, Zenon DEF a
  <2> QED BY <2>11, <2>12, Zenon
<1> HIDE DEF G
<1>9. \A j \in 0..n : j \in G
  BY <1>1, <1>7, <1>8, Downward, Zenon
<1>10. 0 \in 0..n
  BY SMTT(30), <1>1
<1>11. NameFound(e, 0, f[x + ends[0]])
  BY <1>9, <1>10, Zenon DEF G
<1> QED BY <1>5, <1>6, <1>11, Zenon

\* What the parser finds in the extensions of h behind the first i: no host name, or
\* the first one.
HostFound(h, i, v) ==
    \/ v = <<>> /\ \A k \in 1..Len(h.extensions) : i < k => \A l : ~IsHost(h, k, l)
    \/ \E k \in 1..Len(h.extensions) : \E j :
          /\ i < k /\ IsHost(h, k, j) /\ v = HostName(h.extensions[k].names[j].name)
          /\ \A l : IsHost(h, k, l) => j <= l
          /\ \A p \in 1..Len(h.extensions) : i < p /\ p < k => \A l : ~IsHost(h, p, l)

LEMMA ExtensionsWalk ==
  ASSUME NEW w \in Seq(Byte), NEW h, IsHello(h), NEW x, NEW end, Piece(h.data, w, x, end)
  PROVE  HostFound(h, 0, Extensions(w, x, end))
<1> DEFINE n == Len(h.extensions)
           parts == [i \in 1..n |-> ExtensionBytes(h.extensions[i])]
           data == h.data
           ends == h.ends
<1>1. /\ n \in Nat /\ Joined(data, parts, ends) /\ Fits(2, data)
      /\ \A i \in 1..n : IsExtension(h.extensions[i])
  BY Zenon DEF IsHello
<1>2. Len(parts) = n /\ \A i \in 1..n : parts[i] = ExtensionBytes(h.extensions[i])
  BY SMTT(30), <1>1
<1> HIDE DEF n, parts, data, ends
<1>3. /\ ends[0] = 0 /\ ends[n] = Len(data)
      /\ \A i \in 1..n : Piece(ExtensionBytes(h.extensions[i]), data, ends[i - 1], ends[i])
  BY <1>1, <1>2, Zenon DEF Joined
<1>4. /\ x \in Nat /\ end \in Nat /\ x <= end /\ end <= Len(w) /\ Len(data) = end - x
  BY PieceIs, SMT DEF data
<1>5. x + ends[n] = end /\ x + ends[0] = x
  BY SMTT(30), <1>3, <1>4
<1>6. PICK f : /\ Extensions(w, x, end) = f[x]
               /\ \A p \in x..end :
                     f[p] = IF NoneAt(w, p, end) THEN <<>>
                            ELSE IF NamesAt(w, p).go_on THEN f[Skip(w, p + 2, 2)]
                            ELSE NamesAt(w, p).sni
  BY <1>4, ExtensionsFrom, Zenon
<1> DEFINE G == {i \in 0..n : HostFound(h, i, f[x + ends[i]])}
<1>7. n \in G
  <2>1. end \in x..end /\ n \in 0..n /\ \A l \in 1..n : ~(n < l)
    BY SMTT(30), <1>1, <1>4
  <2>2. f[end] = <<>>
    BY <1>6, <2>1, Zenon DEF NoneAt
  <2> QED BY <1>5, <2>1, <2>2, Zenon DEF HostFound, n
<1>8. ASSUME NEW i \in 0..n, i # n, i + 1 \in G PROVE i \in G
  <2> DEFINE k == i + 1
             e == h.extensions[k]
             a == x + ends[i]
             c == x + ends[k]
  <2>1. k \in 1..n /\ k - 1 = i
    BY SMTT(30), <1>1, <1>8
  <2>2. Piece(ExtensionBytes(e), data, ends[i], ends[k]) /\ IsExtension(e)
    BY <1>1, <1>3, <2>1, Zenon
  <2>3. Piece(ExtensionBytes(e), w, a, c)
    BY <2>2, PieceOfPiece, Zenon DEF data
  <2>4. HostFound(h, k, f[c])
    BY <1>8, Zenon
  <2>5. /\ ends[i] \in Nat /\ ends[k] \in Nat /\ ends[k] <= Len(data)
    BY <2>2, Zenon DEF Piece
  <2>6. x <= a /\ c <= end
    BY SMTT(30), <1>4, <2>5
  <2>7. \A p \in 1..n : i < p <=> p = k \/ k < p
    BY SMTT(30), <1>1, <1>8
  <2>8. i < k /\ \A p \in 1..n : (k < p => i < p) /\ ~(i < p /\ p < k)
    BY SMTT(30), <1>1, <1>8
  <2> HIDE DEF k, e, a, c
  <2>9. /\ a \in Nat /\ c \in Nat /\ a < c /\ c <= Len(w)
        /\ CanRead(w, a, 4) /\ Skip(w, a + 2, 2) = c /\ from_be_bytes(w, a, 2) = e.type
        /\ e.type = 0 => CanRead(w, a + 4, 2) /\ Piece(e.list, w, a + 6, c)
    BY <2>2, <2>3, ExtensionAt, Zenon
  <2>10. a \in x..end /\ a # end /\ ~(c > end)
    <3>1. a \in Nat /\ c \in Nat /\ a < c
      BY <2>9, Zenon
    <3> QED BY SMTT(30), <1>4, <2>6, <3>1
  <2>11. f[a] = IF NamesAt(w, a).go_on THEN f[c] ELSE NamesAt(w, a).sni
    BY <1>6, <2>9, <2>10, Zenon DEF NoneAt
  <2>12. GoOn.go_on = TRUE /\ \A v : Stop(v).go_on = FALSE /\ Stop(v).sni = v
    BY DEF GoOn, Stop
  <2>13. ASSUME f[a] = f[c], \A l : ~IsHost(h, k, l) PROVE HostFound(h, i, f[a])
    <3>1. CASE f[c] = <<>> /\ \A p \in 1..n : k < p => \A l : ~IsHost(h, p, l)
      <4>1. \A p \in 1..n : i < p => \A l : ~IsHost(h, p, l)
        BY <2>7, <2>13, <3>1, Zenon
      <4>2. f[a] = <<>>
        BY <2>13, <3>1, Zenon
      <4> QED BY <4>1, <4>2, Zenon DEF HostFound, n
    <3>2. ASSUME NEW p \in 1..n, NEW j, k < p, IsHost(h, p, j),
                 f[c] = HostName(h.extensions[p].names[j].name),
                 \A l : IsHost(h, p, l) => j <= l,
                 \A q \in 1..n : k < q /\ q < p => \A l : ~IsHost(h, q, l)
          PROVE  HostFound(h, i, f[a])
      <4>1. \A q \in 1..n : i < q /\ q < p => \A l : ~IsHost(h, q, l)
        BY <2>7, <2>13, <3>2, Zenon
      <4> QED BY <2>8, <2>13, <3>2, <4>1, Zenon DEF HostFound, n
    <3> QED BY <2>4, <3>1, <3>2, Zenon DEF HostFound, n
  <2>14. CASE e.type # 0
    <3>1. NamesAt(w, a) = GoOn
      BY <2>9, <2>14, Zenon DEF NamesAt
    <3>2. \A l : ~IsHost(h, k, l)
      BY <2>14, Zenon DEF IsHost, e
    <3> QED BY <2>11, <2>12, <2>13, <3>1, <3>2, Zenon DEF a
  <2>15. CASE e.type = 0
    <3> DEFINE v == NamesAt(w, a)
    <3>1. v = ServerNames(w, a + 6, c)
      BY <2>9, <2>15, Zenon DEF NamesAt
    <3>2. NameFound(e, 0, v)
      <4> DEFINE b == a + 6
      <4>1. Piece(e.list, w, b, c) /\ v = ServerNames(w, b, c)
        BY <2>9, <2>15, <3>1, Zenon
      <4> HIDE DEF b, v
      <4>2. NameFound(e, 0, ServerNames(w, b, c))
        BY <2>2, <2>15, <4>1, NamesWalk, Zenon
      <4> QED BY <4>1, <4>2, Zenon
    <3> HIDE DEF v
    <3>3. f[a] = IF v.go_on THEN f[c] ELSE v.sni
      BY <2>11, Zenon DEF v
    <3>4. \A l : IsHost(h, k, l) <=> l \in 1..Len(e.names) /\ e.names[l].type = 0
      BY <2>1, <2>15, Zenon DEF IsHost, e, n
    <3>5. Len(e.names) \in Nat
      BY <2>2, <2>15, Zenon DEF IsExtension
    <3>6. \A l \in 1..Len(e.names) : 0 < l
      BY SMTT(30), <3>5
    <3>7. CASE v = GoOn /\ \A l \in 1..Len(e.names) : 0 < l => e.names[l].type # 0
      BY <2>12, <2>13, <3>3, <3>4, <3>6, <3>7, ZenonT(60) DEF a
    <3>8. ASSUME NEW j \in 1..Len(e.names), e.names[j].type = 0, v = Stop(HostName(e.names[j].name)),
                 \A l \in 1..Len(e.names) : 0 < l /\ l < j => e.names[l].type # 0
          PROVE  HostFound(h, i, f[a])
      <4>1. \A l \in 1..Len(e.names) : ~(l < j) => j <= l
        BY SMTT(30), <3>5
      <4>2. IsHost(h, k, j) /\ \A l : IsHost(h, k, l) => j <= l
        BY <3>4, <3>6, <3>8, <4>1, Zenon
      <4>3. f[a] = HostName(h.extensions[k].names[j].name)
        BY <2>12, <3>3, <3>8, Zenon DEF e
      <4> QED BY <2>1, <2>8, <4>2, <4>3, ZenonT(60) DEF HostFound, n
    <3> QED BY <3>2, <3>7, <3>8, Zenon DEF NameFound, a
  <2> QED BY <2>14, <2>15, Zenon
<1> HIDE DEF G
<1>9. \A i \in 0..n : i \in G
  BY <1>1, <1>7, <1>8, Downward, Zenon
<1>10. 0 \in 0..n
  BY SMTT(30), <1>1
<1>11. HostFound(h, 0, f[x + ends[0]])
  BY <1>9, <1>10, Zenon DEF G
<1> QED BY <1>5, <1>6, <1>11, Zenon

\* parse_sni of a record with the first bytes of a ClientHello: it comes to the
\* extensions of one that is whole, and to nothing otherwise.
LEMMA HeaderWalk ==
  ASSUME NEW h, IsHello(h), NEW r \in Seq(Byte), 5 <= Len(r), r[1] = Handshake,
         NEW first, NEW s, Piece(first, Message(h), 0, s), Piece(first, r, 5, Len(r))
  PROVE  IF s = Len(Message(h))
         THEN \E x : Piece(h.data, r, x, Len(r)) /\ parse_sni(r) = Extensions(r, x, Len(r))
         ELSE parse_sni(r) = <<>>
<1> DEFINE m == Message(h)
           N == Len(r)
<1>1. m \in Seq(Byte) /\ 4 <= Len(m) /\ m[1] = 1 /\ \E k1, k2, k3 : Vectors(h, k1, k2, k3)
  BY MessageIs, Zenon
<1>2. PICK k1, k2, k3 : Vectors(h, k1, k2, k3)
  BY <1>1, Zenon
<1>3. /\ Fits(1, h.session_id) /\ Fits(2, h.cipher_suites) /\ Fits(1, h.compression)
      /\ Fits(2, h.data) /\ RandomSize \in Nat /\ 1 \in {1, 2} /\ 2 \in {1, 2} /\ 5 \in Nat
  BY HelloAssumption, Zenon DEF IsHello
<1>4. /\ Piece(Vector(1, h.session_id), m, 6 + RandomSize, k1)
      /\ Piece(Vector(2, h.cipher_suites), m, k1, k2)
      /\ Piece(Vector(1, h.compression), m, k2, k3)
      /\ Piece(Vector(2, h.data), m, k3, Len(m))
  BY <1>2, Zenon DEF Vectors
<1> HIDE DEF m
<1>5. /\ k1 \in Nat /\ k2 \in Nat /\ k3 \in Nat /\ k1 <= k2 /\ k2 <= k3 /\ k3 <= Len(m)
      /\ Len(m) \in Nat /\ N \in Nat
  BY <1>1, <1>4, LenProperties DEF Piece
<1>6. s \in Nat /\ s <= Len(m) /\ Len(first) = s - 0 /\ \A i \in 1..(s - 0) : first[i] = m[0 + i]
  <2>1. Piece(first, m, 0, s)
    BY Zenon DEF m
  <2> QED BY <1>1, <2>1, PieceIs, SMTT(30)
<1>7. Len(first) = N - 5 /\ \A i \in 1..(N - 5) : first[i] = r[5 + i]
  <2>1. PICK o : o = 5
    OBVIOUS
  <2>2. Piece(first, r, o, N)
    BY <2>1, Zenon
  <2> HIDE DEF N
  <2>3. Len(first) = N - o /\ \A i \in 1..(N - o) : first[i] = r[o + i]
    BY <2>2, PieceIs, SMT
  <2> QED BY <2>1, <2>3, Zenon
<1>8. N = 5 + s /\ N - 5 = s /\ s - 0 = s
  BY SMTT(30), <1>5, <1>6, <1>7
<1>9. Sees(r, m, 5)
  <2>1. \A i \in 1..s : r[5 + i] = m[0 + i]
    BY <1>6, <1>7, <1>8, Zenon
  <2>2. \A i \in 1..Len(m) : 0 + i = i /\ (5 + i <= N => i \in 1..s)
    BY SMTT(30), <1>5, <1>6, <1>8
  <2>3. 5 <= N /\ N <= 5 + Len(m)
    BY SMTT(30), <1>5, <1>6, <1>8
  <2> QED BY <2>1, <2>2, <2>3, Zenon DEF Sees
<1> DEFINE s1 == Skip(r, 9 + 2 + RandomSize, 1)
           s2 == Skip(r, s1, 2)
           s3 == Skip(r, s2, 1)
           s4 == Skip(r, s3, 2)
           At(t, k) == t = 5 + k \/ (t = N + 1 /\ N < 5 + k)
<1>10. parse_sni(r) = IF N >= 9 /\ r[1] = Handshake /\ r[6] = 1 /\ s4 <= N
                      THEN Extensions(r, s3 + 2, s4) ELSE <<>>
  BY ZenonT(60) DEF parse_sni
<1>11. At(s1, k1)
  <2>1. 9 + 2 + RandomSize = 5 + (6 + RandomSize)
    BY SMTT(30), <1>3
  <2> QED BY <1>1, <1>3, <1>4, <1>9, <2>1, SkipVector, SMTT(30)
<1> HIDE DEF s1
<1>12. \A k, l \in Nat : k <= l /\ N < 5 + k => N < 5 + l
  BY SMTT(30), <1>5
<1>13. At(s2, k2)
  <2>1. CASE s1 = 5 + k1
    BY <1>1, <1>3, <1>4, <1>9, <2>1, SkipVector, SMT
  <2>2. CASE s1 = N + 1 /\ N < 5 + k1
    BY <1>3, <1>5, <1>12, <2>2, SkipNothing, Zenon
  <2> QED BY <1>11, <2>1, <2>2, ZenonT(60)
<1> HIDE DEF s2
<1>14. At(s3, k3)
  <2>1. CASE s2 = 5 + k2
    BY <1>1, <1>3, <1>4, <1>9, <2>1, SkipVector, SMT
  <2>2. CASE s2 = N + 1 /\ N < 5 + k2
    BY <1>3, <1>5, <1>12, <2>2, SkipNothing, Zenon
  <2> QED BY <1>13, <2>1, <2>2, ZenonT(60)
<1> HIDE DEF s3
<1>15. At(s4, Len(m))
  <2>1. CASE s3 = 5 + k3
    BY <1>1, <1>3, <1>4, <1>9, <2>1, SkipVector, SMT
  <2>2. CASE s3 = N + 1 /\ N < 5 + k3
    BY <1>3, <1>5, <1>12, <2>2, SkipNothing, Zenon
  <2> QED BY <1>14, <2>1, <2>2, ZenonT(60)
<1> HIDE DEF s4
<1>16. CASE s = Len(m)
  <2>1. s4 = N /\ s4 <= N /\ s3 = 5 + k3 /\ N >= 9 /\ 1 \in 1..Len(m) /\ 5 + 1 = 6 /\ 6 <= N
    BY SMTT(30), <1>1, <1>5, <1>8, <1>14, <1>15, <1>16
  <2>2. r[6] = 1
    BY <1>1, <1>9, <2>1, ZenonT(30) DEF Sees
  <2>3. parse_sni(r) = Extensions(r, (5 + k3) + 2, N)
    BY <1>10, <2>1, <2>2, ZenonT(60)
  <2>4. Piece(h.data, m, k3 + 2, Len(m))
    BY <1>1, <1>3, <1>4, VectorAt, ZenonT(30)
  <2>5. first = m
    <3>1. Piece(first, m, 0, Len(m)) /\ Piece(m, m, 0, Len(m))
      BY <1>1, <1>16, AllOfIt, Zenon DEF m
    <3> QED BY <3>1, OnePiece, Zenon
  <2>6. Piece(h.data, r, 5 + (k3 + 2), 5 + Len(m))
    BY <2>4, <2>5, PieceOfPiece, Zenon
  <2>7. 5 + (k3 + 2) = (5 + k3) + 2 /\ 5 + Len(m) = N
    BY SMTT(30), <1>5, <1>8, <1>16
  <2> QED BY <1>16, <2>3, <2>6, <2>7, Zenon DEF m
<1>17. CASE s # Len(m)
  <2>1. ~(s4 <= N)
    BY SMTT(30), <1>5, <1>6, <1>8, <1>15, <1>17
  <2> QED BY <1>10, <1>17, <2>1, Zenon DEF m
<1> QED BY <1>16, <1>17, Zenon

-----------------------------------------------------------------------------
(* The ClientHello that is read, and given back. *)

\* A TLS client's bytes: the record that was read, and what PrefixedStream has
\* given out of it and then of the stream.
Replay ==
    /\ finished
    /\ consumed \in Nat /\ Piece(out, wire, 0, Len(out))
    /\ status \in {"read", "decode"} => items = <<>> /\ Piece(buf, wire, 0, pos)
    /\ (status = "decode" /\ HasLen(buf)) => Len(buf) <= header_size + frame_len(buf)
    /\ status \in {"read", "decode", "failed"} => consumed = 0 /\ out = <<>>
    /\ status \in {"done", "parsed"} =>
          /\ Piece(items[1], wire, 0, Len(items[1]))
          /\ consumed <= Len(items[1]) /\ Len(items[1]) <= pos
          /\ pos > Len(items[1]) => consumed = Len(items[1])
          /\ Len(out) = consumed + (pos - Len(items[1]))

\* The types hold at the start of a TLS client's bytes.
LEMMA InitHelloTypes == InitHello => WireTypes
<1>1. <<>> \in Seq(Byte) /\ <<>> \in Seq(Seq(Byte)) /\ Len(<<>>) = 0
  BY EmptySeq
<1> SUFFICES ASSUME InitHello PROVE WireTypes
  OBVIOUS
<1>2. wire \in Seq(Byte) /\ tail = wire
  BY HelloAssumption, ClientBytesAre, Zenon DEF InitHello
<1>3. Len(wire) \in Nat
  BY <1>2, LenProperties
<1> QED BY SMTT(30), <1>1, <1>2, <1>3 DEF InitHello, WireTypes

\* Nothing is read or given out at the start.
LEMMA InitReplay == InitAll /\ InitHello => Replay
<1> SUFFICES ASSUME InitAll, InitHello PROVE Replay
  OBVIOUS
<1>1. consumed = 0 /\ out = <<>>
  BY Zenon DEF InitAll
<1>2. wire \in Seq(Byte)
  BY InitHelloTypes DEF WireTypes
<1>3. Len(wire) \in Nat /\ 0 \in Nat /\ 0 <= Len(wire) /\ Len(<<>>) = 0
  BY SMTT(30), <1>2, LenProperties, EmptySeq
<1>4. Piece(<<>>, wire, 0, 0)
  BY <1>2, <1>3, NoPiece, Zenon
<1> QED BY <1>1, <1>3, <1>4, Zenon DEF InitHello, Replay

\* read_client_hello reads exactly one record.
LEMMA ReplayRead ==
  ASSUME Tls, WireTypes, Replay, NEW n \in 1..Len(wire), Read(n), UNCHANGED <<consumed, out>>
  PROVE  Replay'
<1>1. /\ status = "read" /\ status' = "decode" /\ items' = items
      /\ wire' = wire /\ finished' = finished /\ Asks(n)
  BY DEF Read, written
<1>2. Piece(buf, wire, 0, pos)
  BY <1>1, Zenon DEF Replay
<1>3. /\ Piece(buf', wire', 0, pos')
      /\ HasLen(buf)' => Len(buf') <= header_size' + frame_len(buf)'
  BY <1>1, <1>2, ReadAdds, Zenon
<1> QED BY <1>1, <1>3, Zenon DEF Replay

\* The record that is returned is all that was read.
LEMMA ReplayDecode ==
  ASSUME Tls, WireTypes, Replay, decode, UNCHANGED <<consumed, out>>
  PROVE  Replay'
<1>1. /\ status = "decode" /\ wire' = wire /\ reader' = reader /\ pos' = pos /\ finished' = finished
  BY DEF decode, written
<1>2. /\ Piece(buf, wire, 0, pos) /\ items = <<>> /\ consumed = 0 /\ out = <<>>
      /\ HasLen(buf) => Len(buf) <= header_size + frame_len(buf)
  BY <1>1, Zenon DEF Replay
<1>3. wire \in Seq(Byte) /\ buf \in Seq(Byte) /\ Len(buf) \in Nat /\ pos \in Nat
  BY LenProperties DEF WireTypes
<1>4. ASSUME ~Whole(buf) \/ Refused(buf), status' \in {"read", "failed"},
             buf' = buf, items' = items
      PROVE  Replay'
  BY <1>1, <1>2, <1>4, Zenon DEF Replay
<1> DEFINE size   == header_size + frame_len(buf)
           record == SubSeq(buf, 1, size)
<1>5. ASSUME Whole(buf), items' = Append(items, record), status' = "done"
      PROVE  Replay'
  <2>1. HasLen(buf) /\ size <= Len(buf)
    BY <1>5 DEF Whole
  <2>2. Piece(record, buf, 0, size) /\ size \in Nat
    BY <1>5, DecodeCuts, Zenon
  <2> HIDE DEF record
  <2>3. size = Len(buf)
    BY SMTT(30), <1>2, <1>3, <2>1, <2>2
  <2> HIDE DEF size
  <2>4. record = buf
    BY <1>3, <2>2, <2>3, AllOfIt, OnePiece, Zenon
  <2>5. pos = Len(buf)
    BY <1>2, <1>3, PieceIs, SMT
  <2>6. items'[1] = buf
    BY SMTT(30), <1>2, <1>5, <2>4
  <2>7. Len(items'[1]) = pos
    BY <2>5, <2>6, Zenon
  <2>8. Piece(items'[1], wire', 0, Len(items'[1]))
    BY <1>1, <1>2, <2>6, <2>7, Zenon
  <2>9. Len(out) = 0
    BY <1>2, EmptySeq
  <2>10. /\ consumed' <= Len(items'[1]) /\ Len(items'[1]) <= pos'
         /\ ~(pos' > Len(items'[1]))
         /\ Len(out') = consumed' + (pos' - Len(items'[1]))
    BY SMTT(30), <1>1, <1>2, <1>3, <2>7, <2>9
  <2> QED BY <1>1, <1>2, <1>5, <2>8, <2>10, Zenon DEF Replay
<1>6. \/ /\ ~Whole(buf) \/ Refused(buf)
         /\ status' \in {"read", "failed"} /\ buf' = buf /\ items' = items
      \/ Whole(buf) /\ items' = Append(items, record) /\ status' = "done"
  BY DEF decode, Ready, Tls
<1> QED BY <1>4, <1>5, <1>6, Zenon

\* poll_read gives the bytes that follow those given out.
LEMMA ReplayPoll ==
  ASSUME Tls, WireTypes, Replay, NEW n \in 1..Len(wire), poll_read(n)
  PROVE  Replay'
<1> DEFINE record == items[1]
           size   == Len(record)
<1>1. /\ status = "parsed" /\ wire' = wire /\ reader' = reader /\ finished' = finished
      /\ status' = status /\ items' = items /\ buf' = buf
  BY DEF poll_read, written
<1>2. /\ finished /\ consumed \in Nat
      /\ Piece(out, wire, 0, Len(out)) /\ Piece(record, wire, 0, size)
      /\ consumed <= size /\ size <= pos
      /\ pos > size => consumed = size
      /\ Len(out) = consumed + (pos - size)
  BY <1>1, Zenon DEF Replay
<1>3. wire \in Seq(Byte) /\ pos \in Nat /\ n \in Nat /\ n >= 1 /\ Len(wire) \in Nat
  BY SMTT(30), LenProperties DEF WireTypes
<1>4. record \in Seq(Byte) /\ size \in Nat /\ Len(out) \in Nat /\ out \in Seq(Byte)
  BY <1>2, <1>3, PieceIs, Zenon
<1> HIDE DEF record, size
<1>5. CASE FromPrefix(n)
  <2> DEFINE take == IF n < size - consumed THEN n ELSE size - consumed
             more == SubSeq(record, consumed + 1, consumed + take)
  <2>1. /\ consumed < size /\ out' = out \o more /\ consumed' = consumed + take /\ pos' = pos
    BY <1>5, Zenon DEF FromPrefix, record, size
  <2>2. /\ take \in Nat /\ consumed + take \in Nat
        /\ consumed + take <= size /\ consumed <= consumed + take
        /\ pos = size /\ consumed = Len(out)
    BY SMTT(30), <1>2, <1>3, <1>4, <2>1
  <2> HIDE DEF take
  <2>3. Piece(more, record, consumed, consumed + take)
    BY <1>2, <2>2, CutOut, Zenon DEF size
  <2> HIDE DEF more
  <2>4. Piece(more, wire, 0 + consumed, 0 + (consumed + take))
    BY <1>2, <1>3, <2>3, PieceOfPiece, Zenon
  <2>5. 0 + consumed = Len(out) /\ 0 + (consumed + take) = consumed + take
    BY SMTT(30), <1>2, <2>2
  <2>6. Piece(more, wire, Len(out), consumed + take)
    BY <2>4, <2>5, Zenon
  <2>7. Piece(out', wire, 0, consumed + take)
    BY <1>2, <1>3, <2>1, <2>6, PiecesJoin, Zenon
  <2> DEFINE end == consumed + take
  <2>8. Piece(out', wire, 0, end) /\ end \in Nat
    BY <2>2, <2>7
  <2> HIDE DEF end
  <2>9. Len(out') = end
    BY <1>3, <2>8, PieceIs, SMT
  <2>10. /\ consumed' \in Nat /\ consumed' <= size /\ size <= pos' /\ ~(pos' > size)
         /\ Len(out') = consumed' + (pos' - size)
    BY SMTT(30), <1>4, <2>1, <2>2, <2>9 DEF end
  <2>11. Piece(out', wire', 0, Len(out'))
    BY <1>1, <2>8, <2>9, Zenon
  <2> QED BY <1>1, <1>2, <2>10, <2>11, Zenon DEF Replay, record, size
<1>6. CASE FromInner(n)
  <2> DEFINE end  == pos + n
             more == SubSeq(wire, pos + 1, end)
  <2>1. /\ consumed = size /\ end <= Len(wire)
        /\ out' = out \o more /\ consumed' = consumed /\ pos' = end
    BY <1>6, Zenon DEF FromInner, record, size
  <2>2. end \in Nat /\ pos <= end /\ pos = Len(out) /\ size <= end /\ end = size + (end - size)
    BY SMTT(30), <1>2, <1>3, <1>4, <2>1
  <2>3. Piece(more, wire, pos, end)
    BY <1>3, <2>1, <2>2, CutOut, Zenon
  <2> HIDE DEF end, more
  <2>4. Piece(out', wire, 0, end)
    BY <1>2, <1>3, <2>1, <2>2, <2>3, PiecesJoin, ZenonT(60)
  <2>5. Len(out') = end
    BY <1>3, <2>2, <2>4, PieceIs, SMT
  <2>6. /\ consumed' \in Nat /\ consumed' <= size /\ size <= pos' /\ consumed' = size
        /\ Len(out') = consumed' + (pos' - size)
    BY SMTT(30), <1>4, <2>1, <2>2, <2>5
  <2>7. Piece(out', wire', 0, Len(out'))
    BY <1>1, <2>4, <2>5, ZenonT(60)
  <2> QED BY <1>1, <1>2, <2>6, <2>7, Zenon DEF Replay, record, size
<1> QED BY <1>5, <1>6 DEF poll_read

\* Every step keeps that of a TLS connection.
LEMMA ReplayStep ==
  ASSUME Tls, WireTypes, Replay, NextAll
  PROVE  Replay'
<1>1. finished
  BY DEF Replay
<1>2. ASSUME NEW n \in 1..Len(wire), Read(n), UNCHANGED <<consumed, out>> PROVE Replay'
  BY <1>2, ReplayRead
<1>3. ASSUME StreamEnds, UNCHANGED <<consumed, out>> PROVE Replay'
  <2>1. /\ status = "read" /\ status' = "failed" /\ wire' = wire /\ finished' = finished
    BY <1>3 DEF StreamEnds, written, Tls
  <2> QED BY <1>3, <2>1, Zenon DEF Replay
<1>4. ASSUME decode, UNCHANGED <<consumed, out>> PROVE Replay'
  BY <1>4, ReplayDecode
<1>5. ASSUME Parse PROVE Replay'
  <2>1. /\ status = "done" /\ status' = "parsed"
        /\ UNCHANGED <<wire, finished, pos, items, consumed, out>>
    BY <1>5 DEF Parse, written
  <2> QED BY <2>1, Zenon DEF Replay
<1>6. ASSUME NEW n \in 1..Len(wire), poll_read(n) PROVE Replay'
  BY <1>6, ReplayPoll
<1> QED BY <1>1, <1>2, <1>3, <1>4, <1>5, <1>6, ZenonT(30) DEF NextAll, NextFrames, encode, Finish

\* The record that was read is the first one of the client's stream, and the name is
\* what parse_sni finds in it.
SniInv ==
    /\ hello \in Hellos /\ wire = ClientBytes(hello)
    /\ status \in {"done", "parsed"} =>
          5 <= Len(items[1]) /\ Len(items[1]) = 5 + from_be_bytes(items[1], 3, 2)
    /\ status = "parsed" => sni = parse_sni(items[1])

LEMMA SniDecode ==
  ASSUME Tls, WireTypes, Replay, SniInv, decode, UNCHANGED <<hello, sni>>
  PROVE  SniInv'
<1>1. /\ status = "decode" /\ wire' = wire /\ reader' = reader
      /\ status' \in {"read", "decode", "done", "failed"}
  BY Zenon DEF decode, written
<1>2. /\ Piece(buf, wire, 0, pos) /\ items = <<>>
      /\ HasLen(buf) => Len(buf) <= header_size + frame_len(buf)
  BY <1>1, Zenon DEF Replay
<1>3. wire \in Seq(Byte) /\ buf \in Seq(Byte) /\ Len(buf) \in Nat
  BY LenProperties DEF WireTypes
<1> DEFINE size == header_size + frame_len(buf)
           record == SubSeq(buf, 1, size)
<1>4. status' # "done" \/ (Whole(buf) /\ items' = Append(items, record))
  BY DEF decode, Ready, Tls
<1>5. ASSUME Whole(buf), items' = Append(items, record)
      PROVE  5 <= Len(items'[1]) /\ Len(items'[1]) = 5 + from_be_bytes(items'[1], 3, 2)
  <2>1. HasLen(buf) /\ size <= Len(buf)
    BY <1>5 DEF Whole
  <2>2. Piece(record, buf, 0, size) /\ size \in Nat
    BY <1>5, DecodeCuts, Zenon
  <2> HIDE DEF record
  <2>3. size = Len(buf)
    BY SMTT(30), <1>2, <1>3, <2>1, <2>2
  <2>4. size = 5 + from_be_bytes(buf, 3, 2) /\ 5 <= Len(buf)
    BY <2>1, Headers DEF frame_len, HasLen
  <2> HIDE DEF size
  <2>5. record = buf
    BY <1>3, <2>2, <2>3, AllOfIt, OnePiece, ZenonT(60)
  <2>6. items'[1] = buf
    BY SMTT(30), <1>2, <1>5, <2>5
  <2> QED BY <2>3, <2>4, <2>6, Zenon
<1> QED BY <1>1, <1>4, <1>5, Zenon DEF SniInv

LEMMA SniStep ==
  ASSUME Tls, WireTypes, Replay, SniInv, NextAll
  PROVE  SniInv'
<1>1. finished
  BY DEF Replay
<1>2. ASSUME NEW n \in 1..Len(wire), Read(n), UNCHANGED <<hello, sni>> PROVE SniInv'
  <2>1. status' = "decode" /\ wire' = wire
    BY <1>2 DEF Read, written
  <2> QED BY <1>2, <2>1, Zenon DEF SniInv
<1>3. ASSUME StreamEnds, UNCHANGED <<hello, sni>> PROVE SniInv'
  <2>1. status' = "failed" /\ wire' = wire
    BY <1>3 DEF StreamEnds, written, Tls
  <2> QED BY <1>3, <2>1, Zenon DEF SniInv
<1>4. ASSUME decode, UNCHANGED <<hello, sni>> PROVE SniInv'
  BY <1>4, SniDecode
<1>5. ASSUME Parse PROVE SniInv'
  <2>1. /\ status = "done" /\ status' = "parsed" /\ sni' = parse_sni(items[1])
        /\ UNCHANGED <<wire, items, hello>>
    BY <1>5 DEF Parse, written
  <2> QED BY <2>1, Zenon DEF SniInv
<1>6. ASSUME NEW n \in 1..Len(wire), poll_read(n) PROVE SniInv'
  <2>1. UNCHANGED <<wire, items, hello, status, sni>>
    BY <1>6 DEF poll_read, written
  <2> QED BY <2>1, Zenon DEF SniInv
<1> QED BY <1>1, <1>2, <1>3, <1>4, <1>5, <1>6, ZenonT(30) DEF NextAll, NextFrames, encode, Finish

\* The name that a record of the client's stream gives.
LEMMA NameOfRecord ==
  ASSUME NEW h, IsHello(h), NEW r, NEW n, Piece(r, ClientBytes(h), 0, n),
         5 <= Len(r), Len(r) = 5 + from_be_bytes(r, 3, 2)
  PROVE  IF h.sent = Len(Message(h)) THEN HostFound(h, 0, parse_sni(r)) ELSE parse_sni(r) = <<>>
<1> DEFINE first == SubSeq(Message(h), 1, h.sent)
           w == ClientBytes(h)
           s == h.sent
<1>1. /\ w \in Seq(Byte) /\ w[1] = Handshake
      /\ s \in Nat /\ s <= Len(Message(h)) /\ 5 + s <= Len(w)
      /\ from_be_bytes(w, 3, 2) = s
      /\ Piece(first, Message(h), 0, s) /\ Piece(first, w, 5, 5 + s)
  BY ClientBytesAre, Zenon
<1> HIDE DEF first, w, s
<1>2. Piece(r, w, 0, n)
  BY Zenon DEF w
<1>3. r \in Seq(Byte) /\ n \in Nat /\ Len(r) = n /\ Len(w) \in Nat
  <2>1. PICK o : o = 0
    OBVIOUS
  <2>2. Piece(r, w, o, n)
    BY <1>2, <2>1, Zenon
  <2>3. r \in Seq(Byte) /\ n \in Nat /\ Len(r) = n - o /\ Len(w) \in Nat
    BY <1>1, <2>2, PieceIs, SMTT(30)
  <2> QED BY SMTT(30), <2>1, <2>3
<1>4. \A i \in 1..n : r[i] = w[i]
  BY <1>1, <1>2, StartIs, ZenonT(30)
<1>5. 1 \in 1..n /\ 4 \in 1..n /\ 5 \in 1..n /\ 3 \in Nat /\ 3 + 1 = 4 /\ 3 + 2 = 5
  BY SMTT(30), <1>3
<1>6. r[1] = w[1] /\ r[4] = w[4] /\ r[5] = w[5]
  BY <1>4, <1>5, Zenon
<1>7. from_be_bytes(r, 3, 2) = r[5] + r[4] * 256
  BY <1>3, <1>5, ReadTwo, SMTT(30)
<1>8. from_be_bytes(w, 3, 2) = w[5] + w[4] * 256
  <2>1. 3 + 2 <= Len(w)
    BY SMTT(30), <1>1, <1>3
  <2> QED BY <1>1, <1>5, <2>1, ReadTwo, SMTT(30)
<1>9. Len(r) = 5 + s
  BY <1>1, <1>6, <1>7, <1>8, ZenonT(60)
<1>10. 5 + s <= n
  BY SMTT(30), <1>1, <1>3, <1>9
<1>11. Piece(first, r, 5, Len(r))
  <2>1. Piece(first, r, 5, 5 + s)
    BY <1>1, <1>2, <1>10, PieceOfStart, Zenon
  <2> QED BY <1>9, <2>1, Zenon
<1>12. r[1] = Handshake
  BY <1>1, <1>6, Zenon
<1>13. IF s = Len(Message(h))
       THEN \E x : Piece(h.data, r, x, Len(r)) /\ parse_sni(r) = Extensions(r, x, Len(r))
       ELSE parse_sni(r) = <<>>
  BY <1>1, <1>3, <1>11, <1>12, HeaderWalk, Zenon
<1>14. ASSUME NEW x, Piece(h.data, r, x, Len(r)), parse_sni(r) = Extensions(r, x, Len(r))
       PROVE  HostFound(h, 0, parse_sni(r))
  BY <1>3, <1>14, ExtensionsWalk, Zenon
<1> QED BY <1>13, <1>14, Zenon DEF s

\* SniAsSent
LEMMA FoundAsSent ==
  ASSUME Tls, WireTypes, Replay, SniInv, status = "parsed"
  PROVE  SniAsSent
<1> DEFINE r == items[1]
<1>1. /\ IsHello(hello) /\ wire = ClientBytes(hello) /\ Piece(r, wire, 0, Len(r))
      /\ 5 <= Len(r) /\ Len(r) = 5 + from_be_bytes(r, 3, 2) /\ sni = parse_sni(r)
  BY HelloAssumption, Zenon DEF SniInv, Replay
<1> HIDE DEF r
<1>2. IF hello.sent = Len(Message(hello)) THEN HostFound(hello, 0, sni) ELSE sni = <<>>
  BY <1>1, NameOfRecord, Zenon
<1>3. CASE hello.sent # Len(Message(hello))
  BY <1>2, <1>3, Zenon DEF SniAsSent
<1>4. CASE hello.sent = Len(Message(hello))
  <2> DEFINE n == Len(hello.extensions)
  <2>1. n \in Nat
    BY <1>1, Zenon DEF IsHello
  <2>2. \A k \in 1..n : 0 < k
    BY SMTT(30), <2>1
  <2>3. CASE sni = <<>> /\ \A k \in 1..n : 0 < k => \A l : ~IsHost(hello, k, l)
    BY <2>2, <2>3, Zenon DEF SniAsSent
  <2>4. ASSUME NEW k \in 1..n, NEW j, IsHost(hello, k, j),
               sni = HostName(hello.extensions[k].names[j].name),
               \A l : IsHost(hello, k, l) => j <= l,
               \A p \in 1..n : 0 < p /\ p < k => \A l : ~IsHost(hello, p, l)
        PROVE  SniAsSent
    <3>1. \A p \in 1..k : p \in 1..n /\ 0 < p /\ (p # k => p < k)
      BY SMTT(30), <2>1
    <3>2. IsFirstHost(hello, k, j)
      BY <2>4, <3>1, Zenon DEF IsFirstHost
    <3>3. j \in 1..Len(hello.extensions[k].names)
      BY <2>4, Zenon DEF IsHost
    <3> QED BY <1>4, <2>4, <3>2, <3>3, ZenonT(60) DEF SniAsSent
  <2> QED BY <1>2, <1>4, <2>3, <2>4, Zenon DEF HostFound
<1> QED BY <1>3, <1>4

\* The inductive invariant of a TLS client's bytes.
HelloInv == Tls => WireTypes /\ Replay /\ SniInv

\* The invariant holds of every ClientHello, and however its bytes are cut into reads.
THEOREM HelloInvariance == SpecAll => []HelloInv
<1>1. InitAll => HelloInv
  <2>1. ASSUME InitAll, Tls PROVE InitHello
    BY <2>1 DEF InitAll, InitFrames, Tls, Readers
  <2>2. InitHello => SniInv
    BY Zenon DEF InitHello, SniInv
  <2> QED BY <2>1, <2>2, InitHelloTypes, InitReplay DEF HelloInv
<1>2. HelloInv /\ [NextAll]_allVars => HelloInv'
  <2> SUFFICES ASSUME HelloInv, [NextAll]_allVars PROVE HelloInv'
    OBVIOUS
  <2>1. Tls' <=> Tls
    BY Zenon DEF NextAll, NextFrames, encode, Finish, Read, StreamEnds, decode, Parse,
                 poll_read, Tls, allVars, frameVars
  <2>2. CASE ~Tls
    BY <2>1, <2>2, Zenon DEF HelloInv
  <2>3. CASE Tls
    <3>1. WireTypes /\ Replay /\ SniInv /\ WireTypes'
      BY <2>3, WireStep DEF HelloInv
    <3>2. CASE UNCHANGED allVars
      <4>1. UNCHANGED <<wire, finished, reader, pos, buf, items, status, consumed, out>>
        BY <3>2 DEF allVars, frameVars, written
      <4>2. /\ (HasLen(buf)' <=> HasLen(buf)) /\ frame_len(buf)' = frame_len(buf)
            /\ header_size' = header_size
        BY <4>1, SameReader DEF header_size, Tls
      <4>3. Replay'
        BY <3>1, <4>1, <4>2, Zenon DEF Replay
      <4>4. UNCHANGED <<hello, sni>>
        BY <3>2 DEF allVars
      <4>5. SniInv'
        BY <3>1, <4>1, <4>4, Zenon DEF SniInv
      <4> QED BY <3>1, <4>3, <4>5 DEF HelloInv
    <3>3. CASE NextAll
      <4>1. Replay' /\ SniInv'
        BY <2>3, <3>1, <3>3, ReplayStep, SniStep
      <4> QED BY <3>1, <4>1 DEF HelloInv
    <3> QED BY <3>2, <3>3
  <2> QED BY <2>2, <2>3
<1> QED BY <1>1, <1>2, PTL DEF SpecAll

\* rustls or the passthrough pipe reads a TLS client's bytes through PrefixedStream
\* from the first on, none lost, twice or out of order.
THEOREM ClientBytesAreReplayed == SpecAll => []HelloIsReplayed
<1>1. HelloInv => HelloIsReplayed
  <2> SUFFICES ASSUME HelloInv, Tls PROVE out = SubSeq(wire, 1, Len(out))
    BY DEF HelloIsReplayed
  <2>1. Piece(out, wire, 0, Len(out))
    BY Zenon DEF HelloInv, Replay
  <2>2. out = SubSeq(wire, 0 + 1, Len(out)) /\ 0 + 1 = 1
    BY <2>1, SMTT(30) DEF Piece
  <2> QED BY <2>2, Zenon
<1> QED BY <1>1, HelloInvariance, PTL

\* The server routes on the first host name of a ClientHello, however long its names
\* and whatever other names, extensions and parts it has, and on none of one that its
\* first record cuts off.
THEOREM RoutedOnTheNameSent == SpecAll => []SniAsSent
<1>1. HelloInv => SniAsSent
  BY FoundAsSent DEF HelloInv, SniAsSent
<1> QED BY <1>1, HelloInvariance, PTL
=============================================================================
