---------------------------- MODULE ClientHello ------------------------------
(***************************************************************************)
(* The first bytes of a public client: the record that read_client_hello   *)
(* takes off the stream (Framing), the server name that sni.rs finds in    *)
(* it, and the PrefixedStream that gives the record back to whoever reads  *)
(* the connection next.                                                    *)
(*                                                                         *)
(* A client's bytes are its ClientHello's encoding and what follows it.    *)
(***************************************************************************)
EXTENDS Framing

CONSTANTS RandomSize,   \* bytes of ClientHello.random (32)
          MAX_SNI_LEN,  \* the longest host name (253)
          Hellos        \* the ClientHellos of clients
-----------------------------------------------------------------------------
(* What a TLS client sends. *)

\* s is the piece of w after its first a elements, up to b.
Piece(s, w, a, b) ==
    a \in Nat /\ b \in Nat /\ a <= b /\ b <= Len(w) /\ s = SubSeq(w, a + 1, b)

\* w is the parts one after the other; ends[i] is where the i-th one ends.
Joined(w, parts, ends) ==
    /\ ends[0] = 0 /\ ends[Len(parts)] = Len(w)
    /\ \A i \in 1..Len(parts) : Piece(parts[i], w, ends[i - 1], ends[i])

\* Bytes behind n bytes with their length, which it has to fit.
Vector(n, bytes) == to_be_bytes(Len(bytes), n) \o bytes

Fits(n, bytes) == bytes \in Seq(Byte) /\ Len(bytes) < Weight[n + 1]

\* An entry of a server_name list.
NameBytes(n) == <<n.type>> \o Vector(2, n.name)

\* An extension of type 0 has a list of server names, others anything.
ExtensionBytes(e) == to_be_bytes(e.type, 2) \o Vector(2, e.data)

IsExtension(e) ==
    /\ e.type \in Nat /\ e.type < Weight[3] /\ Fits(2, e.data)
    /\ e.type = 0 =>
          /\ e.data = Vector(2, e.list) /\ Fits(2, e.list)
          /\ Len(e.names) \in Nat
          /\ \A j \in 1..Len(e.names) : e.names[j].type \in Byte /\ Fits(2, e.names[j].name)
          /\ Joined(e.list, [j \in 1..Len(e.names) |-> NameBytes(e.names[j])], e.ends)

\* The handshake message, and the stream: its first record has the first h.sent
\* bytes of the message, and anything may follow it.
Message(h) ==
    <<1>> \o Vector(3, h.random \o Vector(1, h.session_id) \o Vector(2, h.cipher_suites)
                       \o Vector(1, h.compression) \o Vector(2, h.data))

ClientBytes(h) == <<Handshake, 3, 1>> \o Vector(2, SubSeq(Message(h), 1, h.sent)) \o h.rest

IsHello(h) ==
    /\ h.random \in Seq(Byte) /\ Len(h.random) = 2 + RandomSize  \* version and random
    /\ Fits(1, h.session_id) /\ Fits(2, h.cipher_suites)
    /\ Fits(1, h.compression) /\ Fits(2, h.data)
    /\ Len(h.extensions) \in Nat
    /\ \A i \in 1..Len(h.extensions) : IsExtension(h.extensions[i])
    /\ Joined(h.data, [i \in 1..Len(h.extensions) |-> ExtensionBytes(h.extensions[i])], h.ends)
    /\ h.sent \in 0..Len(Message(h)) /\ h.sent < Weight[3]
    /\ h.rest \in Seq(Byte)

\* Clients send ClientHellos as TLS encodes them.
ASSUME HelloAssumption == RandomSize \in Nat /\ MAX_SNI_LEN \in Nat /\ \A h \in Hellos : IsHello(h)
-----------------------------------------------------------------------------

VARIABLES
    hello,     \* the ClientHello that the client sends
    sni,       \* what parse_sni returned: a sequence of at most one name
    consumed,  \* PrefixedStream::consumed
    out        \* the bytes that were read from the PrefixedStream

allVars == <<frameVars, hello, sni, consumed, out>>
-----------------------------------------------------------------------------
(* parse_sni; positions count from 0, as in the code. *)

\* A name that is no UTF-8 has a byte above 127, among the bytes of Hellos.
from_utf8(bytes) == IF \A i \in DOMAIN bytes : bytes[i] < 128 THEN <<bytes>> ELSE <<>>

\* read_u8, read_u16 and read_u24: a number of n bytes at p, if they are there.
CanRead(bytes, p, n) == p + n <= Len(bytes)

\* The position after a vector with n bytes of length at p; one that cannot be
\* read ends beyond the bytes, where no later read succeeds.
Skip(bytes, p, n) ==
    IF CanRead(bytes, p, n) THEN p + n + from_be_bytes(bytes, p, n) ELSE Len(bytes) + 1

Stop(name) == [go_on |-> FALSE, sni |-> name]

GoOn == [go_on |-> TRUE, sni |-> <<>>]

\* A faulty walk that takes the first name, of whatever type.
FirstName(bytes, start, end) ==
    IF start >= end THEN GoOn
    ELSE IF ~CanRead(bytes, start, 3) \/ Skip(bytes, start + 1, 2) > end THEN Stop(<<>>)
    ELSE Stop(from_utf8(SubSeq(bytes, start + 4, Skip(bytes, start + 1, 2))))

\* The names of one server_name extension, from start to end.
ServerNames(bytes, start, end) ==
    LET name[q \in start..end] ==
            IF q = end THEN GoOn
            ELSE IF ~CanRead(bytes, q, 3) \/ Skip(bytes, q + 1, 2) > end THEN Stop(<<>>)
            ELSE LET name_len == from_be_bytes(bytes, q + 1, 2)
                     name_end == q + 3 + name_len
                 IN  IF from_be_bytes(bytes, q, 1) # 0 THEN name[name_end]
                     ELSE IF name_len > MAX_SNI_LEN THEN Stop(<<>>)
                     ELSE Stop(from_utf8(SubSeq(bytes, q + 4, name_end)))
    IN  IF start > end THEN GoOn ELSE name[start]

\* The extensions, from start to end.
Extensions(bytes, start, end) ==
    LET extension[p \in start..end] ==
            IF p = end \/ ~CanRead(bytes, p, 4) \/ Skip(bytes, p + 2, 2) > end THEN <<>>
            ELSE LET ext_end == Skip(bytes, p + 2, 2)
                     names   == IF from_be_bytes(bytes, p, 2) # 0 THEN GoOn
                                ELSE IF ~CanRead(bytes, p + 4, 2) THEN Stop(<<>>)
                                ELSE ServerNames(bytes, p + 6, ext_end)
                 IN  IF names.go_on THEN extension[ext_end] ELSE names.sni
    IN  extension[start]

parse_sni(bytes) ==
    LET suites      == Skip(bytes, 9 + 2 + RandomSize, 1)
        compression == Skip(bytes, suites, 2)
        extensions  == Skip(bytes, compression, 1)
        end         == Skip(bytes, extensions, 2)
    IN  IF Len(bytes) >= 9 /\ bytes[1] = Handshake /\ bytes[6] = 1 /\ end <= Len(bytes)
        THEN Extensions(bytes, extensions + 2, end)
        ELSE <<>>
-----------------------------------------------------------------------------
NoHello == <<>>

InitHello ==
    /\ reader = "read_client_hello"
    /\ hello \in Hellos
    /\ frames = <<>> /\ tail = ClientBytes(hello) /\ wire = tail /\ finished = TRUE
    /\ pos = 0 /\ buf = <<>> /\ items = <<>>
    /\ status = "read"

InitAll ==
    /\ (InitFrames /\ hello = NoHello) \/ InitHello
    /\ sni = <<>> /\ consumed = 0 /\ out = <<>>
-----------------------------------------------------------------------------
(* A faulty poll_read: every read of the prefix starts at its first byte.    *)
PrefixAgain(n) ==
    /\ consumed < Len(items[1])
    /\ n <= Len(items[1]) - consumed
    /\ out' = out \o SubSeq(items[1], 1, n)
    /\ consumed' = consumed + n
    /\ pos' = pos
-----------------------------------------------------------------------------
(* handle_public after the record was read *)

Parse ==
    /\ Tls /\ status = "done"
    /\ sni' = parse_sni(items[1])
    /\ status' = "parsed"
    /\ UNCHANGED <<written, reader, pos, buf, items, hello, consumed, out>>

\* PrefixedStream::poll_read into a buffer of n bytes: from the prefix as long as
\* it has bytes, then from the stream, which may give fewer.
FromPrefix(n) ==
    /\ consumed < Len(items[1])
    /\ LET take == IF n < Len(items[1]) - consumed THEN n ELSE Len(items[1]) - consumed
       IN  /\ out' = out \o SubSeq(items[1], consumed + 1, consumed + take)
           /\ consumed' = consumed + take
    /\ pos' = pos

FromInner(n) ==
    /\ consumed = Len(items[1]) /\ pos + n <= Len(wire)
    /\ out' = out \o SubSeq(wire, pos + 1, pos + n)
    /\ pos' = pos + n
    /\ consumed' = consumed

poll_read(n) ==
    /\ Tls /\ status = "parsed" /\ sni # <<>>
    /\ FromPrefix(n) \/ FromInner(n)
    /\ UNCHANGED <<written, reader, buf, items, status, hello, sni>>

NextAll ==
    \/ NextFrames /\ UNCHANGED <<hello, sni, consumed, out>>
    \/ Parse
    \/ \E n \in 1..Len(wire) : poll_read(n)

SpecAll == InitAll /\ [][NextAll]_allVars
-----------------------------------------------------------------------------
\* The server names of a ClientHello that are host names, and the first of them, in
\* the order in which the client sends them.
IsHost(h, i, j) ==
    /\ i \in 1..Len(h.extensions) /\ h.extensions[i].type = 0
    /\ j \in 1..Len(h.extensions[i].names) /\ h.extensions[i].names[j].type = 0

IsFirstHost(h, i, j) ==
    /\ IsHost(h, i, j)
    /\ \A k \in 1..i : \A l \in 1..Len(h.extensions[k].names) :
          IsHost(h, k, l) => k = i /\ j <= l

HostName(name) == IF Len(name) <= MAX_SNI_LEN THEN from_utf8(name) ELSE <<>>

\* The server routes on the name that the client asked for: the first host name of
\* a ClientHello, and none when it is too long or no text, wherever the extension
\* stands and whatever is around it.  A ClientHello that goes on in a second
\* record has no name, not another one.
SniAsSent ==
    (Tls /\ status = "parsed") =>
        \/ /\ hello.sent = Len(Message(hello))
           /\ \E i \in 1..Len(hello.extensions) : \E j \in 1..Len(hello.extensions[i].names) :
                 /\ IsFirstHost(hello, i, j)
                 /\ sni = HostName(hello.extensions[i].names[j].name)
        \/ /\ sni = <<>>
           /\ hello.sent = Len(Message(hello)) =>
                 \A i \in 1..Len(hello.extensions) :
                 \A j \in 1..Len(hello.extensions[i].names) : ~IsHost(hello, i, j)

\* Whoever reads the connection after the server has looked at it, rustls or the
\* passthrough pipe, reads the client's bytes from the first on, none lost, twice
\* or out of order, in whatever pieces it asks for them.
HelloIsReplayed == Tls => out = SubSeq(wire, 1, Len(out))
=============================================================================
