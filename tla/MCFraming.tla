------------------------------ MODULE MCFraming ------------------------------
EXTENDS ClientHello, SequencesExt

MCPayloads == BoundedSeq({0, 1}, 3)

\* No CBOR value is empty, and some values are of another type.
MCCbor(payload) == payload # <<>> /\ payload[1] = 1

\* Raw bytes, cut lengths and payloads, lengths one over the limit and far over it.
MCTails ==
    {<<>>, <<1>>, <<0, 0, 0, 0>>, <<0, 0, 0, 2, 1>>, <<0, 0, 0, 3>>, <<1, 0, 0, 0, 1>>}

-----------------------------------------------------------------------------
(* ClientHellos.  The parts that the parser skips over are reduced to their  *)
(* lengths.                                                                  *)

Zeros(n) == [i \in 1..n |-> 0]

Ends(parts) == [i \in 0..Len(parts) |-> Len(FlattenSeq(SubSeq(parts, 1, i)))]

Named(type, name) == [type |-> type, name |-> name]

ServerName(names) ==
    LET parts == [j \in 1..Len(names) |-> NameBytes(names[j])]
    IN  [type |-> 0, names |-> names, list |-> FlattenSeq(parts), ends |-> Ends(parts),
         data |-> Vector(2, FlattenSeq(parts))]

Other(len) == [type |-> 10, names |-> <<>>, data |-> Zeros(len)]

Hello(session_id, suites, extensions, cut) ==
    LET parts == [i \in 1..Len(extensions) |-> ExtensionBytes(extensions[i])]
        h     == [random |-> Zeros(2 + RandomSize), session_id |-> Zeros(session_id),
                  cipher_suites |-> Zeros(suites), compression |-> <<0>>,
                  extensions |-> extensions, data |-> FlattenSeq(parts),
                  ends |-> Ends(parts), sent |-> 0, rest |-> <<7, 8>>]
    IN  [h EXCEPT !.sent = Len(Message(h)) - cut,
                  !.rest = SubSeq(Message(h), Len(Message(h)) - cut + 1, Len(Message(h))) \o @]

\* A name of the longest size, an empty one, one that is too long and one that is
\* no text; a name of another type alone, before and after a host name; the
\* extension missing, empty, twice, and between others.
MCExtensions ==
    LET a == Named(0, <<97, 46>>)
        b == Named(1, <<98>>)
        lists == {<<>>, <<a>>, <<b>>, <<a, b>>, <<b, a>>,
                  <<Named(0, <<>>)>>, <<Named(0, <<97, 46, 97>>)>>, <<Named(0, <<255>>)>>}
    IN  {<<>>, <<Other(1)>>} \cup {<<ServerName(l)>> : l \in lists}
        \cup {<<Other(0), ServerName(l), Other(1)>> : l \in {<<a>>, <<b>>}}
        \cup {<<ServerName(l), ServerName(<<a>>)>> : l \in {<<>>, <<b>>, <<Named(0, <<99>>)>>}}

\* The first record carries all but the last cut bytes of a hello.
MCHellos ==
    {Hello(s, c, e, cut) : s \in {0, 1}, c \in {0, 2}, e \in MCExtensions, cut \in {0, 1, 4}}
=============================================================================
