--------------------------- MODULE MCPublicListener --------------------------
(* Two connections of one address and one of another. *)
EXTENDS PublicListener

CONSTANTS c1, c2, d1, x, y

MCConn == {c1, c2, d1}

MCIpOf == [c \in MCConn |-> IF c = d1 THEN y ELSE x]
=============================================================================
