------------------------------ MODULE MCDataPath -----------------------------
EXTENDS DataPath

MCBytes == [d \in Dir |-> IF d = "up" THEN 2 ELSE 1]
=============================================================================
