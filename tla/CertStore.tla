------------------------------ MODULE CertStore ------------------------------
(***************************************************************************)
(* cert.rs, load_or_generate: the tunnel's certificate and key, kept in    *)
(* two files so that every start of the server has the fingerprint that    *)
(* its clients pin.  A start may be cut short at any point: by a crash, by *)
(* a write that fails, or by a later step of start_inner.  A file is       *)
(* opened and truncated before it is filled.                               *)
(***************************************************************************)
EXTENDS Integers

CONSTANT Generations  \* key pairs are generated at most this often

ASSUME CertStoreAssumption == Generations \in Nat

\* A key pair is named by its number; its certificate's digest is as good a name.
Pairs == 1..Generations

NoFile == 0

Cut == -1  \* a file that was truncated and not filled

None == 0

VARIABLES
    cert,      \* what tunnel-cert.pem holds
    key,       \* what tunnel-key.pem holds
    start,     \* where the start of the server is
    pair,      \* the pair that this start has generated
    last,      \* the last pair that was generated
    material,  \* the CertMaterial of the running server
    pinned     \* the fingerprint of the first server that ran, which clients pin

storeVars == <<cert, key, start, pair, last, material, pinned>>

NoMaterial == [cert |-> None, key |-> None]

InitStore ==
    /\ cert = NoFile /\ key = NoFile
    /\ start = "down"
    /\ pair = None /\ last = None
    /\ material = NoMaterial
    /\ pinned = None

\* The server runs with material m.
Runs(m) ==
    /\ start' = "up"
    /\ material' = m
    /\ pinned' = IF pinned = None THEN m.cert ELSE pinned

Load ==
    /\ start' = "load"
    /\ UNCHANGED <<cert, key, pair, last, material, pinned>>

Generate ==
    /\ last < Generations
    /\ last' = last + 1
    /\ pair' = last + 1
    /\ start' = "cert"
    /\ UNCHANGED <<cert, key, material, pinned>>
-----------------------------------------------------------------------------
(* Faulty variants. *)

\* Every start makes a pair of its own.
GenerateAlways == start = "down" /\ Generate

\* One of the two files is enough to load.
LoadIfEither ==
    /\ start = "down"
    /\ IF cert # NoFile \/ key # NoFile THEN Load ELSE Generate
-----------------------------------------------------------------------------
load_or_generate ==
    /\ start = "down"
    /\ IF cert # NoFile /\ key # NoFile THEN Load ELSE Generate

\* A file that is not whole has no PEM section to read, and the start fails.
Loadable == cert \in Pairs /\ key \in Pairs

load ==
    /\ start = "load" /\ Loadable
    /\ Runs([cert |-> cert, key |-> key])
    /\ UNCHANGED <<cert, key, pair, last>>

\* generate writes the certificate, then the key.
TruncateCert ==
    /\ start = "cert"
    /\ cert' = Cut
    /\ start' = "cert_open"
    /\ UNCHANGED <<key, pair, last, material, pinned>>

FillCert ==
    /\ start = "cert_open"
    /\ cert' = pair
    /\ start' = "key"
    /\ UNCHANGED <<key, pair, last, material, pinned>>

TruncateKey ==
    /\ start = "key"
    /\ key' = Cut
    /\ start' = "key_open"
    /\ UNCHANGED <<cert, pair, last, material, pinned>>

FillKey ==
    /\ start = "key_open"
    /\ key' = pair
    /\ Runs([cert |-> pair, key |-> pair])
    /\ UNCHANGED <<cert, pair, last>>

\* The start fails or the server ends: the files stay as they are.
Stops ==
    /\ start # "down"
    /\ start' = "down"
    /\ pair' = None
    /\ material' = NoMaterial
    /\ UNCHANGED <<cert, key, last, pinned>>

NextStore ==
    \/ load_or_generate \/ load
    \/ TruncateCert \/ FillCert \/ TruncateKey \/ FillKey
    \/ Stops

StoreSpec == InitStore /\ [][NextStore]_storeVars
-----------------------------------------------------------------------------
\* Every variable holds a value of its type, and only a server that runs has
\* material.
TypeOK ==
    /\ cert \in Pairs \cup {NoFile, Cut} /\ key \in Pairs \cup {NoFile, Cut}
    /\ start \in {"down", "load", "cert", "cert_open", "key", "key_open", "up"}
    /\ pair \in Pairs \cup {None} /\ last \in 0..Generations
    /\ material \in [cert : Pairs \cup {None}, key : Pairs \cup {None}]
    /\ pinned \in Pairs \cup {None}
    /\ start = "up" <=> material # NoMaterial

\* Every server that runs has the fingerprint of the first one, and the key that
\* belongs to it, wherever earlier starts were cut short.
FingerprintStable ==
    start = "up" => material = [cert |-> pinned, key |-> pinned]

\* A start that finds both files and cannot load them has met a key file that an
\* earlier start truncated and did not fill, and no server has run before: once
\* one has, every start can load its files.
OnlyKeyWriteWedges ==
    (start = "load" /\ ~Loadable) => (cert \in Pairs /\ key = Cut /\ pinned = None)
=============================================================================
