--------------------------- MODULE ForwardingProofs ---------------------------
(***************************************************************************)
(* A request's way to a tunnel and back.                                   *)
(*                                                                         *)
(* The choice of the tunnel (RoundRobin), for any number of tunnels and    *)
(* lookups and any cursor: a lookup that no other lookup interrupts finds  *)
(* an open tunnel if there is one, and lookups spread evenly over a set of *)
(* tunnels that stays as it is.                                            *)
(*                                                                         *)
(* The proxying (H2Proxy), for any number of requests, limit of streams    *)
(* and addresses.  A step of a request replaces its record; so the         *)
(* invariant says of one record what each stage of proxy may hold, and     *)
(* that the streams held and the free ones add up.  A request comes to an  *)
(* end by the fairness of FairSpec where NeverStuck holds.                 *)
(***************************************************************************)
EXTENDS RoundRobin, H2Proxy, Integers, FiniteSetTheorems, TLAPS

\* A leaf is for Zenon unless it names another backend.
USE Zenon
-----------------------------------------------------------------------------
(* The choice of the tunnel. *)

\* Quotient and remainder.
LEMMA Euclid ==
    ASSUME NEW m \in Nat, NEW n \in Nat \ {0}
    PROVE  /\ m \div n \in Nat /\ m % n \in 0..(n - 1)
           /\ m = n * (m \div n) + (m % n)
BY SMT

\* A multiple of n that lies between -n and n is 0.
LEMMA SmallMultiple ==
    ASSUME NEW n \in Nat \ {0}, NEW x \in Int, n * x < n, n * x > 0 - n
    PROVE  x = 0
<1>1. CASE x >= 1
  <2>1. n * x >= n
    BY <1>1, SMT
  <2> QED
    BY SMTT(30), <2>1
<1>2. CASE x <= 0 - 1
  <2>1. n * x <= 0 - n
    BY <1>2, SMT
  <2> QED
    BY SMTT(30), <2>1
<1> QED
  BY SMTT(30), <1>1, <1>2

\* The remainder of n * q + i is i.
LEMMA ModUnique ==
    ASSUME NEW n \in Nat \ {0}, NEW q \in Nat, NEW i \in 0..(n - 1)
    PROVE  (n * q + i) % n = i
<1> DEFINE m == n * q + i
           d == m \div n
           r == m % n
<1>1. n * q \in Nat /\ m \in Nat
  BY SMT
<1>2. d \in Nat /\ r \in 0..(n - 1) /\ n * q + i = n * d + r
  BY <1>1, Euclid, Zenon
<1> HIDE DEF m, d, r
<1>3. n * (q - d) = n * q - n * d
  BY <1>2, SMT
<1>4. q - d = 0
  <2>1. n * (q - d) = r - i
    BY SMTT(30), <1>1, <1>2, <1>3
  <2>2. r - i < n /\ r - i > 0 - n
    BY SMTT(30), <1>2
  <2>3. q - d \in Int
    BY SMTT(30), <1>2
  <2> QED
    BY <2>1, <2>2, <2>3, SmallMultiple
<1>5. q = d
  BY SMTT(30), <1>2, <1>4
<1>6. r = i
  BY SMTT(30), <1>1, <1>2, <1>5
<1> QED
  BY <1>6 DEF r, m

\* n successive values of the cursor visit every index.
LEMMA CursorCovers ==
    ASSUME NEW n \in Nat \ {0}, NEW m \in Nat, m >= n - 1, NEW i \in 0..(n - 1)
    PROVE  \E j \in 0..(n - 1) : (m - j) % n = i
<1> DEFINE q == m \div n
           r == m % n
<1>0. q \in Nat /\ r \in 0..(n - 1) /\ m = n * q + r
  BY Euclid, Zenon
<1> HIDE DEF q, r
<1>1. q \in Nat /\ r \in 0..(n - 1) /\ m = n * q + r /\ n * q \in Nat
  BY <1>0, SMT
<1>2. CASE i <= r
  <2>1. m - (r - i) = n * q + i /\ r - i \in 0..(n - 1)
    BY SMTT(30), <1>1, <1>2
  <2> QED
    BY <1>1, <2>1, ModUnique, Zenon
<1>3. CASE i > r
  <2>1. q # 0
    <3>1. q = 0 => n * q = 0
      BY SMT
    <3> QED
      BY SMTT(30), <1>1, <1>3, <3>1
  <2>2. q - 1 \in Nat /\ n * (q - 1) = n * q - n
    BY <1>1, <2>1, SMT
  <2>3. m - (r - i + n) = n * (q - 1) + i /\ r - i + n \in 0..(n - 1)
    BY SMTT(30), <1>1, <1>3, <2>2
  <2> QED
    BY <2>2, <2>3, ModUnique, Zenon
<1> QED
  BY SMTT(30), <1>1, <1>2, <1>3

\* n successive values of the cursor visit every index, from any value on.
LEMMA CursorReaches ==
    ASSUME NEW n \in Nat \ {0}, NEW m \in Nat, NEW i \in 0..(n - 1)
    PROVE  \E j \in 0..(n - 1) : (m + j) % n = i
<1>1. m + (n - 1) \in Nat /\ m + (n - 1) >= n - 1
  BY SMTT(30)
<1>2. PICK j \in 0..(n - 1) : ((m + (n - 1)) - j) % n = i
  BY <1>1, CursorCovers, Zenon
<1>3. (m + (n - 1)) - j = m + ((n - 1) - j) /\ (n - 1) - j \in 0..(n - 1)
  BY SMTT(30)
<1> QED
  BY <1>2, <1>3, Zenon

\* After n steps, and not before, the cursor is back at the same index.
LEMMA CursorReturns ==
    ASSUME NEW n \in Nat \ {0}, NEW m \in Nat
    PROVE  /\ (m + n) % n = m % n
           /\ \A j \in 1..(n - 1) : (m + j) % n # m % n
<1>1. PICK q \in Nat, r \in 0..(n - 1) : m = n * q + r /\ m % n = r /\ n * q \in Nat
  <2>1. m \div n \in Nat /\ m % n \in 0..(n - 1) /\ m = n * (m \div n) + (m % n)
    BY Euclid, Zenon
  <2> DEFINE d == m \div n
             r == m % n
  <2>2. d \in Nat /\ r \in 0..(n - 1) /\ m = n * d + r
    BY <2>1
  <2> HIDE DEF d, r
  <2>3. n * d \in Nat
    BY <2>2, SMT
  <2> QED
    BY <2>2, <2>3, Zenon DEF r
<1>2. (m + n) % n = r
  <2>1. m + n = n * (q + 1) + r
    BY <1>1, SMT
  <2>2. q + 1 \in Nat
    BY SMTT(30)
  <2> QED
    BY <2>1, <2>2, ModUnique, Zenon
<1>3. ASSUME NEW j \in 1..(n - 1) PROVE (m + j) % n # r
  <2>1. CASE r + j < n
    <3>1. m + j = n * q + (r + j) /\ r + j \in 0..(n - 1)
      BY SMTT(30), <1>1, <2>1
    <3>2. (m + j) % n = r + j
      BY <3>1, ModUnique, Zenon
    <3> QED
      BY SMTT(30), <3>2
  <2>2. CASE r + j >= n
    <3>1. n * (q + 1) = n * q + n /\ q + 1 \in Nat
      BY SMT
    <3>2. m + j = n * (q + 1) + (r + j - n) /\ r + j - n \in 0..(n - 1)
      BY SMTT(30), <1>1, <2>2, <3>1
    <3>3. (m + j) % n = r + j - n
      BY <3>1, <3>2, ModUnique, ZenonT(60)
    <3> QED
      BY SMTT(30), <3>3
  <2> QED
    BY SMTT(30), <2>1, <2>2
<1> QED
  BY <1>1, <1>2, <1>3

\* The inductive invariant.
RInv == TypeOK /\ SeenClosed

\* The invariant holds at first, when the hostname has no entry.
LEMMA InitRInv == InitLookup => RInv
BY SMTT(30), RoundRobinAssumption DEF InitLookup, RInv, TypeOK, SeenClosed, Members, NoneServed

\* conns without its i-th connection has no duplicates either.
LEMMA WithoutType ==
    ASSUME TypeOK, NEW i \in DOMAIN conns
    PROVE  /\ Without(conns, i) \in Seq(Conn)
           /\ Len(Without(conns, i)) = Len(conns) - 1
           /\ \A j, k \in DOMAIN Without(conns, i) :
                 Without(conns, i)[j] = Without(conns, i)[k] => j = k
           /\ \A d \in Members : d # conns[i] =>
                 \E j \in DOMAIN Without(conns, i) : Without(conns, i)[j] = d
<1> DEFINE s == Without(conns, i)
           n == Len(conns)
<1>1. conns \in Seq(Conn) /\ n \in Nat /\ DOMAIN conns = 1..n /\ i \in 1..n
  BY SMTT(30) DEF TypeOK
<1>2. \A j \in 1..n : conns[j] \in Conn
  BY SMTT(30), <1>1
<1>3. /\ DOMAIN s = 1..(n - 1)
      /\ \A j \in 1..(n - 1) : s[j] = IF j < i THEN conns[j] ELSE conns[j + 1]
  BY <1>1 DEF Without
<1>4. s \in Seq(Conn) /\ Len(s) = n - 1
  <2>1. n - 1 \in Nat
    BY SMTT(30), <1>1
  <2>2. s \in [1..(n - 1) -> Conn]
    BY SMTT(30), <1>1, <1>2 DEF Without
  <2> HIDE DEF s, n
  <2> QED
    BY SMTT(30), <2>1, <2>2
<1>5. ASSUME NEW j \in DOMAIN s, NEW k \in DOMAIN s, s[j] = s[k] PROVE j = k
  <2> DEFINE at(l) == IF l < i THEN l ELSE l + 1
  <2>1. j \in 1..(n - 1) /\ k \in 1..(n - 1)
    BY <1>3
  <2>2. at(j) \in 1..n /\ at(k) \in 1..n
    BY SMTT(30), <1>1, <2>1
  <2>3. s[j] = conns[at(j)] /\ s[k] = conns[at(k)]
    BY <1>3, <2>1
  <2>4. at(j) = at(k)
    BY <1>1, <1>5, <2>2, <2>3, Zenon DEF TypeOK
  <2> QED
    BY SMTT(30), <1>1, <2>1, <2>4
<1>6. ASSUME NEW d \in Members, d # conns[i]
      PROVE  \E j \in DOMAIN s : s[j] = d
  <2>1. PICK k \in 1..n : conns[k] = d
    BY <1>1 DEF Members
  <2>2. CASE k < i
    BY SMTT(30), <1>1, <1>3, <2>1, <2>2
  <2>3. CASE k > i
    <3>1. k - 1 \in 1..(n - 1) /\ ~(k - 1 < i) /\ (k - 1) + 1 = k
      BY SMTT(30), <1>1, <2>3
    <3> QED
      BY <1>3, <2>1, <3>1
  <2> QED
    BY SMTT(30), <1>1, <1>6, <2>1, <2>2, <2>3
<1> QED
  BY <1>4, <1>5, <1>6

\* The steps of the writers and of connections preserve the invariant.
LEMMA WriterSteps ==
    ASSUME RInv, NEW c \in Conn,
           InstallAdds(c) \/ InstallReplaces(c) \/ Remove(c) \/ Close(c) \/ KickHost
    PROVE  RInv'
<1> USE DEF RInv
<1>1. ASSUME Running = {}, left' = left PROVE SeenClosed' /\ \A p \in Lookup : left[p] = 0
  BY SMTT(30), <1>1 DEF TypeOK, SeenClosed, Running
<1>2. CASE InstallAdds(c)
  <2>1. CASE c \in Members
    BY <1>2, <2>1, ZenonT(60) DEF InstallAdds, TypeOK, Members, SeenClosed
  <2>2. CASE c \notin Members
    <3>1. conns' = Append(conns, c) /\ served' = NoneServed
      BY <1>2, <2>2 DEF InstallAdds
    <3>2. conns' \in Seq(Conn) /\ Len(conns') = Len(conns) + 1
      BY SMTT(30), <3>1 DEF TypeOK
    <3>3. \A i, j \in DOMAIN conns' : conns'[i] = conns'[j] => i = j
      BY <2>2, <3>1, SMTT(30) DEF TypeOK, Members
    <3>4. closed' \subseteq Members'
      <4>1. \A i \in DOMAIN conns : i \in DOMAIN conns' /\ conns'[i] = conns[i]
        BY SMTT(30), <3>1 DEF TypeOK
      <4>2. closed' = closed /\ closed \subseteq Members
        BY <1>2 DEF InstallAdds, TypeOK
      <4> QED
        BY <4>1, <4>2 DEF Members
    <3> QED
      BY SMTT(30), <1>1, <1>2, <3>1, <3>2, <3>3, <3>4 DEF InstallAdds, TypeOK, NoneServed
  <2> QED
    BY <2>1, <2>2
<1>3. CASE InstallReplaces(c)
  <2>1. conns' \in Seq(Conn) /\ \A i, j \in DOMAIN conns' : conns'[i] = conns'[j] => i = j
    BY SMTT(30), <1>3 DEF InstallReplaces
  <2> QED
    BY SMTT(30), <1>1, <1>3, <2>1 DEF InstallReplaces, TypeOK, NoneServed
<1>4. CASE Remove(c)
  <2>1. PICK i \in DOMAIN conns : conns[i] = c /\ conns' = Without(conns, i)
    BY <1>4 DEF Remove
  <2>2. /\ conns' \in Seq(Conn) /\ Len(conns') \in Nat
        /\ \A j, k \in DOMAIN conns' : conns'[j] = conns'[k] => j = k
    BY SMTT(30), <2>1, WithoutType
  <2>3. closed' \subseteq Members'
    <3>1. closed' = closed \ {c} /\ closed \subseteq Members
      BY <1>4 DEF Remove, TypeOK
    <3>2. \A d \in Members : d # c => \E j \in DOMAIN conns' : conns'[j] = d
      BY <2>1, WithoutType
    <3> QED
      BY <3>1, <3>2 DEF Members
  <2> QED
    BY <1>1, <1>4, <2>2, <2>3, SMTT(30) DEF Remove, TypeOK, NoneServed
<1>5. CASE Close(c)
  <2>1. /\ closed' = closed \cup {c} /\ c \in Members /\ served' = NoneServed
        /\ UNCHANGED <<conns, cursor, left, result, disturbed>>
    BY <1>5 DEF Close
  <2>2. Members' = Members
    BY <2>1 DEF Members
  <2>3. TypeOK'
    BY <2>1, <2>2 DEF TypeOK, NoneServed
  <2>4. SeenClosed'
    BY <2>1 DEF SeenClosed
  <2> QED
    BY <2>3, <2>4
<1>6. CASE KickHost
  <2>1. /\ Running = {} /\ conns' = <<>> /\ cursor' = 0 /\ closed' = {}
        /\ served' = NoneServed /\ UNCHANGED <<left, result, disturbed>>
    BY <1>6 DEF KickHost
  <2>2. SeenClosed' /\ \A p \in Lookup : left[p] = 0
    BY <1>1, <2>1
  <2>3. conns' \in Seq(Conn) /\ Len(conns') = 0 /\ DOMAIN conns' = {}
    BY SMTT(30), <2>1
  <2>4. left' \in [Lookup -> 0..Len(conns')]
    BY SMTT(30), <2>1, <2>2, <2>3 DEF TypeOK
  <2> QED
    BY <2>1, <2>2, <2>3, <2>4 DEF TypeOK, NoneServed
<1> QED
  BY <1>2, <1>3, <1>4, <1>5, <1>6

\* The connection a probe looks at is one of conns.
LEMMA ProbedType ==
    ASSUME TypeOK, NEW p \in Lookup, left[p] > 0
    PROVE  /\ Len(conns) \in Nat \ {0}
           /\ (cursor % Len(conns)) + 1 \in DOMAIN conns
           /\ conns[(cursor % Len(conns)) + 1] \in Conn
<1>1. Len(conns) \in Nat \ {0} /\ DOMAIN conns = 1..Len(conns) /\ cursor \in Nat
  BY SMTT(30) DEF TypeOK
<1>2. cursor % Len(conns) \in 0..(Len(conns) - 1)
  BY <1>1, Euclid, ZenonT(30)
<1>3. (cursor % Len(conns)) + 1 \in DOMAIN conns
  BY SMTT(30), <1>1, <1>2
<1> QED
  BY SMTT(30), <1>1, <1>3 DEF TypeOK

\* The steps of lookups preserve the invariant.
LEMMA LookupSteps ==
    ASSUME RInv, NEW p \in Lookup, Begin(p) \/ Probe(p)
    PROVE  RInv'
<1> USE DEF RInv
<1>1. CASE Begin(p)
  <2>1. TypeOK'
    BY SMTT(30), <1>1 DEF Begin, TypeOK, Members
  <2>2. SeenClosed'
    BY <1>1, SMTT(30) DEF Begin, TypeOK, SeenClosed
  <2> QED
    BY <2>1, <2>2
<1>2. CASE Probe(p)
  <2> DEFINE n == Len(conns)
             c == conns[(cursor % n) + 1]
  <2>1. n \in Nat \ {0} /\ c \in Conn /\ cursor \in Nat /\ cursor' = cursor + 1
    BY <1>2, ProbedType DEF Probe, TypeOK
  <2>2. TypeOK'
    <3>1. CASE c \in closed
      <4>1. /\ left[p] > 0 /\ left' = [left EXCEPT ![p] = @ - 1]
            /\ disturbed' = disturbed \cup (Running \ {p})
            /\ UNCHANGED <<conns, closed, result, served>>
        BY <1>2, <3>1 DEF Probe
      <4>2. left' \in [Lookup -> 0..Len(conns')]
        BY SMTT(30), <4>1 DEF TypeOK
      <4>3. Members' = Members
        BY <4>1 DEF Members
      <4> HIDE DEF c
      <4> QED
        BY SMTT(30), <2>1, <4>1, <4>2, <4>3 DEF TypeOK, Running
    <3>2. CASE c \notin closed
      <4>1. /\ left' = [left EXCEPT ![p] = 0]
            /\ result' = [result EXCEPT ![p] = c]
            /\ served' = [served EXCEPT ![c] = @ + 1]
            /\ disturbed' = disturbed \cup (Running \ {p})
            /\ UNCHANGED <<conns, closed>>
        BY <1>2, <3>2 DEF Probe
      <4> HIDE DEF c
      <4> QED
        BY SMTT(30), <2>1, <4>1 DEF TypeOK, Members, Running
    <3> QED
      BY <3>1, <3>2
  <2>3. ASSUME NEW q \in Lookup, left'[q] > 0, q \notin disturbed',
               NEW j \in 1..(n - left'[q])
        PROVE  j <= cursor' /\ conns[((cursor' - j) % n) + 1] \in closed
    <3>1. q = p /\ p \notin disturbed
      BY <1>2, <2>3 DEF Probe, TypeOK, Running
    <3>2. c \in closed /\ left'[p] = left[p] - 1 /\ left[p] \in 0..n
      BY SMTT(30), <1>2, <2>3, <3>1 DEF Probe, TypeOK
    <3>3. CASE j = 1
      <4>1. cursor' - j = cursor
        BY SMTT(30), <2>1, <3>3
      <4> QED
        BY SMTT(30), <2>1, <3>2, <3>3, <4>1
    <3>4. CASE j # 1
      <4>1. /\ j - 1 \in 1..(n - left[p]) /\ cursor' - j = cursor - (j - 1)
            /\ left[p] > 0
        BY SMTT(30), <1>2, <2>1, <2>3, <3>1, <3>2, <3>4 DEF Probe
      <4>2. j - 1 <= cursor /\ conns[((cursor - (j - 1)) % n) + 1] \in closed
        BY <3>1, <4>1 DEF SeenClosed
      <4> QED
        BY SMTT(30), <2>1, <4>1, <4>2
    <3> QED
      BY <3>3, <3>4
  <2>4. SeenClosed'
    BY <1>2, <2>3 DEF SeenClosed, Probe
  <2> QED
    BY <2>2, <2>4
<1> QED
  BY <1>1, <1>2

\* Every step preserves the invariant.
LEMMA NextRInv == RInv /\ [NextLookup]_lookupVars => RInv'
<1> SUFFICES ASSUME RInv, [NextLookup]_lookupVars PROVE RInv'
  OBVIOUS
<1>1. CASE UNCHANGED lookupVars
  BY <1>1 DEF lookupVars, RInv, TypeOK, SeenClosed, Members
<1>2. CASE KickHost
  BY SMTT(30), <1>2 DEF KickHost, RInv, TypeOK, SeenClosed, Members, NoneServed, Running
<1> QED
  BY <1>1, <1>2, WriterSteps, LookupSteps DEF NextLookup

\* The invariant holds in every reachable state.
THEOREM RoundRobinInvariance == LookupSpec => []RInv
BY InitRInv, NextRInv, PTL DEF LookupSpec

\* conns holds every connection once, and the cursor always selects one of them.
THEOREM RoundRobinTypes == LookupSpec => []TypeOK
<1>1. RInv => TypeOK
  BY DEF RInv
<1> QED
  BY <1>1, RoundRobinInvariance, PTL

\* A lookup during which no other lookup advanced the cursor returns None only
\* when every tunnel of the hostname is closed: its probes are len(conns)
\* successive cursor values, and those visit every index.
THEOREM UndisturbedLookups == LookupSpec => UndisturbedFinds
<1>1. ASSUME RInv, [NextLookup]_lookupVars, NEW p \in Lookup, GivesUp(p), p \notin disturbed
      PROVE  Members = closed
  <2> DEFINE n == Len(conns)
  <2>1. /\ Probe(p) /\ left[p] = 1 /\ n \in Nat \ {0} /\ cursor \in Nat
        /\ DOMAIN conns = 1..n
    <3>1. left[p] = 1 /\ left'[p] = 0
      BY <1>1 DEF GivesUp
    <3>2. TypeOK
      BY <1>1 DEF RInv
    <3>3. ASSUME NEW q \in Lookup, Begin(q) PROVE FALSE
      BY SMTT(30), <3>1, <3>2, <3>3 DEF Begin, TypeOK
    <3>4. ASSUME NEW q \in Lookup, Probe(q) PROVE q = p
      BY SMTT(30), <3>1, <3>2, <3>4 DEF Probe, TypeOK
    <3>5. left' # left
      BY SMTT(30), <3>1
    <3>6. Probe(p)
      BY <1>1, <3>3, <3>4, <3>5 DEF NextLookup, lookupVars, InstallAdds, InstallReplaces, Remove,
         Close, KickHost
    <3> QED
      BY SMTT(30), <3>1, <3>2, <3>6, ProbedType DEF TypeOK
  <2>2. conns[(cursor % n) + 1] \in closed
    BY <1>1, <2>1, ProbedType, RoundRobinAssumption DEF GivesUp, Probe, RInv, TypeOK
  <2>3. \A j \in 1..(n - 1) : j <= cursor /\ conns[((cursor - j) % n) + 1] \in closed
    <3>1. left[p] > 0 /\ n - left[p] = n - 1
      BY SMTT(30), <2>1
    <3> QED
      BY <1>1, <3>1 DEF RInv, SeenClosed
  <2>4. cursor >= n - 1
    <3>1. CASE n = 1
      BY SMTT(30), <2>1, <3>1
    <3>2. CASE n # 1
      BY SMTT(30), <2>1, <2>3, <3>2
    <3> QED
      BY <3>1, <3>2
  <2>5. ASSUME NEW i \in 1..n PROVE conns[i] \in closed
    <3>1. i - 1 \in 0..(n - 1) /\ (i - 1) + 1 = i
      BY SMTT(30), <2>1
    <3>2. PICK j \in 0..(n - 1) : (cursor - j) % n = i - 1
      BY <2>1, <2>4, <3>1, CursorCovers, Zenon
    <3>3. CASE j = 0
      <4>1. cursor - j = cursor
        BY SMTT(30), <2>1, <3>3
      <4> QED
        BY <2>2, <3>1, <3>2, <4>1
    <3>4. CASE j # 0
      <4>1. j \in 1..(n - 1)
        BY SMTT(30), <2>1, <3>4
      <4> QED
        BY <2>3, <3>1, <3>2, <4>1
    <3> QED
      BY <3>3, <3>4
  <2> QED
    BY SMTT(30), <1>1, <2>1, <2>5 DEF RInv, TypeOK, Members
<1>2. RInv /\ [NextLookup]_lookupVars =>
         [\A p \in Lookup : GivesUp(p) /\ p \notin disturbed => Members = closed]_lookupVars
  BY <1>1
<1> QED
  BY <1>2, RoundRobinInvariance, PTL DEF LookupSpec, UndisturbedFinds

\* Every value of the cursor selects a connection.
LEMMA TunnelAtType ==
    ASSUME TypeOK, NEW j \in 0..(Len(conns) - 1)
    PROVE  TunnelAt(cursor + j) \in Conn
<1>1. /\ Len(conns) \in Nat \ {0} /\ DOMAIN conns = 1..Len(conns) /\ cursor + j \in Nat
      /\ \A i \in DOMAIN conns : conns[i] \in Conn
  BY SMTT(30) DEF TypeOK
<1>2. (cursor + j) % Len(conns) \in 0..(Len(conns) - 1)
  BY <1>1, Euclid, Zenon
<1>3. ((cursor + j) % Len(conns)) + 1 \in DOMAIN conns
  BY SMTT(30), <1>1, <1>2
<1> QED
  BY <1>1, <1>3 DEF TunnelAt

\* The tunnel at the cursor is also the one that it comes to after all others.
LEMMA TunnelComesBack ==
    ASSUME TypeOK, NEW n \in Nat \ {0}, n = Len(conns)
    PROVE  /\ TunnelAt(cursor + n) = TunnelAt(cursor)
           /\ \A j \in 1..(n - 1) : TunnelAt(cursor + j) # TunnelAt(cursor)
<1>1. DOMAIN conns = 1..n /\ cursor \in Nat
  BY SMTT(30) DEF TypeOK
<1>2. TunnelAt(cursor + n) = TunnelAt(cursor)
  BY <1>1, CursorReturns, Zenon DEF TunnelAt
<1>3. ASSUME NEW j \in 1..(n - 1) PROVE TunnelAt(cursor + j) # TunnelAt(cursor)
  <2>1. (cursor + j) % n # cursor % n
    BY <1>1, CursorReturns, Zenon
  <2>2. cursor + j \in Nat
    BY SMTT(30), <1>1
  <2>3. (cursor + j) % n \in 0..(n - 1) /\ cursor % n \in 0..(n - 1)
    BY <1>1, <2>2, Euclid, Zenon
  <2>4. /\ ((cursor + j) % n) + 1 # (cursor % n) + 1
        /\ ((cursor + j) % n) + 1 \in DOMAIN conns /\ (cursor % n) + 1 \in DOMAIN conns
    BY <1>1, <2>1, <2>3, SMTT(30)
  <2> QED
    BY <2>4 DEF TypeOK, TunnelAt
<1> QED
  BY <1>2, <1>3

\* The tunnels are in turn when the counts start anew.
LEMMA AnewInTurn == TypeOK /\ served = NoneServed => InTurn
<1> SUFFICES ASSUME TypeOK, served = NoneServed,
                    NEW j \in 0..(Len(conns) - 1), NEW k \in 0..(Len(conns) - 1)
             PROVE  served[TunnelAt(cursor + j)] = 0 /\ served[TunnelAt(cursor + k)] = 0
  BY SMTT(30) DEF InTurn
<1> QED
  BY TunnelAtType DEF NoneServed

\* A probe keeps the tunnels in turn: the one it serves was first, with as few
\* lookups as any, and is last then.
LEMMA ProbeInTurn ==
    ASSUME TypeOK, InTurn, NEW p \in Lookup, Probe(p)
    PROVE  InTurn'
<1>1. PICK n \in Nat \ {0} : n = Len(conns)
  BY ProbedType DEF Probe
<1>2. PICK c \in Conn : c = TunnelAt(cursor)
  BY ProbedType DEF Probe, TunnelAt
<1>3. cursor \in Nat /\ cursor' = cursor + 1 /\ conns' = conns /\ closed' = closed
  BY ZenonT(30) DEF Probe, TypeOK
<1> SUFFICES ASSUME closed = {}, NEW j \in 0..(n - 1), NEW k \in 0..(n - 1), j <= k
             PROVE  /\ served'[TunnelAt(cursor' + j)] <= served'[TunnelAt(cursor' + k)]
                    /\ served'[TunnelAt(cursor' + k)] <= served'[TunnelAt(cursor' + j)] + 1
  BY <1>1, <1>3 DEF InTurn, TunnelAt
<1> DEFINE before(i) == served[TunnelAt(cursor + i)]
           after(i)  == served'[TunnelAt(cursor' + i)]
<1>4. served' = [served EXCEPT ![c] = @ + 1] /\ served \in [Conn -> Nat]
  BY <1>2 DEF Probe, TypeOK, TunnelAt
<1>5. ASSUME NEW i \in 0..(n - 1), i < n - 1
      PROVE  i + 1 \in 0..(n - 1) /\ after(i) = before(i + 1)
  <2>1. cursor' + i = cursor + (i + 1) /\ i + 1 \in 1..(n - 1) /\ i + 1 \in 0..(n - 1)
    BY SMTT(30), <1>3, <1>5
  <2>2. TunnelAt(cursor + (i + 1)) # c /\ TunnelAt(cursor + (i + 1)) \in Conn
    BY <1>1, <1>2, <2>1, TunnelComesBack, TunnelAtType
  <2> QED
    BY <1>4, <2>1, <2>2
<1>6. after(n - 1) = before(0) + 1
  <2>1. cursor' + (n - 1) = cursor + n /\ cursor + 0 = cursor
    BY SMTT(30), <1>3
  <2>2. TunnelAt(cursor + n) = c
    BY <1>1, <1>2, TunnelComesBack
  <2> QED
    BY <1>2, <1>4, <2>1, <2>2
<1>7. \A i \in 0..(n - 1) : before(i) \in Nat
  BY <1>1, <1>4, TunnelAtType
<1>8. \A a, b \in 0..(n - 1) : a <= b => before(a) <= before(b) /\ before(b) <= before(a) + 1
  BY <1>1 DEF InTurn
<1> HIDE DEF before, after
<1>9. 0 \in 0..(n - 1) /\ n - 1 \in 0..(n - 1)
  BY SMTT(30)
<1>10. after(j) <= after(k) /\ after(k) <= after(j) + 1
  <2>1. CASE j = n - 1
    <3>1. k = n - 1
      BY SMTT(30), <2>1
    <3> QED
      BY SMTT(30), <1>6, <1>7, <1>9, <2>1, <3>1
  <2>2. CASE j < n - 1 /\ k = n - 1
    <3>1. after(j) = before(j + 1) /\ j + 1 \in 0..(n - 1) /\ 0 <= j + 1
      BY SMTT(30), <1>5, <2>2
    <3>2. before(0) <= before(j + 1) /\ before(j + 1) <= before(0) + 1
      BY <1>8, <1>9, <3>1
    <3> QED
      BY SMTT(30), <1>6, <1>7, <1>9, <2>2, <3>1, <3>2
  <2>3. CASE j < n - 1 /\ k < n - 1
    <3>1. /\ after(j) = before(j + 1) /\ after(k) = before(k + 1)
          /\ j + 1 \in 0..(n - 1) /\ k + 1 \in 0..(n - 1) /\ j + 1 <= k + 1
      BY SMTT(30), <1>5, <2>3
    <3> QED
      BY <1>8, <3>1
  <2> QED
    BY SMTT(30), <2>1, <2>2, <2>3
<1> QED
  BY <1>10 DEF after

\* Every step keeps the tunnels in turn.
LEMMA NextInTurn == RInv /\ InTurn /\ [NextLookup]_lookupVars => InTurn'
<1> SUFFICES ASSUME RInv, InTurn, [NextLookup]_lookupVars PROVE InTurn'
  OBVIOUS
<1>1. TypeOK /\ TypeOK'
  BY NextRInv DEF RInv
<1>2. CASE UNCHANGED <<conns, cursor, closed, served>>
  BY <1>2 DEF InTurn, TunnelAt
<1>3. CASE served' = NoneServed
  <2>1. (TypeOK /\ served = NoneServed => InTurn)'
    BY AnewInTurn, PTL
  <2>2. (served = NoneServed)'
    BY <1>3 DEF NoneServed
  <2> QED
    BY <1>1, <2>1, <2>2
<1>4. ASSUME NEW p \in Lookup, Probe(p) PROVE InTurn'
  BY <1>1, <1>4, ProbeInTurn
<1>5. ASSUME NEW c \in Conn, InstallAdds(c) PROVE InTurn'
  BY <1>2, <1>3, <1>5 DEF InstallAdds
<1>6. ASSUME NEW c \in Conn, InstallReplaces(c) \/ Remove(c) \/ Close(c) PROVE InTurn'
  BY <1>3, <1>6 DEF InstallReplaces, Remove, Close
<1>7. CASE KickHost
  BY <1>3, <1>7 DEF KickHost
<1>8. ASSUME NEW p \in Lookup, Begin(p) PROVE InTurn'
  BY <1>2, <1>8 DEF Begin
<1>9. CASE UNCHANGED lookupVars
  BY <1>2, <1>9 DEF lookupVars
<1> QED
  BY <1>4, <1>5, <1>6, <1>7, <1>8, <1>9 DEF NextLookup

\* While the same tunnels stay open, none of them wins two lookups more than
\* another, for any number of tunnels and lookups, any cursor and any interleaving
\* of their probes.
THEOREM SpreadIsEven == LookupSpec => []RoundRobinSpread
<1>1. InitLookup => InTurn
  BY SMTT(30) DEF InitLookup, InTurn
<1>2. ASSUME TypeOK, InTurn, closed = {}, NEW c \in Members, NEW d \in Members
      PROVE  served[c] <= served[d] + 1
  <2>1. PICK x \in DOMAIN conns, y \in DOMAIN conns : conns[x] = c /\ conns[y] = d
    BY DEF Members
  <2>2. PICK n \in Nat \ {0} : n = Len(conns) /\ DOMAIN conns = 1..n
    BY SMTT(30), <1>2, <2>1 DEF TypeOK
  <2>3. cursor \in Nat /\ x - 1 \in 0..(n - 1) /\ y - 1 \in 0..(n - 1)
    BY <1>2, <2>2, SMTT(30) DEF TypeOK
  <2>4. PICK j \in 0..(n - 1) : (cursor + j) % n = x - 1
    BY <2>3, CursorReaches, Zenon
  <2>5. PICK k \in 0..(n - 1) : (cursor + k) % n = y - 1
    BY <2>3, CursorReaches, Zenon
  <2>6. TunnelAt(cursor + j) = c /\ TunnelAt(cursor + k) = d
    BY SMTT(30), <2>1, <2>2, <2>4, <2>5 DEF TunnelAt
  <2>7. served[c] \in Nat /\ served[d] \in Nat
    BY <1>2, <2>2, <2>6, TunnelAtType, ZenonT(30) DEF TypeOK
  <2>8. CASE j <= k
    BY <1>2, <2>2, <2>6, <2>7, <2>8, SMTT(30) DEF InTurn
  <2>9. CASE k <= j
    BY <1>2, <2>2, <2>6, <2>7, <2>9 DEF InTurn
  <2> QED
    BY SMTT(30), <2>8, <2>9
<1>3. RInv /\ InTurn => RoundRobinSpread
  BY <1>2 DEF RInv, RoundRobinSpread
<1> QED
  BY <1>1, <1>3, NextInTurn, RoundRobinInvariance, PTL DEF LookupSpec

-----------------------------------------------------------------------------
(* The proxying. *)

Ways == {"plain", "websocket", "upgrade", "connect"}

Before == {"none", "lookup", "open_bi", "dial", "pool"}

Between == {"header", "serve", "handshake", "send", "upgrade"}

Headers == {NoHeaders} \cup {set_client_address(cf) : cf \in Cf}

Record ==
    [pc : Before \cup Between \cup {"body", "done"}, kind : Ways,
     io : {"none", "tunnel", "own", "pooled"}, cf : Cf \cup {"none"}, headers : Headers,
     response : {"none", "502", "101", "200", "backend"},
     splice : {"none", "waits", "runs", "over"}]

\* A request has no backend connection before one is made, has one of its own until
\* it is answered, and keeps it only for a splice; a pooled one serves only plain
\* requests.
Stage(q) ==
    /\ q.pc \in Before => q.io = "none"
    /\ q.pc \in Between => q.io \in {"tunnel", "own"}
    /\ q.pc = "pool" => q.kind = "plain"
    /\ q.io = "pooled" => q.pc = "body" /\ q.kind = "plain"
    /\ q.pc # "done" => q.splice = "none"
    /\ q.splice \in {"waits", "runs"} => q.io \in {"tunnel", "own"}
    /\ q.pc = "done" /\ q.splice \in {"none", "over"} => q.io = "none"

\* The headers are those of set_client_address from the start.
Told(q) == q.pc # "none" => q.headers = set_client_address(q.cf)

Holders == {r \in Req : Holds(r)}

Types == req \in [Req -> Record] /\ credit \in Nat

IInv ==
    /\ Types
    /\ \A r \in Req : Stage(req[r]) /\ Told(req[r])
    /\ StreamsAddUp
-----------------------------------------------------------------------------
LEMMA HoldersFinite == IsFiniteSet(Holders) /\ Cardinality(Holders) \in Nat
<1>1. IsFiniteSet(Holders)  BY ProxyAssumption, FS_Subset DEF Holders
<1> QED  BY <1>1, FS_CardinalityType

LEMMA InitInv == Init => IInv
<1> SUFFICES ASSUME Init PROVE IInv
  OBVIOUS
<1>1. req \in [Req -> Record]  BY DEF Init, Record, Before, Ways, Headers
<1>2. \A r \in Req : Stage(req[r]) /\ Told(req[r])
  BY DEF Init, Stage, Told, Before, Between
<1>3. {r \in Req : Holds(r)} = {}  BY DEF Init, Holds
<1>4. credit = Credit /\ Credit \in Nat  BY ProxyAssumption DEF Init
<1>5. StreamsAddUp  BY <1>3, <1>4, FS_EmptySet, SMTT(30) DEF StreamsAddUp
<1> QED  BY <1>1, <1>2, <1>4, <1>5 DEF IInv, Types

-----------------------------------------------------------------------------
(* A step of one request: the others keep their records, and its stream is   *)
(* kept, given back, or taken from the free ones.                            *)

Accounts(r) ==
    \/ credit' = credit /\ (Holds(r)' <=> Holds(r))
    \/ credit' = credit + Returned(r) /\ ~Holds(r)'
    \/ credit' = credit - 1 /\ credit > 0 /\ ~Holds(r) /\ Holds(r)'

OneStep(r) ==
    /\ UNCHANGED conn
    /\ req' = [req EXCEPT ![r] = req'[r]]
    /\ req'[r] \in Record /\ Stage(req'[r]) /\ Told(req'[r])
    /\ Accounts(r)

LEMMA OneStepInv == ASSUME IInv, NEW r \in Req, OneStep(r) PROVE IInv'
<1>1. /\ req' \in [Req -> Record]
      /\ \A q \in Req : q # r => req'[q] = req[q]
  BY ZenonT(30) DEF OneStep, IInv, Types
<1>2. credit' \in Nat
  BY SMTT(30) DEF OneStep, Accounts, Returned, IInv, Types
<1>3. \A q \in Req : Stage(req'[q]) /\ Told(req'[q])
  BY <1>1 DEF OneStep, IInv
<1>4. IsFiniteSet(Holders) /\ Cardinality(Holders) \in Nat  BY HoldersFinite
<1>5. \A q \in Req : q # r => (Holds(q)' <=> Holds(q))  BY <1>1 DEF Holds
<1>6. StreamsAddUp'
  <2>1. credit + Cardinality(Holders) = Credit /\ credit \in Nat
    BY DEF IInv, Types, StreamsAddUp, Holders
  <2>2. SUFFICES credit' + Cardinality(Holders') = Credit
    BY DEF StreamsAddUp, Holders
  <2>3. CASE credit' = credit /\ (Holds(r)' <=> Holds(r))
    <3>1. Holders' = Holders  BY Zenon, <1>5, <2>3 DEF Holders
    <3> QED  BY <2>1, <2>3, <3>1
  <2>4. CASE credit' = credit + Returned(r) /\ ~Holds(r)'
    <3>1. Holders' = Holders \ {r}  BY Zenon, <1>5, <2>4 DEF Holders
    <3>2. Cardinality(Holders') = IF r \in Holders THEN Cardinality(Holders) - 1
                                  ELSE Cardinality(Holders)
      BY <1>4, <3>1, FS_RemoveElement, ZenonT(30)
    <3>3. r \in Holders <=> Holds(r)  BY Zenon DEF Holders
    <3> QED  BY SMTT(30), <1>4, <2>1, <2>4, <3>2, <3>3 DEF Returned
  <2>5. CASE credit' = credit - 1 /\ credit > 0 /\ ~Holds(r) /\ Holds(r)'
    <3>1. Holders' = Holders \cup {r}  BY Zenon, <1>5, <2>5 DEF Holders
    <3>2. r \notin Holders  BY Zenon, <2>5 DEF Holders
    <3>3. Cardinality(Holders') = Cardinality(Holders) + 1
      BY <1>4, <3>1, <3>2, FS_AddElement, ZenonT(60)
    <3> QED  BY SMTT(30), <1>4, <2>1, <2>5, <3>3
  <2> QED  BY Zenon, <2>3, <2>4, <2>5 DEF OneStep, Accounts
<1>7. Record' = Record /\ \A q : set_client_address(q)' = set_client_address(q)
  BY SMTT(30) DEF OneStep, conn, Record, Headers, set_client_address
<1> QED  BY <1>1, <1>2, <1>3, <1>6, <1>7 DEF IInv, Types, Told, Stage

-----------------------------------------------------------------------------
(* The record of a request, with what an action changes in it. *)

LEMMA SetIsOne ==
  ASSUME IInv, UNCHANGED conn, NEW r \in Req, NEW new \in Record, Set(r, new),
         Stage(new), Told(new),
         \/ credit' = credit /\ (new.io = "tunnel" <=> Holds(r))
         \/ credit' = credit + Returned(r) /\ new.io # "tunnel"
         \/ credit' = credit - 1 /\ credit > 0 /\ ~Holds(r) /\ new.io = "tunnel"
  PROVE  IInv'
<1>1. req'[r] = new /\ req' = [req EXCEPT ![r] = req'[r]]
  BY DEF Set, IInv, Types
<1>2. Holds(r)' <=> new.io = "tunnel"  BY <1>1 DEF Holds
<1>3. Accounts(r)  BY Zenon, <1>2 DEF Accounts
<1> QED  BY <1>1, <1>3, OneStepInv DEF OneStep

LEMMA RecordOf ==
  ASSUME IInv, NEW r \in Req
  PROVE  req[r] \in Record /\ Stage(req[r]) /\ Told(req[r])
  BY DEF IInv, Types

(* A 502, at any stage before the request is answered. *)
LEMMA BadGatewayInv ==
  ASSUME IInv, NEW r \in Req, req[r].pc \in (Before \cup Between) \ {"none"}, bad_gateway(r)
  PROVE  IInv'
<1> DEFINE new == [req[r] EXCEPT !.pc = "done", !.response = "502", !.io = "none"]
<1>1. new \in Record /\ new.io = "none"  BY ZenonT(60), RecordOf DEF Record
<1>2. Stage(new) /\ Told(new)  BY SMTT(30), RecordOf DEF Record, Stage, Told, Before, Between
<1>3. Set(r, new) /\ credit' = credit + Returned(r) /\ UNCHANGED conn
  BY DEF bad_gateway, conn
<1> HIDE DEF new
<1> QED  BY <1>1, <1>2, <1>3, SetIsOne

(* A stage follows another with the same backend connection, or none. *)
LEMMA GoesToInv ==
  ASSUME IInv, NEW r \in Req, NEW pc \in Before \cup Between, GoesTo(r, pc),
         req[r].pc # "none",
         (req[r].pc \in Before /\ pc \in Before) \/ (req[r].pc \in Between /\ pc \in Between),
         pc = "pool" => req[r].kind = "plain"
  PROVE  IInv'
<1> DEFINE new == [req[r] EXCEPT !.pc = pc]
<1>1. new \in Record /\ new.io = req[r].io  BY RecordOf DEF Record
<1>2. Stage(new) /\ Told(new)  BY SMTT(30), RecordOf DEF Record, Stage, Told, Before, Between
<1>3. Set(r, new) /\ credit' = credit /\ UNCHANGED conn
  BY ZenonT(30) DEF GoesTo, conn
<1> HIDE DEF new
<1> QED  BY <1>1, <1>2, <1>3, SetIsOne DEF Holds

-----------------------------------------------------------------------------
(* One lemma for each kind of step of proxy. *)

LEMMA RequestInv ==
  ASSUME IInv, NEW r \in Req, NEW kind \in Kinds, NEW cf \in Cf, Request(r, kind, cf)
  PROVE  IInv'
<1> DEFINE new == [req[r] EXCEPT !.pc = "lookup", !.kind = kind, !.cf = cf,
                                 !.headers = set_client_address(cf)]
<1>1. kind \in Ways  BY DEF Kinds, Ways
<1>2. set_client_address(cf) \in Headers  BY DEF Headers
<1>3. new \in Record /\ new.io = req[r].io /\ new.pc = "lookup" /\ new.cf = cf
        /\ new.headers = set_client_address(cf) /\ new.splice = req[r].splice
  BY ZenonT(60), <1>1, <1>2, RecordOf DEF Record, Before
<1>4. req[r].pc = "none"  BY DEF Request
<1>5. Stage(new)  BY <1>3, <1>4, RecordOf DEF Stage, Before, Between
<1>6. Told(new)  BY <1>3 DEF Told
<1>7. Set(r, new) /\ credit' = credit /\ UNCHANGED conn  BY DEF Request, conn
<1> HIDE DEF new
<1> QED  BY <1>3, <1>5, <1>6, <1>7, SetIsOne DEF Holds

LEMMA LookupInv == ASSUME IInv, NEW r \in Req, LookupRoute(r) PROVE IInv'
<1>1. req[r].pc = "lookup" /\ req[r].kind \in Ways  BY RecordOf DEF LookupRoute, Record
<1>5. /\ {"open_bi", "dial", "pool"} \subseteq Before /\ req[r].pc \in Before
      /\ req[r].pc # "none"
  BY <1>1 DEF Before
<1>6. ASSUME NEW pc \in {"open_bi", "dial", "pool"}, GoesTo(r, pc),
             pc = "pool" => req[r].kind = "plain"
      PROVE  IInv'
  <2>1. pc \in Before /\ pc \in Before \cup Between  BY <1>5
  <2> QED  BY Zenon, <1>5, <1>6, <2>1, GoesToInv
<1>2. CASE GoesTo(r, "open_bi")  BY <1>2, <1>6
<1>3. CASE GoesTo(r, IF needs_own_connection(req[r].kind) THEN "dial" ELSE "pool")
  <2>1. CASE needs_own_connection(req[r].kind)
    <3>1. GoesTo(r, "dial")  BY Zenon, <1>3, <2>1
    <3> QED  BY <1>6, <3>1
  <2>2. CASE ~needs_own_connection(req[r].kind)
    <3>1. req[r].kind = "plain"  BY <1>1, <2>2 DEF needs_own_connection, Ways
    <3>2. GoesTo(r, "pool")  BY Zenon, <1>3, <2>2
    <3> QED  BY <1>6, <3>1, <3>2
  <2> QED  BY <2>1, <2>2
<1>4. CASE bad_gateway(r)  BY <1>1, <1>4, BadGatewayInv DEF Before
<1> QED  BY Zenon, <1>2, <1>3, <1>4 DEF LookupRoute

LEMMA OpenStreamInv == ASSUME IInv, NEW r \in Req, OpenStream(r) PROVE IInv'
<1> DEFINE new == [req[r] EXCEPT !.pc = "header", !.io = "tunnel"]
<1>1. req[r].pc = "open_bi"  BY DEF OpenStream
<1>2. new \in Record /\ new.io = "tunnel"  BY ZenonT(60), RecordOf DEF Record, Between
<1>3. Stage(new) /\ Told(new) /\ req[r].io = "none"
  BY SMTT(30), <1>1, RecordOf DEF Record, Stage, Told, Before, Between
<1>4. Set(r, new) /\ credit' = credit - 1 /\ credit > 0 /\ UNCHANGED conn
  BY DEF OpenStream, conn
<1> HIDE DEF new
<1> QED  BY <1>2, <1>3, <1>4, SetIsOne DEF Holds

LEMMA DialledInv == ASSUME IInv, NEW r \in Req, Dialled(r) PROVE IInv'
<1> DEFINE new == [req[r] EXCEPT !.pc = "serve", !.io = "own"]
<1>1. req[r].pc = "dial"  BY DEF Dialled
<1>2. new \in Record /\ new.io = "own"  BY ZenonT(60), RecordOf DEF Record, Between
<1>3. Stage(new) /\ Told(new) /\ req[r].io = "none"
  BY SMTT(30), <1>1, RecordOf DEF Record, Stage, Told, Before, Between
<1>4. Set(r, new) /\ credit' = credit /\ UNCHANGED conn  BY DEF Dialled, conn
<1> HIDE DEF new
<1> QED  BY <1>2, <1>3, <1>4, SetIsOne DEF Holds

LEMMA ServeInv ==
  ASSUME IInv, NEW r \in Req,
         serve_request(r) \/ HandshakeDone(r) \/ HandshakeFails(r) \/ BackendFails(r)
           \/ OpenFails(r) \/ HeaderSent(r) \/ HeaderFails(r) \/ DialFails(r) \/ PoolFails(r)
  PROVE  IInv'
<1>1. CASE bad_gateway(r)
  <2>1. req[r].pc \in {"header", "serve", "handshake", "send", "upgrade", "open_bi", "dial", "pool"}
    BY ZenonT(30) DEF serve_request, HandshakeDone, HandshakeFails, BackendFails, OpenFails, HeaderSent,
                      HeaderFails, DialFails, PoolFails
  <2> QED  BY <1>1, <2>1, BadGatewayInv DEF Before, Between
<1>2. CASE serve_request(r) /\ GoesTo(r, "handshake")
  BY <1>2, GoesToInv DEF serve_request, Between
<1>3. CASE HandshakeDone(r)  BY <1>3, GoesToInv DEF HandshakeDone, Between
<1>4. CASE HeaderSent(r)  BY <1>4, GoesToInv DEF HeaderSent, Between
<1> QED  BY Zenon, <1>1, <1>2, <1>3, <1>4
         DEF serve_request, HandshakeFails, BackendFails, OpenFails, HeaderFails, DialFails, PoolFails

LEMMA AnswerInv == ASSUME IInv, NEW r \in Req, BackendAnswers(r) PROVE IInv'
<1>1. req[r].pc = "send"  BY DEF BackendAnswers
<1>2. CASE bad_gateway(r)  BY <1>1, <1>2, BadGatewayInv DEF Between
<1>3. CASE Answered(r)
  <2> DEFINE new == [req[r] EXCEPT !.pc = "body", !.response = "backend"]
  <2>1. new \in Record /\ new.io = req[r].io  BY ZenonT(60), RecordOf DEF Record
  <2>2. Stage(new) /\ Told(new)  BY SMTT(30), <1>1, RecordOf DEF Record, Stage, Told, Before, Between
  <2>3. Set(r, new) /\ credit' = credit /\ UNCHANGED conn  BY <1>3 DEF Answered, conn
  <2> HIDE DEF new
  <2> QED  BY <2>1, <2>2, <2>3, SetIsOne DEF Holds
<1> QED  BY Zenon, <1>2, <1>3 DEF BackendAnswers

(* An upgrade: the connection is kept for the task that splices. *)
LEMMA SwitchInv == ASSUME IInv, NEW r \in Req, BackendSwitches(r) \/ Upgraded(r) PROVE IInv'
<1>1. req[r].pc \in Between /\ req[r].pc # "none"
  BY DEF BackendSwitches, Upgraded, Between
<1>2. CASE GoesTo(r, "upgrade")
  <2>1. "upgrade" \in Between /\ "upgrade" \in Before \cup Between /\ "upgrade" # "pool"
    BY DEF Between
  <2> QED  BY Zenon, <1>1, <1>2, <2>1, GoesToInv
<1>3. ASSUME NEW response \in {"101", "200"}, credit' = credit, UNCHANGED conn,
             Set(r, [req[r] EXCEPT !.pc = "done", !.response = response, !.splice = "waits"])
      PROVE  IInv'
  <2> DEFINE new == [req[r] EXCEPT !.pc = "done", !.response = response, !.splice = "waits"]
  <2>1. new \in Record /\ new.io = req[r].io  BY ZenonT(60), RecordOf DEF Record
  <2>2. Stage(new) /\ Told(new)  BY SMTT(30), <1>1, RecordOf DEF Record, Stage, Told, Before, Between
  <2>3. Set(r, new)  BY <1>3
  <2> HIDE DEF new
  <2> QED  BY <1>3, <2>1, <2>2, <2>3, SetIsOne DEF Holds
<1>4. CASE Upgraded(r)
  BY <1>3, <1>4 DEF Upgraded
<1>5. CASE BackendSwitches(r) /\ ~GoesTo(r, "upgrade")
  <2>1. /\ Set(r, [req[r] EXCEPT !.pc = "done", !.response = "101", !.splice = "waits"])
        /\ credit' = credit /\ UNCHANGED conn
    BY Zenon, <1>5 DEF BackendSwitches
  <2> QED  BY <1>3, <2>1
<1> QED  BY Zenon, <1>2, <1>4, <1>5

LEMMA PoolAnswersInv == ASSUME IInv, NEW r \in Req, PoolAnswers(r) PROVE IInv'
<1> DEFINE new == [req[r] EXCEPT !.pc = "body", !.io = "pooled", !.response = "backend"]
<1>1. req[r].pc = "pool"  BY DEF PoolAnswers
<1>2. new \in Record /\ new.io = "pooled"  BY ZenonT(60), RecordOf DEF Record
<1>3. Stage(new) /\ Told(new) /\ req[r].io = "none"
  BY SMTT(30), <1>1, RecordOf DEF Record, Stage, Told, Before, Between
<1>4. Set(r, new) /\ credit' = credit /\ UNCHANGED conn  BY DEF PoolAnswers, conn
<1> HIDE DEF new
<1> QED  BY <1>2, <1>3, <1>4, SetIsOne DEF Holds

(* The body is over, or the client resets the stream of a request. *)
LEMMA EndInv == ASSUME IInv, NEW r \in Req, BodyEnds(r) \/ StreamReset(r) PROVE IInv'
<1> DEFINE new == [req[r] EXCEPT !.pc = "done", !.io = "none"]
<1>1. req[r].pc # "done" /\ req[r].pc # "none"  BY DEF BodyEnds, StreamReset, Active
<1>2. new \in Record /\ new.io = "none"  BY ZenonT(60), RecordOf DEF Record
<1>3. Stage(new) /\ Told(new)  BY SMTT(30), <1>1, RecordOf DEF Record, Stage, Told, Before, Between
<1>4. Set(r, new) /\ credit' = credit + Returned(r) /\ UNCHANGED conn
  BY DEF BodyEnds, StreamReset, conn
<1> HIDE DEF new
<1> QED  BY <1>2, <1>3, <1>4, SetIsOne

LEMMA SpliceInv == ASSUME IInv, NEW r \in Req, ClientUpgraded(r) \/ SpliceEnds(r) PROVE IInv'
<1>1. req[r].splice \in {"waits", "runs"} /\ req[r].pc = "done"
  BY RecordOf, ZenonT(30) DEF ClientUpgraded, SpliceEnds, Stage
<1>2. CASE ClientUpgraded(r)
  <2> DEFINE new == [req[r] EXCEPT !.splice = "runs"]
  <2>1. new \in Record /\ new.io = req[r].io  BY RecordOf DEF Record
  <2>2. Stage(new) /\ Told(new)  BY ZenonT(60), <1>1, RecordOf DEF Record, Stage, Told, Before, Between
  <2>3. Set(r, new) /\ credit' = credit /\ UNCHANGED conn  BY <1>2 DEF ClientUpgraded, conn
  <2> HIDE DEF new
  <2> QED  BY <2>1, <2>2, <2>3, SetIsOne DEF Holds
<1>3. CASE SpliceEnds(r)
  <2> DEFINE new == [req[r] EXCEPT !.splice = "over", !.io = "none"]
  <2>1. new \in Record /\ new.io = "none"  BY ZenonT(60), RecordOf DEF Record
  <2>2. Stage(new) /\ Told(new)  BY SMTT(30), <1>1, RecordOf DEF Record, Stage, Told, Before, Between
  <2>3. Set(r, new) /\ credit' = credit + Returned(r) /\ UNCHANGED conn
    BY <1>3 DEF SpliceEnds, conn
  <2> HIDE DEF new
  <2> QED  BY <2>1, <2>2, <2>3, SetIsOne
<1> QED  BY <1>2, <1>3

(* The public connection ends: every request that is under way gives back    *)
(* what it holds.                                                            *)
LEMMA ConnectionEndsInv == ASSUME IInv, ConnectionEnds PROVE IInv'
<1> DEFINE dropped == {r \in Req : Active(r)}
           ended(r) == [req[r] EXCEPT !.pc = "done", !.io = "none"]
<1>1. /\ req' = [r \in Req |-> IF r \in dropped THEN ended(r) ELSE req[r]]
      /\ credit' = credit + Cardinality({r \in dropped : Holds(r)})
      /\ UNCHANGED conn
  BY Zenon DEF ConnectionEnds
<1>2. ASSUME NEW r \in Req, r \in dropped
      PROVE  ended(r) \in Record /\ ended(r).io = "none" /\ Stage(ended(r)) /\ Told(ended(r))
  <2>1. req[r].pc # "done" /\ req[r].pc # "none"  BY <1>2 DEF Active
  <2>2. ended(r) \in Record /\ ended(r).io = "none"  BY ZenonT(60), RecordOf DEF Record
  <2> QED  BY SMTT(30), <2>1, <2>2, RecordOf DEF Record, Stage, Told, Before, Between
<1> HIDE DEF ended
<1>3. \A r \in Req : req'[r] \in Record /\ Stage(req'[r]) /\ Told(req'[r])
  BY <1>1, <1>2, RecordOf
<1>4. Holders' = Holders \ dropped
  <2>1. \A r \in Req : Holds(r)' <=> Holds(r) /\ r \notin dropped
    <3> TAKE r \in Req
    <3>1. CASE r \in dropped  BY <1>1, <1>2, <3>1 DEF Holds
    <3>2. CASE r \notin dropped
      <4>1. req'[r] = req[r]  BY <1>1, <3>2
      <4> QED  BY Zenon, <3>2, <4>1 DEF Holds
    <3> QED  BY <3>1, <3>2
  <2> QED  BY Zenon, <2>1 DEF Holders
<1>5. {r \in dropped : Holds(r)} = Holders \cap dropped  BY Zenon DEF Holders
<1> HIDE DEF dropped
<1>6. credit' \in Nat /\ credit' + Cardinality(Holders') = Credit
  <2>1. IsFiniteSet(Holders) /\ Cardinality(Holders) \in Nat  BY HoldersFinite
  <2>2. IsFiniteSet(Holders \cap dropped)  BY <2>1, FS_Subset
  <2>3. Cardinality(Holders \cap dropped) \in Nat  BY <2>2, FS_CardinalityType
  <2>4. Cardinality(Holders') = Cardinality(Holders) - Cardinality(Holders \cap dropped)
    BY Zenon, <1>4, <2>1, FS_Difference
  <2>5. credit \in Nat /\ credit + Cardinality(Holders) = Credit
    BY DEF IInv, Types, StreamsAddUp, Holders
  <2>6. credit' = credit + Cardinality(Holders \cap dropped)  BY <1>1, <1>5, SMTT(30)
  <2> QED  BY SMTT(30), <2>1, <2>3, <2>4, <2>5, <2>6
<1>7. StreamsAddUp'  BY <1>6, ZenonT(30) DEF StreamsAddUp, Holders
<1>8. Record' = Record /\ \A q : set_client_address(q)' = set_client_address(q)
  BY <1>1 DEF conn, Record, Headers, set_client_address
<1>9. req' \in [Req -> Record]  BY <1>1, <1>3, ZenonT(30)
<1> QED  BY <1>3, <1>6, <1>7, <1>8, <1>9 DEF IInv, Types, Told, Stage

(* A step that touches no request. *)
LEMMA IdleInv == ASSUME IInv, UNCHANGED <<conn, credit, req>> PROVE IInv'
<1>1. Record' = Record /\ \A q : set_client_address(q)' = set_client_address(q)
  BY ZenonT(60) DEF conn, Record, Headers, set_client_address
<1> QED  BY <1>1, ZenonT(30) DEF IInv, Types, Told, Stage, StreamsAddUp, Holds

LEMMA NextInv == IInv /\ [Next]_vars => IInv'
<1> SUFFICES ASSUME IInv, [Next]_vars PROVE IInv'
  OBVIOUS
<1>1. ASSUME NEW r \in Req, Proxy(r) PROVE IInv'
  BY ZenonT(60), <1>1, LookupInv, OpenStreamInv, DialledInv, ServeInv, AnswerInv, SwitchInv,
     PoolAnswersInv, EndInv, SpliceInv DEF Proxy
<1>2. ASSUME NEW r \in Req, NEW kind \in Kinds, NEW cf \in Cf, Request(r, kind, cf) PROVE IInv'
  BY <1>2, RequestInv
<1>3. CASE ConnectionEnds  BY <1>3, ConnectionEndsInv
<1>4. CASE TunnelLost  BY <1>4, IdleInv DEF TunnelLost
<1>5. CASE UNCHANGED vars  BY <1>5, IdleInv DEF vars, conn
<1> QED  BY Zenon, <1>1, <1>2, <1>3, <1>4, <1>5 DEF Next
-----------------------------------------------------------------------------
LEMMA InvPool == IInv => PoolIsNotSpliced
<1> SUFFICES ASSUME IInv, NEW r \in Req
             PROVE  /\ req[r].io = "pooled" => req[r].kind = "plain" /\ req[r].splice = "none"
                    /\ req[r].splice \in {"waits", "runs"} => req[r].io \in {"tunnel", "own"}
  BY DEF PoolIsNotSpliced
<1> QED  BY RecordOf DEF Stage

LEMMA InvAddress == IInv => AddressIsTold
<1> SUFFICES ASSUME IInv, NEW r \in Req, req[r].pc \in {"send", "upgrade", "pool", "body"}
             PROVE  LET given == client = "Proxy" /\ IsAddress(req[r].cf)
                        address == to_canonical(IF given THEN req[r].cf ELSE peer)
                        told == SentHeaders(r)
                    IN  /\ told.x_real_ip = address /\ told.x_forwarded_for = address
                        /\ told.cf # "none" => to_canonical(told.cf) = address
  BY DEF AddressIsTold
<1>1. req[r].headers = set_client_address(req[r].cf)  BY RecordOf DEF Told
<1> QED  BY <1>1, SMTT(30) DEF SentHeaders, set_client_address
-----------------------------------------------------------------------------
(* Whatever the limits and however many requests a connection carries and     *)
(* however they end, each stream of the tunnel is free or held by exactly one *)
(* request or splice (h2proxy.rs, open_tunnel_stream).                        *)
THEOREM NoStreamLeaks == Spec => []StreamsAddUp
<1>1. Init => IInv  BY InitInv
<1>2. IInv /\ [Next]_vars => IInv'  BY NextInv
<1>3. IInv => StreamsAddUp  BY DEF IInv
<1> QED  BY <1>1, <1>2, <1>3, PTL DEF Spec

(* A connection of the pool of local_pool.rs is never upgraded, and a splice   *)
(* has the backend connection it was made for.                                *)
THEOREM PoolStaysPlain == Spec => []PoolIsNotSpliced
<1>1. Init => IInv  BY InitInv
<1>2. IInv /\ [Next]_vars => IInv'  BY NextInv
<1>3. IInv => PoolIsNotSpliced  BY InvPool
<1> QED  BY <1>1, <1>2, <1>3, PTL DEF Spec

(* Every backend is told the address that set_client_address chose, whatever   *)
(* the addresses and the values of CF-Connecting-IP.                          *)
THEOREM AddressReaches == Spec => []AddressIsTold
<1>1. Init => IInv  BY InitInv
<1>2. IInv /\ [Next]_vars => IInv'  BY NextInv
<1>3. IInv => AddressIsTold  BY InvAddress
<1> QED  BY <1>1, <1>2, <1>3, PTL DEF Spec
-----------------------------------------------------------------------------
(* What a step can do to one request. *)

\* A step of a request leaves the records of the others alone.
LEMMA OthersKeep ==
  ASSUME IInv, NEW q \in Req, NEW r \in Req, q # r,
         Proxy(q) \/ \E kind \in Kinds, cf \in Cf : Request(q, kind, cf)
  PROVE  req'[r] = req[r]
<1>1. \E new : Set(q, new)
  BY ZenonT(60) DEF Proxy, LookupRoute, OpenStream, OpenFails, HeaderSent, HeaderFails, Dialled, DialFails,
     serve_request,
     HandshakeDone, HandshakeFails, BackendAnswers, Answered, BackendSwitches, BackendFails,
     Upgraded, PoolAnswers, PoolFails, BodyEnds, ClientUpgraded, SpliceEnds, StreamReset,
     Request, GoesTo, bad_gateway
<1> QED BY <1>1 DEF Set, IInv, Types

\* The stages that can follow stage pc.
Follow(pc, next) ==
    \/ pc = "lookup" /\ next \in {"open_bi", "dial", "pool"}
    \/ pc = "open_bi" /\ next = "header"
    \/ pc \in {"header", "dial"} /\ next = "serve"
    \/ pc = "serve" /\ next = "handshake"
    \/ pc = "handshake" /\ next = "send"
    \/ pc = "send" /\ next \in {"upgrade", "body"}
    \/ pc = "pool" /\ next = "body"
    \/ next = "done"

\* A run of proxy goes from stage to stage, and keeps the stream that it opened
\* until it is done.
Moves(r) ==
    /\ req[r].pc # "none" => req'[r].pc = req[r].pc \/ Follow(req[r].pc, req'[r].pc)
    /\ Holds(r) => Holds(r)' \/ req'[r].pc = "done"

LEMMA OwnStep ==
  ASSUME IInv, NEW r \in Req, Proxy(r)
  PROVE  Moves(r)
<1>1. req[r] \in Record /\ Stage(req[r])
  BY RecordOf
<1>2. ASSUME NEW pc, GoesTo(r, pc) PROVE req'[r].pc = pc /\ req'[r].io = req[r].io
  BY <1>2 DEF GoesTo, Set, IInv, Types, Record
<1>3. ASSUME bad_gateway(r) PROVE req'[r].pc = "done"
  BY <1>3, ZenonT(30) DEF bad_gateway, Set, IInv, Types, Record
<1>4. CASE bad_gateway(r) \/ BodyEnds(r) \/ StreamReset(r) \/ Upgraded(r)
  <2>1. ASSUME BodyEnds(r) \/ StreamReset(r) PROVE req'[r].pc = "done"
    BY ZenonT(60), <2>1 DEF BodyEnds, StreamReset, Set, IInv, Types, Record
  <2>2. ASSUME Upgraded(r) PROVE req'[r].pc = "done"
    <3> DEFINE new == [req[r] EXCEPT !.pc = "done", !.response = "200", !.splice = "waits"]
    <3>1. new.pc = "done"
      BY ZenonT(60), <1>1 DEF Record
    <3>2. Set(r, new)
      BY <2>2 DEF Upgraded
    <3> HIDE DEF new
    <3> QED BY <3>1, <3>2 DEF Set, IInv, Types
  <2> QED BY <1>3, <1>4, <2>1, <2>2 DEF Moves, Follow
<1>5. CASE ClientUpgraded(r) \/ SpliceEnds(r)
  <2>1. req[r].pc = "done"
    BY <1>1, <1>5 DEF ClientUpgraded, SpliceEnds, Stage
  <2>2. req'[r].pc = req[r].pc
    BY ZenonT(60), <1>5 DEF ClientUpgraded, SpliceEnds, Set, IInv, Types, Record
  <2> QED BY <2>1, <2>2 DEF Moves
<1>6. CASE LookupRoute(r)
  <2>1. req[r].pc = "lookup" /\ ~Holds(r)
    BY <1>1, <1>6, ZenonT(30) DEF LookupRoute, Stage, Holds, Before
  <2>2. req'[r].pc \in {"open_bi", "dial", "pool", "done"}
    BY <1>2, <1>3, <1>6 DEF LookupRoute
  <2> QED BY <2>1, <2>2, ZenonT(30) DEF Moves, Follow
<1>7. CASE OpenStream(r) \/ Dialled(r)
  <2>1. req[r].pc \in {"open_bi", "dial"} /\ ~Holds(r)
    BY <1>1, <1>7 DEF OpenStream, Dialled, Stage, Holds, Before
  <2>2. /\ OpenStream(r) => req[r].pc = "open_bi" /\ req'[r].pc = "header"
        /\ Dialled(r) => req[r].pc = "dial" /\ req'[r].pc = "serve"
    BY ZenonT(60) DEF OpenStream, Dialled, Set, IInv, Types, Record
  <2> QED BY <1>7, <2>1, <2>2 DEF Moves, Follow
<1>8. CASE PoolAnswers(r)
  <2>1. req[r].pc = "pool" /\ ~Holds(r)
    BY <1>1, <1>8 DEF PoolAnswers, Stage, Holds, Before
  <2>2. req'[r].pc = "body"
    BY <1>8 DEF PoolAnswers, Set, IInv, Types, Record
  <2> QED BY <2>1, <2>2 DEF Moves, Follow
<1>9. CASE ~bad_gateway(r) /\ (HeaderSent(r) \/ serve_request(r) \/ HandshakeDone(r))
  <2>1. /\ Follow(req[r].pc, req'[r].pc) /\ req'[r].io = req[r].io
    BY <1>2, <1>9, ZenonT(30) DEF HeaderSent, serve_request, HandshakeDone, Follow
  <2> QED BY <2>1, ZenonT(30) DEF Moves, Holds
<1>10. CASE ~bad_gateway(r) /\ (BackendAnswers(r) \/ BackendSwitches(r))
  <2>1. req[r].pc = "send"
    BY <1>10 DEF BackendAnswers, BackendSwitches
  <2>2. req'[r].pc \in {"body", "upgrade", "done"} /\ req'[r].io = req[r].io
    BY ZenonT(60), <1>2, <1>10 DEF BackendAnswers, BackendSwitches, Answered, Set, IInv, Types, Record
  <2> QED BY <2>1, <2>2 DEF Moves, Holds, Follow
<1> QED
  BY ZenonT(60), <1>4, <1>5, <1>6, <1>7, <1>8, <1>9, <1>10
  DEF Proxy, OpenFails, HeaderFails, DialFails, HandshakeFails, BackendFails, PoolFails

\* Every step of the program moves a request on, or leaves it; a lost tunnel stays
\* lost, and a connection that is gone stays gone.
LEMMA EachStep ==
  ASSUME IInv, [Next]_vars, NEW r \in Req
  PROVE  /\ Moves(r)
         /\ tunnel = "lost" => tunnel' = "lost" /\ (req[r].pc = "open_bi" => req'[r].pc # "header")
         /\ ~open => ~open' /\ (req[r].splice = "waits" => req'[r].splice \in {"waits", "over"})
         /\ ~open' /\ (open \/ ~Active(r)) => ~Active(r)'
<1>1. req[r] \in Record /\ Stage(req[r])
  BY RecordOf
<1>2. req'[r] = req[r] => Moves(r)
  BY DEF Moves, Holds
<1>3. ASSUME NEW q \in Req, q # r,
             Proxy(q) \/ \E kind \in Kinds, cf \in Cf : Request(q, kind, cf)
      PROVE  req'[r] = req[r]
  BY <1>3, OthersKeep
<1>4. ASSUME NEW q \in Req, Proxy(q) \/ \E kind \in Kinds, cf \in Cf : Request(q, kind, cf)
      PROVE  tunnel' = tunnel /\ open' = open
  BY ZenonT(60), <1>4 DEF Proxy, LookupRoute, OpenStream, OpenFails, HeaderSent, HeaderFails, Dialled,
     DialFails,
     serve_request, HandshakeDone, HandshakeFails, BackendAnswers, Answered, BackendSwitches,
     BackendFails, Upgraded, PoolAnswers, PoolFails, BodyEnds, ClientUpgraded, SpliceEnds,
     StreamReset, Request, GoesTo, bad_gateway
<1>5. ASSUME Proxy(r), tunnel = "lost", req[r].pc = "open_bi" PROVE req'[r].pc # "header"
  <2>1. OpenFails(r) \/ StreamReset(r)
    BY ZenonT(60), <1>1, <1>5 DEF Proxy, LookupRoute, OpenStream, HeaderSent, HeaderFails, Dialled,
       DialFails, serve_request,
       HandshakeDone, HandshakeFails, BackendAnswers, BackendSwitches, BackendFails,
       Upgraded, PoolAnswers, PoolFails, BodyEnds, ClientUpgraded, SpliceEnds, Stage
  <2> QED BY ZenonT(60), <2>1 DEF OpenFails, bad_gateway, StreamReset, Set, IInv, Types, Record
<1>6. ASSUME Proxy(r), ~open, req[r].splice = "waits" PROVE req'[r].splice = "over"
  <2>1. req[r].pc = "done"
    BY <1>1, <1>6 DEF Stage
  <2>2. SpliceEnds(r)
    BY ZenonT(60), <1>6, <2>1 DEF Proxy, LookupRoute, OpenStream, OpenFails, HeaderSent, HeaderFails,
       Dialled, DialFails,
       serve_request, HandshakeDone, HandshakeFails, BackendAnswers, BackendSwitches,
       BackendFails, Upgraded, PoolAnswers, PoolFails, BodyEnds, ClientUpgraded, StreamReset, Active
  <2> QED BY <2>2 DEF SpliceEnds, Set, IInv, Types, Record
<1>7. CASE Proxy(r)
  <2>1. Moves(r)
    BY <1>7, OwnStep
  <2>2. ASSUME ~Active(r) PROVE req[r].pc = "done"
    <3>1. ASSUME req[r].pc = "none" PROVE FALSE
      BY ZenonT(60), <1>1, <1>7, <3>1 DEF Proxy, LookupRoute, OpenStream, OpenFails, HeaderSent,
         HeaderFails, Dialled,
         DialFails, serve_request, HandshakeDone, HandshakeFails, BackendAnswers,
         BackendSwitches, BackendFails, Upgraded, PoolAnswers, PoolFails, BodyEnds,
         ClientUpgraded, SpliceEnds, StreamReset, Active, Stage
    <3> QED BY <2>2, <3>1 DEF Active
  <2>3. ~Active(r) => ~Active(r)'
    BY <2>1, <2>2 DEF Moves, Follow, Active
  <2> QED BY <1>4, <1>5, <1>6, <1>7, <2>1, <2>3
<1>8. CASE \E kind \in Kinds, cf \in Cf : Request(r, kind, cf)
  <2>1. req[r].pc = "none" /\ ~Holds(r) /\ req[r].splice # "waits"
    BY <1>1, <1>8 DEF Request, Stage, Before, Holds
  <2>2. open
    BY <1>8 DEF Request
  <2> QED BY ZenonT(60), <1>4, <1>8, <2>1, <2>2 DEF Moves
<1>9. CASE \E q \in Req \ {r} : Proxy(q) \/ \E kind \in Kinds, cf \in Cf : Request(q, kind, cf)
  <2>1. req'[r] = req[r] /\ tunnel' = tunnel /\ open' = open
    BY <1>3, <1>4, <1>9, ZenonT(30)
  <2> QED BY <1>2, <2>1, ZenonT(30) DEF Active
<1>10. CASE ConnectionEnds
  <2>1. open /\ tunnel' = tunnel /\ (req'[r] = req[r] \/ req'[r].pc = "done")
    BY ZenonT(60), <1>1, <1>10 DEF ConnectionEnds, Record
  <2>2. ~Active(r)'
    BY ZenonT(60), <1>1, <1>10 DEF ConnectionEnds, Record, Active
  <2> QED BY <1>2, <2>1, <2>2 DEF Moves, Follow
<1>11. CASE TunnelLost \/ UNCHANGED vars
  BY SMTT(30), <1>2, <1>11 DEF TunnelLost, vars, Active
<1> QED BY ZenonT(60), <1>7, <1>8, <1>9, <1>10, <1>11 DEF Next

\* A step that a run of proxy takes by itself brings it on.
LEMMA FairStep ==
  ASSUME IInv, NEW r \in Req, <<Steps(r)>>_vars
  PROVE  /\ req[r].pc \in {"lookup", "serve"} => Follow(req[r].pc, req'[r].pc)
         /\ req[r].pc \in {"dial", "header", "handshake", "send", "upgrade"} => req'[r].pc = "done"
         /\ req[r].pc = "open_bi" /\ tunnel = "lost" => req'[r].pc = "done"
         /\ req[r].splice = "waits" => ~Holds(r)'
<1>1. req[r] \in Record /\ Stage(req[r])
  BY RecordOf
<1>2. ASSUME NEW pc, GoesTo(r, pc) PROVE req'[r].pc = pc /\ req'[r].io = req[r].io
  BY SMTT(30), <1>2 DEF GoesTo, Set, IInv, Types, Record
<1>3. ASSUME bad_gateway(r) PROVE req'[r].pc = "done"
  BY <1>3, ZenonT(30) DEF bad_gateway, Set, IInv, Types, Record
<1>4. CASE LookupRoute(r) \/ serve_request(r)
  <2>1. req[r].pc \in {"lookup", "serve"} /\ req[r].splice = "none"
    BY <1>1, <1>4, ZenonT(30) DEF LookupRoute, serve_request, Stage
  <2>2. Follow(req[r].pc, req'[r].pc)
    BY <1>2, <1>3, <1>4, ZenonT(30) DEF LookupRoute, serve_request, Follow
  <2> QED BY <2>1, <2>2, ZenonT(30)
<1>5. CASE OpenStream(r)
  <2>1. req[r].pc = "open_bi" /\ req[r].splice = "none" /\ tunnel # "lost"
    BY <1>1, <1>5, ZenonT(30) DEF OpenStream, Stage
  <2> QED BY <2>1
<1>6. CASE OpenFails(r) \/ HeaderFails(r) \/ DialFails(r) \/ HandshakeFails(r) \/ BackendFails(r)
  <2>1. /\ req[r].pc \in {"open_bi", "header", "dial", "handshake", "send", "upgrade"}
        /\ req[r].splice = "none" /\ bad_gateway(r)
    BY <1>1, <1>6, ZenonT(30) DEF OpenFails, HeaderFails, DialFails, HandshakeFails, BackendFails, Stage
  <2> QED BY <1>3, <2>1, ZenonT(30)
<1>7. CASE SpliceEnds(r)
  <2>1. req[r].pc = "done"
    BY <1>1, <1>7 DEF SpliceEnds, Stage
  <2>2. req'[r].io = "none"
    BY <1>7 DEF SpliceEnds, Set, IInv, Types, Record
  <2> QED BY <2>1, <2>2 DEF Holds
<1> QED BY Zenon, <1>4, <1>5, <1>6, <1>7 DEF Steps

-----------------------------------------------------------------------------
(* Liveness: the fairness of FairSpec acts where NeverStuck says it can. *)

\* A run of proxy has a step of its own where it waits for no client, no backend and
\* no free stream, and where what it waits for is gone.  This can be read off the
\* guards of the actions; the prover, which has no rules for ENABLED, takes it as a
\* hypothesis.
NeverStuck ==
    \A r \in Req :
        \/ req[r].pc \in {"lookup", "dial", "serve", "handshake"}
        \/ tunnel = "lost" /\ OnTunnel(r)
        \/ ~open /\ req[r].splice = "waits"
        => ENABLED <<Steps(r)>>_vars

\* No request is under way on a connection that is gone.
Gone == ~open => \A r \in Req : ~Active(r)

\* What holds of every step.
LEMMA SafeSteps == Spec => []IInv /\ []Gone /\ [][Next]_vars
<1>1. Init => IInv /\ Gone
  BY InitInv DEF Init, Gone
<1>2. IInv /\ Gone /\ [Next]_vars => IInv' /\ Gone'
  <2> SUFFICES ASSUME IInv, Gone, [Next]_vars, ~open', NEW r \in Req PROVE ~Active(r)'
    BY NextInv DEF Gone
  <2> QED BY EachStep DEF Gone
<1> QED BY <1>1, <1>2, PTL DEF Spec

\* A run of proxy with a free hand comes to an end or to a wait, and one that waits
\* for a response through a tunnel that is lost is answered.
THEOREM ProxyIsAnswered == FairSpec /\ []NeverStuck => SetupOrAnswer
<1> DEFINE At(r, pc) == req[r].pc = pc
           Busy(r) == req[r].pc \in {"lookup", "dial", "serve", "handshake"}
           On(r) == req[r].pc \in {"open_bi", "pool", "send", "upgrade", "body", "done"}
           Lost(r, pc) == tunnel = "lost" /\ req[r].pc = pc /\ (pc # "open_bi" => Holds(r))
           Broken(r) == tunnel = "lost" /\ OnTunnel(r)
           Over(r) == req[r].pc \in {"body", "done"}
<1> SUFFICES ASSUME NEW r \in Req
             PROVE  FairSpec /\ []NeverStuck => (Busy(r) ~> On(r)) /\ (Broken(r) ~> Over(r))
  BY DEF SetupOrAnswer
<1>1. FairSpec => []IInv /\ [][Next]_vars /\ WF_vars(Steps(r))
  <2>1. FairSpec => Fairness(r)
    BY DEF FairSpec
  <2> QED BY <2>1, SafeSteps, PTL DEF FairSpec, Fairness
<1>2. FairSpec /\ []NeverStuck => (Busy(r) ~> On(r))
  <2>1. ASSUME IInv, [Next]_vars
        PROVE  /\ At(r, "lookup") => At(r, "lookup")' \/ At(r, "dial")' \/ On(r)'
               /\ At(r, "dial") => At(r, "dial")' \/ At(r, "serve")' \/ On(r)'
               /\ At(r, "serve") => At(r, "serve")' \/ At(r, "handshake")' \/ On(r)'
               /\ At(r, "handshake") => At(r, "handshake")' \/ On(r)'
    <3>1. Moves(r)
      BY <2>1, EachStep, Zenon
    <3>2. req[r].pc # "none" => req'[r].pc = req[r].pc \/ Follow(req[r].pc, req'[r].pc)
      BY <3>1, ZenonT(60) DEF Moves
    <3> QED BY <3>2 DEF Follow
  <2>2. ASSUME IInv, <<Steps(r)>>_vars
        PROVE  /\ At(r, "lookup") => At(r, "dial")' \/ On(r)'
               /\ At(r, "dial") => On(r)'
               /\ At(r, "serve") => At(r, "handshake")' \/ On(r)'
               /\ At(r, "handshake") => On(r)'
    BY <2>2, FairStep DEF Follow
  <2>3. NeverStuck /\ Busy(r) => ENABLED <<Steps(r)>>_vars
    BY Zenon DEF NeverStuck
  <2>4. Busy(r) <=> At(r, "lookup") \/ At(r, "dial") \/ At(r, "serve") \/ At(r, "handshake")
    OBVIOUS
  <2> HIDE DEF At, Busy, On
  <2>5. FairSpec /\ []NeverStuck => (At(r, "serve") \/ At(r, "handshake") ~> On(r))
    BY <1>1, <2>1, <2>2, <2>3, <2>4, PTL
  <2> QED BY <1>1, <2>1, <2>2, <2>3, <2>4, <2>5, PTL
<1>3. FairSpec /\ []NeverStuck => (Broken(r) ~> Over(r))
  <2> DEFINE Any == \/ Lost(r, "open_bi") \/ Lost(r, "header") \/ Lost(r, "serve") \/ Lost(r, "handshake")
                    \/ Lost(r, "send") \/ Lost(r, "upgrade")
  <2>1. ASSUME IInv, [Next]_vars
        PROVE  /\ Lost(r, "open_bi") => Lost(r, "open_bi")' \/ Over(r)'
               /\ Lost(r, "header") => Lost(r, "header")' \/ Lost(r, "serve")' \/ Over(r)'
               /\ Lost(r, "serve") => Lost(r, "serve")' \/ Lost(r, "handshake")' \/ Over(r)'
               /\ Lost(r, "handshake") => Lost(r, "handshake")' \/ Lost(r, "send")' \/ Over(r)'
               /\ Lost(r, "send") => Lost(r, "send")' \/ Lost(r, "upgrade")' \/ Over(r)'
               /\ Lost(r, "upgrade") => Lost(r, "upgrade")' \/ Over(r)'
    <3>1. /\ Moves(r)
          /\ tunnel = "lost" => tunnel' = "lost" /\ (req[r].pc = "open_bi" => req'[r].pc # "header")
      BY <2>1, EachStep, ZenonT(60)
    <3> QED BY <3>1 DEF Moves, Follow
  <2>2. ASSUME IInv, <<Steps(r)>>_vars
        PROVE  /\ Lost(r, "serve") => Lost(r, "handshake")' \/ Over(r)'
               /\ Lost(r, "open_bi") \/ Lost(r, "header") \/ Lost(r, "handshake") \/ Lost(r, "send")
                    \/ Lost(r, "upgrade") => Over(r)'
    <3>1. [Next]_vars
      BY <2>2, Zenon DEF Next, Proxy, Steps
    <3>2. Moves(r) /\ (tunnel = "lost" => tunnel' = "lost")
      BY <2>2, <3>1, EachStep, Zenon
    <3>3. /\ req[r].pc = "serve" => Follow(req[r].pc, req'[r].pc)
          /\ req[r].pc \in {"header", "handshake", "send", "upgrade"} => req'[r].pc = "done"
          /\ req[r].pc = "open_bi" /\ tunnel = "lost" => req'[r].pc = "done"
      BY <2>2, FairStep, Zenon
    <3> QED BY <3>2, <3>3 DEF Moves, Follow
  <2>3. NeverStuck /\ Any => ENABLED <<Steps(r)>>_vars
    <3>1. Any => tunnel = "lost" /\ OnTunnel(r)
      BY ZenonT(30) DEF OnTunnel
    <3> QED BY <3>1, ZenonT(60) DEF NeverStuck
  <2>4. Broken(r) => Any
    BY DEF OnTunnel
  <2> HIDE DEF At, Lost, Broken, Over
  <2>5. FairSpec /\ []NeverStuck => (Lost(r, "send") \/ Lost(r, "upgrade") ~> Over(r))
    BY <1>1, <2>1, <2>2, <2>3, PTL
  <2>6. FairSpec /\ []NeverStuck =>
           (Lost(r, "serve") \/ Lost(r, "handshake") ~> Lost(r, "send") \/ Over(r))
    BY <1>1, <2>1, <2>2, <2>3, PTL
  <2>7. FairSpec /\ []NeverStuck =>
           (Lost(r, "open_bi") \/ Lost(r, "header") ~> Lost(r, "serve") \/ Over(r))
    BY <1>1, <2>1, <2>2, <2>3, PTL
  <2>8. FairSpec => [](Broken(r) => Any)
    BY <2>4, PTL
  <2> QED BY <2>5, <2>6, <2>7, <2>8, PTL
<1> HIDE DEF At, Busy, On, Broken, Over
<1> QED BY <1>2, <1>3, PTL

\* A splice that waits for a client that is gone ends, and gives its stream back.
THEOREM GoneStreamsReturn == FairSpec /\ []NeverStuck => GoneGivesBack
<1> DEFINE Left(r) == Holds(r) => req[r].splice = "runs"
           Waits(r) == ~open /\ req[r].splice = "waits"
<1> SUFFICES ASSUME NEW r \in Req PROVE FairSpec /\ []NeverStuck => (~open ~> Left(r))
  BY SMTT(30) DEF GoneGivesBack
<1>1. FairSpec => Fairness(r)
  BY DEF FairSpec
<1>2. IInv /\ Gone /\ ~open => Waits(r) \/ Left(r)
  BY RecordOf, ZenonT(30) DEF Gone, Active, Stage, Record, Before, Holds
<1>3. IInv /\ IInv' /\ Waits(r) /\ [Next]_vars => Waits(r)' \/ Left(r)'
  <2> SUFFICES ASSUME IInv, IInv', Waits(r), [Next]_vars, req'[r].splice = "over" PROVE ~Holds(r)'
    BY EachStep, ZenonT(60)
  <2> QED BY ZenonT(30) DEF IInv, Types, Stage, Holds
<1>4. IInv /\ Waits(r) /\ <<Steps(r)>>_vars => Left(r)'
  BY FairStep
<1>5. NeverStuck /\ Waits(r) => ENABLED <<Steps(r)>>_vars
  BY Zenon DEF NeverStuck
<1> HIDE DEF Left, Waits
<1> QED BY <1>1, <1>2, <1>3, <1>4, <1>5, SafeSteps, PTL DEF FairSpec, Fairness
=============================================================================
