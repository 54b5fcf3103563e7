------------------------- MODULE TunnelServerProofs -------------------------
(***************************************************************************)
(* The invariants of TunnelServerProps hold for every set of connections,  *)
(* clients, hosts and grants.                                              *)
(***************************************************************************)
EXTENDS TunnelServerProps, TLAPS

\* A leaf is for Zenon unless it names another backend.
USE Zenon

(* What the operators on the routing table return and preserve. *)

\* The type of the routing table.
Table == [Host -> HostRoutes \cup {NoEntry}]

\* A grant names hosts of Host and gives each a TLS mode.
LEMMA GrantType ==
    ASSUME NEW g \in ClientGrant
    PROVE  /\ g.client_name \in Client
           /\ g.balance \in Balance
           /\ DOMAIN g.hostnames \subseteq Host
           /\ \A h \in DOMAIN g.hostnames : g.hostnames[h] \in TlsMode
<1>1. PICK S \in SUBSET Host : g.hostnames \in [S -> TlsMode]
  BY DEF ClientGrant
<1> QED
  BY <1>1 DEF ClientGrant

\* The connections of a host are connections; a kept connection was there.
LEMMA ConnsOfType ==
    ASSUME NEW i \in Table, NEW h \in Host, NEW g
    PROVE  /\ ConnsOf(i, h) \subseteq Conn
           /\ Kept(i[h], g) \subseteq ConnsOf(i, h)
BY DEF Table, HostRoutes, ConnsOf, Kept

\* What install leaves on each host: a well-formed table in which the granted
\* hosts belong to the grant's client, serve c and what install kept, and the
\* other hosts are untouched.
LEMMA InstallFacts ==
    ASSUME NEW i \in Table, NEW g \in ClientGrant, NEW c \in Conn
    PROVE  /\ Install(i, g, c) \in Table
           /\ \A h \in Host :
                 IF h \in DOMAIN g.hostnames
                 THEN /\ Install(i, g, c)[h] # NoEntry
                      /\ Install(i, g, c)[h].client_name = g.client_name
                      /\ ConnsOf(Install(i, g, c), h) = Kept(i[h], g) \cup {c}
                 ELSE /\ Install(i, g, c)[h] = i[h]
                      /\ ConnsOf(Install(i, g, c), h) = ConnsOf(i, h)
<1> DEFINE j == Install(i, g, c)
           new(h) == [client_name |-> g.client_name,
                      tls_mode    |-> g.hostnames[h],
                      conns       |-> Kept(i[h], g) \cup {c}]
<1>1. ASSUME NEW h \in Host, h \in DOMAIN g.hostnames
      PROVE  new(h) \in HostRoutes
  <2>1. Kept(i[h], g) \cup {c} \in SUBSET Conn
    BY ConnsOfType
  <2>2. g.client_name \in Client /\ g.hostnames[h] \in TlsMode
    BY <1>1, GrantType
  <2> QED
    BY <2>1, <2>2 DEF HostRoutes
<1>2. ASSUME NEW h \in Host
      PROVE  j[h] = IF h \in DOMAIN g.hostnames THEN new(h) ELSE i[h]
  BY DEF Install
<1>3. j \in Table
  <2>1. j = [h \in Host |-> IF h \in DOMAIN g.hostnames THEN new(h) ELSE i[h]]
    BY DEF Install
  <2>2. \A h \in Host : i[h] \in HostRoutes \cup {NoEntry}
    BY DEF Table
  <2> HIDE DEF new, j
  <2> QED
    BY <1>1, <2>1, <2>2 DEF Table
<1>4. ASSUME NEW h \in Host, h \in DOMAIN g.hostnames
      PROVE  /\ j[h] # NoEntry
             /\ j[h].client_name = g.client_name
             /\ ConnsOf(j, h) = Kept(i[h], g) \cup {c}
  <2>1. j[h] = new(h)
    BY <1>2, <1>4
  <2>2. new(h) # NoEntry
    BY <1>1, <1>4, NoEntryAssumption
  <2> QED
    BY SMTT(30), <2>1, <2>2 DEF ConnsOf
<1>5. ASSUME NEW h \in Host, h \notin DOMAIN g.hostnames
      PROVE  j[h] = i[h] /\ ConnsOf(j, h) = ConnsOf(i, h)
  BY <1>2, <1>5, Zenon DEF ConnsOf
<1> HIDE DEF j
<1>6. \A h \in Host :
         IF h \in DOMAIN g.hostnames
         THEN /\ j[h] # NoEntry
              /\ j[h].client_name = g.client_name
              /\ ConnsOf(j, h) = Kept(i[h], g) \cup {c}
         ELSE j[h] = i[h] /\ ConnsOf(j, h) = ConnsOf(i, h)
  BY <1>4, <1>5
<1> QED
  BY <1>3, <1>6 DEF j

\* A connection that install drops from a host is among those it returns.
LEMMA DroppedIsDisplaced ==
    ASSUME NEW i \in Table, NEW g \in ClientGrant, NEW c \in Conn,
           NEW h \in Host, NEW d \in ConnsOf(i, h),
           d \notin ConnsOf(Install(i, g, c), h)
    PROVE  d \in Displaced(i, g, c)
<1>1. h \in DOMAIN g.hostnames /\ d \notin Kept(i[h], g) \cup {c}
  BY SMTT(30), InstallFacts
<1> QED
  BY SMTT(30), <1>1 DEF Displaced, ConnsOf

\* install returns connections.
LEMMA DisplacedType ==
    ASSUME NEW i \in Table, NEW g \in ClientGrant, NEW c \in Conn
    PROVE  Displaced(i, g, c) \subseteq Conn
<1>1. \A h \in DOMAIN g.hostnames : h \in Host
  BY GrantType
<1> QED
  BY <1>1, ConnsOfType, SMTT(30) DEF Displaced, Table, HostRoutes

\* remove_conn takes exactly c off every host, and drops the hosts it empties.
LEMMA RemoveConnFacts ==
    ASSUME NEW i \in Table, NEW c \in Conn
    PROVE  /\ RemoveConn(i, c) \in Table
           /\ \A h \in Host :
                 /\ ConnsOf(RemoveConn(i, c), h) = ConnsOf(i, h) \ {c}
                 /\ RemoveConn(i, c)[h] # NoEntry =>
                       /\ i[h] # NoEntry
                       /\ RemoveConn(i, c)[h].client_name = i[h].client_name
                       /\ RemoveConn(i, c)[h].conns # {}
<1> DEFINE j == RemoveConn(i, c)
<1>1. ASSUME NEW h \in Host
      PROVE  /\ j[h] \in HostRoutes \cup {NoEntry}
             /\ ConnsOf(j, h) = ConnsOf(i, h) \ {c}
             /\ j[h] # NoEntry =>
                   /\ i[h] # NoEntry
                   /\ j[h].client_name = i[h].client_name
                   /\ j[h].conns # {}
  <2>1. CASE ConnsOf(i, h) \subseteq {c}
    <3>1. j[h] = NoEntry
      BY <2>1 DEF RemoveConn
    <3> QED
      BY <2>1, <3>1 DEF ConnsOf
  <2>2. CASE ~(ConnsOf(i, h) \subseteq {c})
    <3>1. i[h] # NoEntry /\ i[h] \in HostRoutes /\ ConnsOf(i, h) = i[h].conns
      BY <2>2 DEF ConnsOf, Table
    <3>2. j[h] = [i[h] EXCEPT !.conns = i[h].conns \ {c}]
      BY <2>2 DEF RemoveConn
    <3>3. /\ j[h] \in HostRoutes
          /\ j[h].client_name = i[h].client_name
          /\ j[h].conns = i[h].conns \ {c}
      BY <3>1, <3>2 DEF HostRoutes
    <3>4. j[h] # NoEntry
      BY <3>3, NoEntryAssumption
    <3> QED
      BY <2>2, <3>1, <3>3, <3>4 DEF ConnsOf
  <2> QED
    BY <2>1, <2>2
<1>2. j \in Table
  BY <1>1 DEF Table, RemoveConn
<1> QED
  BY <1>1, <1>2

\* kick clears the client's hosts and leaves the others; the connections it
\* returns are those that served the hosts it cleared.
LEMMA KickFacts ==
    ASSUME NEW i \in Table, NEW client \in Client
    PROVE  /\ Kick(i, client) \in Table
           /\ Kicked(i, client) \subseteq Conn
           /\ \A h \in Host :
                 IF h \in OwnedBy(i, client)
                 THEN /\ Kick(i, client)[h] = NoEntry
                      /\ ConnsOf(Kick(i, client), h) = {}
                      /\ ConnsOf(i, h) \subseteq Kicked(i, client)
                 ELSE /\ Kick(i, client)[h] = i[h]
                      /\ ConnsOf(Kick(i, client), h) = ConnsOf(i, h)
<1>1. Kick(i, client) \in Table
  BY DEF Kick, Table
<1>2. Kicked(i, client) \subseteq Conn
  BY ConnsOfType DEF Kicked, OwnedBy
<1>3. ASSUME NEW h \in Host, h \in OwnedBy(i, client)
      PROVE  /\ Kick(i, client)[h] = NoEntry
             /\ ConnsOf(Kick(i, client), h) = {}
             /\ ConnsOf(i, h) \subseteq Kicked(i, client)
  BY <1>3 DEF Kick, Kicked, ConnsOf
<1>4. ASSUME NEW h \in Host, h \notin OwnedBy(i, client)
      PROVE  /\ Kick(i, client)[h] = i[h]
             /\ ConnsOf(Kick(i, client), h) = ConnsOf(i, h)
  BY <1>4 DEF Kick, ConnsOf
<1> QED
  BY <1>1, <1>2, <1>3, <1>4

(* The server. *)

\* The inductive invariant holds initially.
LEMMA InitIInv == Init => IInv
<1> SUFFICES ASSUME Init PROVE IInv
  OBVIOUS
<1>1. TypeOK
  BY DEF Init, TypeOK, EmptyTable, Phase
<1>2. \A h \in Host : inner[h] = NoEntry /\ ConnsOf(inner, h) = {}
  BY DEF Init, EmptyTable, ConnsOf
<1>3. \A c \in Conn : pc[c] = "idle" /\ displaced[c] = {}
  BY DEF Init
<1>4. tunnels = {} /\ announced = {}
  BY DEF Init
<1> QED
  BY <1>1, <1>2, <1>3, <1>4 DEF IInv, HandlerState, OneOwner, LastWriteWinsAlone,
     NoGhost, UnroutedIsDoomed, Routed, Holding, Listed

\* The steps that touch neither the table nor the lists of connections to close
\* preserve the inductive invariant: a handler moves on, a connection closes.
LEMMA QuietSteps ==
    ASSUME IInv, NEW c \in Conn,
           \/ Connect(c) \/ PeerCloses(c) \/ DropConnection(c)
           \/ Handshake(c)
           \/ GrantForClosed(c) \/ GrantForOpen(c) \/ WelcomeSent(c) \/ Register(c)
           \/ TunnelUp(c) \/ ServeEnds(c) \/ Unregister(c) \/ TunnelDown(c)
    PROVE  IInv'
<1> USE DEF IInv, TypeOK, Phase, HandlerState, OneOwner, LastWriteWinsAlone,
     NoGhost, UnroutedIsDoomed, Routed, Holding, Listed, Granted, Doomed
<1>1. CASE Connect(c)
  BY <1>1, SMTT(30) DEF Connect, Goto
<1>2. CASE PeerCloses(c)
  BY <1>2, SMTT(30) DEF PeerCloses
<1>3. CASE DropConnection(c)
  BY <1>3, SMTT(30) DEF DropConnection, Goto, Referenced
<1>4. CASE AcceptBi(c)
  BY <1>4, SMTT(30) DEF AcceptBi, Goto
<1>5. CASE AcceptBiFails(c)
  BY <1>5, SMTT(30) DEF AcceptBiFails, Goto, Return
<1>6. CASE AcceptBiTimeout(c)
  BY <1>6, SMTT(30) DEF AcceptBiTimeout, Goto, Return
<1>7. CASE HelloFrame(c)
  BY <1>7, SMTT(30) DEF HelloFrame, Goto
<1>8. CASE HelloRejected(c)
  BY <1>8, SMTT(30) DEF HelloRejected, Goto
<1>9. CASE HelloEof(c)
  BY <1>9, SMTT(30) DEF HelloEof, Goto, Return
<1>10. CASE AdmitRejected(c)
  BY <1>10, SMTT(30) DEF AdmitRejected, Goto
<1>11. CASE LingerEnds(c)
  BY <1>11, SMTT(30) DEF LingerEnds, Goto, Return
<1>12. CASE GrantForClosed(c)
  BY <1>12, SMTT(30) DEF GrantForClosed, Goto, Return
<1>13. CASE GrantForOpen(c)
  BY SMTT(30), <1>13 DEF GrantForOpen, Goto
<1>14. CASE WelcomeSent(c)
  BY <1>14, SMTT(30) DEF WelcomeSent, Goto
<1>15. CASE Register(c)
  BY <1>15, SMTT(30) DEF Register, Goto
<1>16. CASE TunnelUp(c)
  BY <1>16, SMTT(30) DEF TunnelUp, Goto
<1>17. CASE ServeEnds(c)
  BY <1>17, SMTT(30) DEF ServeEnds, Goto
<1>18. CASE Unregister(c)
  BY <1>18, SMTT(30) DEF Unregister, Goto
<1>19. CASE TunnelDown(c)
  BY <1>19, SMTT(30) DEF TunnelDown, Goto, Return
<1>20. ASSUME NEW g \in Grants, Admit(c, g) PROVE IInv'
  BY <1>20, GrantsAssumption, SMTT(30) DEF Admit, Goto
<1>21. CASE RejectSent(c)
  BY SMTT(30), <1>21 DEF RejectSent, Goto
<1> HIDE DEF IInv, TypeOK, Phase, HandlerState, OneOwner, LastWriteWinsAlone,
     NoGhost, UnroutedIsDoomed, Routed, Holding, Listed, Granted, Doomed
<1> QED
  BY ZenonT(30), <1>1, <1>2, <1>3, <1>4, <1>5, <1>6, <1>7, <1>8, <1>9, <1>10, <1>11, <1>12,
     <1>13, <1>14, <1>15, <1>16, <1>17, <1>18, <1>19, <1>20, <1>21 DEF Handshake

\* Closing a connection that a handler or a kick had taken charge of.
LEMMA ClosingSteps ==
    ASSUME IInv, NEW c \in Conn, CloseDisplaced(c) \/ KickCloses(c)
    PROVE  IInv'
<1> USE DEF IInv, TypeOK, Phase, HandlerState, OneOwner, LastWriteWinsAlone,
     NoGhost, UnroutedIsDoomed, Routed, Holding, Listed, Granted
<1>1. CASE CloseDisplaced(c)
  <2>1. PICK prev \in displaced[c] :
           /\ closed' = closed \cup {prev}
           /\ displaced' = [displaced EXCEPT ![c] = @ \ {prev}]
    BY <1>1, Zenon DEF CloseDisplaced
  <2>2. Doomed \subseteq Doomed'
    BY <1>1, <2>1, SMTT(30) DEF CloseDisplaced, Doomed
  <2>3. TypeOK' /\ HandlerState'
    BY <1>1, <2>1, SMTT(30) DEF CloseDisplaced
  <2>4. OneOwner' /\ LastWriteWinsAlone' /\ NoGhost'
    BY <1>1, SMTT(30) DEF CloseDisplaced
  <2>5. UnroutedIsDoomed'
    BY <1>1, <2>2, ZenonT(30) DEF CloseDisplaced
  <2> QED
    BY <2>3, <2>4, <2>5, ZenonT(30)
<1>2. CASE KickCloses(c)
  <2>1. Doomed \subseteq Doomed'
    BY SMTT(30), <1>2 DEF KickCloses, Doomed
  <2> QED
    BY SMTT(30), <1>2, <2>1 DEF KickCloses
<1> QED
  BY <1>1, <1>2, ZenonT(60)

\* A handler that takes its routes off the table: after its tunnel ended, or
\* because the welcome could not be sent.
LEMMA RemovingSteps ==
    ASSUME IInv, NEW c \in Conn, WelcomeFails(c) \/ RemoveRoutes(c)
    PROVE  IInv'
<1>1. inner \in Table /\ inner' = RemoveConn(inner, c)
  BY SMTT(30) DEF IInv, TypeOK, Table, WelcomeFails, RemoveRoutes
<1>2. inner' \in Table
  BY <1>1, RemoveConnFacts
<1>3. \A h \in Host :
         /\ ConnsOf(inner', h) = ConnsOf(inner, h) \ {c}
         /\ inner'[h] # NoEntry =>
               /\ inner[h] # NoEntry
               /\ inner'[h].client_name = inner[h].client_name
               /\ inner'[h].conns # {}
  BY SMTT(30), <1>1, RemoveConnFacts
<1>4. \A h \in Host : ConnsOf(inner', h) # {} => inner'[h] # NoEntry
  BY DEF ConnsOf
<1> USE DEF IInv, Holding, Listed
<1>5. TypeOK' /\ HandlerState'
  BY SMTT(30), <1>2 DEF TypeOK, HandlerState, Phase, Table, WelcomeFails, RemoveRoutes, Goto, Return
<1>6. /\ \A d \in Conn \ {c} : grant'[d] = grant[d] /\ pc'[d] = pc[d]
      /\ pc'[c] \notin Holding \ {"remove"}
      /\ \A h \in Host : ConnsOf(inner, h) \subseteq Conn
  BY <1>1, ConnsOfType, ZenonT(60) DEF TypeOK, WelcomeFails, RemoveRoutes, Goto, Return
<1>7. OneOwner' /\ LastWriteWinsAlone'
  BY SMTT(30), <1>3, <1>4, <1>6 DEF OneOwner, LastWriteWinsAlone, Granted
<1>8. NoGhost'
  BY <1>3, SMTT(30) DEF NoGhost, Routed, TypeOK, WelcomeFails, RemoveRoutes, Goto, Return
<1>9. UnroutedIsDoomed'
  <2>1. Doomed' = Doomed
    BY DEF Doomed, WelcomeFails, RemoveRoutes
  <2>2. \A d \in Conn : pc[d] \in Holding => Granted(d) \subseteq Host
    BY GrantType, GrantsAssumption DEF HandlerState, Granted
  <2> QED
    BY <1>3, <1>6, <2>1, <2>2 DEF UnroutedIsDoomed, Granted
<1> QED
  BY <1>5, <1>7, <1>8, <1>9

\* A granted connection takes its hosts: what it drops from the table, the
\* handler has taken charge of closing.
LEMMA InstallStep ==
    ASSUME IInv, NEW c \in Conn, InstallRoutes(c)
    PROVE  IInv'
<1> DEFINE g == grant[c]
<1>1. inner \in Table /\ g \in Grants /\ g \in ClientGrant
  BY GrantsAssumption, SMTT(30) DEF IInv, TypeOK, Table, HandlerState, InstallRoutes
<1>2. /\ inner' = Install(inner, g, c)
      /\ displaced' = [displaced EXCEPT ![c] = Displaced(inner, g, c)]
      /\ pc[c] = "install" /\ pc' = [pc EXCEPT ![c] = "installed"]
      /\ UNCHANGED <<server, grant, closed, kicking, tunnels, announced>>
  BY DEF InstallRoutes, Goto
<1> HIDE DEF g
<1>3. inner' \in Table /\ Displaced(inner, g, c) \subseteq Conn
  BY <1>1, <1>2, InstallFacts, DisplacedType, SMTT(30)
<1>4. \A h \in Host :
         IF h \in DOMAIN g.hostnames
         THEN /\ inner'[h] # NoEntry
              /\ inner'[h].client_name = g.client_name
              /\ ConnsOf(inner', h) = Kept(inner[h], g) \cup {c}
         ELSE inner'[h] = inner[h] /\ ConnsOf(inner', h) = ConnsOf(inner, h)
  BY SMTT(30), <1>1, <1>2, InstallFacts
<1>5. ASSUME NEW h \in Host, NEW d \in Kept(inner[h], g)
      PROVE  /\ d \in ConnsOf(inner, h)
             /\ inner[h].client_name = g.client_name
             /\ g.balance = "round_robin"
  BY <1>1, <1>5, GrantType, ZenonT(30) DEF Kept, ConnsOf, Balance
<1>6. ~Routed(inner, c) /\ displaced[c] = {}
  BY <1>2, ZenonT(30) DEF IInv, NoGhost, HandlerState, Holding
<1>7. TypeOK' /\ HandlerState'
  <2>1. pc' \in [Conn -> Phase] /\ displaced' \in [Conn -> SUBSET Conn]
    BY <1>2, <1>3 DEF IInv, TypeOK, Phase
  <2> QED
    BY <1>1, <1>2, <1>3, <2>1 DEF IInv, TypeOK, HandlerState, Holding, Listed, Table, g
<1>8. OneOwner'
  <2>1. SUFFICES ASSUME NEW h \in Host, NEW d \in ConnsOf(inner', h)
                 PROVE  /\ grant[d] # NoGrant
                        /\ grant[d].client_name = inner'[h].client_name
                        /\ h \in DOMAIN grant[d].hostnames
    BY <1>2 DEF OneOwner, Granted
  <2>2. CASE d = c
    BY <1>1, <1>4, <1>6, <2>2, GrantsAssumption DEF Routed, g
  <2>3. CASE d # c
    BY SMTT(30), <1>4, <1>5, <2>3 DEF IInv, OneOwner, Granted
  <2> QED
    BY <2>2, <2>3
<1>9. LastWriteWinsAlone'
  <2>1. SUFFICES ASSUME NEW h \in Host, NEW d \in ConnsOf(inner', h),
                        NEW e \in ConnsOf(inner', h), d # e
                 PROVE  grant[d].balance = "round_robin" \/ grant[e].balance = "round_robin"
    BY <1>2 DEF LastWriteWinsAlone
  <2>2. CASE d = c \/ e = c
    <3>1. h \in DOMAIN g.hostnames /\ Kept(inner[h], g) # {}
      BY SMTT(30), <1>4, <1>6, <2>1, <2>2 DEF Routed
    <3> QED
      BY <1>5, <2>2, <3>1 DEF g
  <2>3. CASE d # c /\ e # c
    BY <1>4, <1>5, <2>1, <2>3, SMTT(30) DEF IInv, LastWriteWinsAlone
  <2> QED
    BY <2>2, <2>3, ZenonT(30)
<1>10. NoGhost'
  <2>1. \A d \in Conn : Routed(inner', d) => d = c \/ Routed(inner, d)
    BY <1>4, <1>5, ZenonT(60) DEF Routed
  <2>2. \A h \in Host : inner'[h] # NoEntry => inner'[h].conns # {}
    BY <1>4 DEF IInv, NoGhost, ConnsOf
  <2> QED
    BY <1>2, <2>1, <2>2 DEF IInv, NoGhost, TypeOK, Holding, Listed
<1>11. UnroutedIsDoomed'
  <2>1. Doomed' = Doomed \cup Displaced(inner, g, c)
    BY SMTT(30), <1>2, <1>6 DEF IInv, TypeOK, Doomed
  <2>2. SUFFICES ASSUME NEW d \in Conn, pc'[d] \in Holding \ {"remove"},
                        NEW h \in DOMAIN grant[d].hostnames
                 PROVE  d \in ConnsOf(inner', h) \/ d \in Doomed'
    BY <1>2 DEF UnroutedIsDoomed, Granted
  <2>3. CASE d = c
    BY <1>1, <1>4, <2>3, GrantType DEF g
  <2>4. CASE d # c
    <3>1. pc[d] \in Holding \ {"remove"}
      BY <1>2, <2>2, <2>4, ZenonT(30) DEF IInv, TypeOK
    <3>2. h \in Host /\ (d \in ConnsOf(inner, h) \/ d \in Doomed)
      BY <3>1, GrantType, GrantsAssumption
         DEF IInv, HandlerState, UnroutedIsDoomed, Granted
    <3>3. d \in ConnsOf(inner, h) /\ d \notin ConnsOf(inner', h)
             => d \in Displaced(inner, g, c)
      BY <1>1, <1>2, <3>2, DroppedIsDisplaced
    <3> QED
      BY <2>1, <3>2, <3>3
  <2> QED
    BY <2>3, <2>4
<1> QED
  BY <1>7, <1>8, <1>9, <1>10, <1>11 DEF IInv

\* A kick: what it drops from the table, it has taken charge of closing.
LEMMA KickStep ==
    ASSUME IInv, NEW client \in Client, KickClient(client)
    PROVE  IInv'
<1>1. inner \in Table /\ inner' = Kick(inner, client)
  BY DEF IInv, TypeOK, Table, KickClient
<1>2. /\ inner' \in Table
      /\ Kicked(inner, client) \subseteq Conn
      /\ \A h \in Host :
            IF h \in OwnedBy(inner, client)
            THEN /\ inner'[h] = NoEntry /\ ConnsOf(inner', h) = {}
                 /\ ConnsOf(inner, h) \subseteq Kicked(inner, client)
            ELSE inner'[h] = inner[h] /\ ConnsOf(inner', h) = ConnsOf(inner, h)
  BY <1>1, KickFacts, ZenonT(30)
<1>3. Doomed' = Doomed \cup Kicked(inner, client)
  BY DEF Doomed, KickClient
<1> USE DEF IInv, KickClient
<1>4. TypeOK' /\ HandlerState'
  BY <1>2 DEF TypeOK, HandlerState, Table
<1>5. OneOwner' /\ LastWriteWinsAlone'
  BY <1>2, SMTT(30) DEF OneOwner, LastWriteWinsAlone, Granted
<1>6. NoGhost'
  BY <1>2, ZenonT(30) DEF NoGhost, Routed
<1>7. UnroutedIsDoomed'
  <2>1. \A d \in Conn : pc[d] \in Holding => Granted(d) \subseteq Host
    BY GrantType, GrantsAssumption DEF HandlerState, Granted
  <2> QED
    BY <1>2, <1>3, <2>1 DEF UnroutedIsDoomed, Granted
<1> QED
  BY <1>4, <1>5, <1>6, <1>7

\* Every step preserves the inductive invariant.
LEMMA NextIInv == IInv /\ [Next]_vars => IInv'
<1> SUFFICES ASSUME IInv, [Next]_vars PROVE IInv'
  OBVIOUS
<1>1. ASSUME NEW c \in Conn, Handler(c) PROVE IInv'
  BY <1>1, QuietSteps, ClosingSteps, RemovingSteps, InstallStep DEF Handler, Tunnel
<1>2. ASSUME NEW c \in Conn, KickCloses(c) PROVE IInv'
  BY <1>2, ClosingSteps
<1>3. ASSUME NEW c \in Conn, Connect(c) \/ PeerCloses(c) \/ DropConnection(c) PROVE IInv'
  BY <1>3, QuietSteps
<1>4. ASSUME NEW client \in Client, KickClient(client) PROVE IInv'
  BY <1>4, KickStep
<1>5. CASE Cancel \/ EndpointClose
  <2>1. TypeOK' /\ HandlerState'
    BY <1>5 DEF IInv, TypeOK, HandlerState, Cancel, EndpointClose
  <2>2. OneOwner' /\ LastWriteWinsAlone' /\ NoGhost'
    BY <1>5, SMTT(30) DEF IInv, OneOwner, LastWriteWinsAlone, NoGhost, Routed,
       Granted, Cancel, EndpointClose
  <2>3. UnroutedIsDoomed'
    BY <1>5 DEF IInv, UnroutedIsDoomed, Granted, Doomed, Cancel, EndpointClose
  <2> QED
    BY <2>1, <2>2, <2>3 DEF IInv
<1>6. CASE UNCHANGED vars
  <2>1. TypeOK' /\ HandlerState'
    BY <1>6, Zenon DEF IInv, TypeOK, HandlerState, vars
  <2>2. OneOwner' /\ LastWriteWinsAlone' /\ NoGhost'
    BY <1>6, ZenonT(60) DEF IInv, OneOwner, LastWriteWinsAlone, NoGhost, Routed,
       Granted, vars
  <2>3. UnroutedIsDoomed'
    BY <1>6 DEF IInv, UnroutedIsDoomed, Granted, Doomed, vars
  <2> QED
    BY <2>1, <2>2, <2>3 DEF IInv
<1> QED
  BY <1>1, <1>2, <1>3, <1>4, <1>5, <1>6 DEF Next, ShutDown

\* The inductive invariant holds in every reachable state.
THEOREM Invariance == Spec => []IInv
BY InitIInv, NextIInv, PTL DEF Spec

\* Every variable keeps its type, whatever the connections, clients, hosts and
\* grants.
THEOREM TypeCorrect == Spec => []TypeOK
<1>1. IInv => TypeOK
  BY DEF IInv
<1> QED
  BY <1>1, Invariance, PTL

\* A hostname is only ever served by connections of the one identity that owns
\* it, each of which the backend granted that hostname.
THEOREM RoutesHaveOneOwner == Spec => []OneOwner
<1>1. IInv => OneOwner
  BY DEF IInv
<1> QED
  BY <1>1, Invariance, PTL

\* Two last-write-wins connections never serve the same hostname.
THEOREM LastWriteWins == Spec => []LastWriteWinsAlone
<1>1. IInv => LastWriteWinsAlone
  BY DEF IInv
<1> QED
  BY <1>1, Invariance, PTL

\* A handler that returned left nothing behind, by whichever path it returned.
THEOREM HandlersCleanUp == Spec => []NoGhost
<1>1. IInv => NoGhost
  BY DEF IInv
<1> QED
  BY <1>1, Invariance, PTL

\* A tunnel that lost a hostname is closed, or some task is about to close it.
THEOREM NoZombieTunnels == Spec => []UnroutedIsDoomed
<1>1. IInv => UnroutedIsDoomed
  BY DEF IInv
<1> QED
  BY <1>1, Invariance, PTL

\* A kick closes, or takes charge of closing, every registered tunnel of the
\* client that serves a hostname: a tunnel that is not in the table any more is
\* doomed already, and one that is in the table is under its own client's name.
THEOREM KickReachesTunnels == Spec => KickReaches
<1>1. ASSUME IInv, NEW client \in Client, KickClient(client), NEW c \in tunnels,
             grant[c].client_name = client, Granted(c) # {}
      PROVE  c \in Doomed'
  <2>1. inner \in Table /\ c \in Conn /\ pc[c] \in Listed
    BY <1>1 DEF IInv, TypeOK, Table, NoGhost
  <2>2. Doomed' = Doomed \cup Kicked(inner, client)
    BY <1>1 DEF Doomed, KickClient
  <2>3. CASE pc[c] \in {"remove", "unregister"}
    BY <1>1, <2>1, <2>2, <2>3 DEF IInv, HandlerState, Doomed
  <2>4. CASE pc[c] \notin {"remove", "unregister"}
    <3>1. pc[c] \in Holding \ {"remove"}
      BY <2>1, <2>4 DEF Holding, Listed
    <3>2. PICK h \in Granted(c) : h \in Host
      BY <1>1, <2>1, <3>1, GrantType, GrantsAssumption DEF IInv, HandlerState, Granted
    <3>3. c \in ConnsOf(inner, h) \/ c \in Doomed
      BY <1>1, <2>1, <3>1 DEF IInv, UnroutedIsDoomed
    <3>4. CASE c \in ConnsOf(inner, h)
      <4>1. h \in OwnedBy(inner, client)
        BY <1>1, <3>2, <3>4 DEF IInv, OneOwner, OwnedBy, ConnsOf
      <4> QED
        BY <2>1, <2>2, <3>2, <3>4, <4>1, KickFacts
    <3> QED
      BY <2>2, <3>3, <3>4
  <2> QED
    BY <2>3, <2>4, Zenon
<1>2. IInv /\ [Next]_vars =>
         [\A client \in Client : KickClient(client) =>
             \A c \in tunnels :
                 (grant[c].client_name = client /\ Granted(c) # {}) => c \in Doomed']_vars
  BY <1>1
<1> QED
  BY <1>2, Invariance, PTL DEF Spec, KickReaches
-----------------------------------------------------------------------------
(* TunnelServer implements TunnelTable. *)

\* The same as Live, under the inductive invariant: a connection is live when it
\* is in the table and no task has taken charge of closing it.
LiveIs ==
    /\ \A c \in Conn :
          /\ Routed(inner, c) /\ c \notin Doomed => Live[c] = grant[c] /\ grant[c] # NoGrant
          /\ ~Routed(inner, c) \/ c \in Doomed => Live[c] = NoGrant
    /\ \A c \in Conn : Live[c] # NoGrant => c \in Open

\* A live connection is in the table under every hostname of its grant.
LEMMA LiveIsInv == IInv => LiveIs
<1> SUFFICES ASSUME IInv, NEW c \in Conn
             PROVE  /\ Routed(inner, c) /\ c \notin Doomed
                          => Live[c] = grant[c] /\ grant[c] # NoGrant
                    /\ ~Routed(inner, c) \/ c \in Doomed => Live[c] = NoGrant
                    /\ Live[c] # NoGrant => c \in Open
  BY DEF LiveIs
<1>1. ASSUME Routed(inner, c), c \notin Doomed
      PROVE  Live[c] = grant[c] /\ grant[c] # NoGrant /\ c \in Open
  <2>1. PICK h \in Host : c \in ConnsOf(inner, h)
    BY <1>1 DEF Routed
  <2>2. grant[c] # NoGrant /\ h \in Granted(c)
    BY <2>1 DEF IInv, OneOwner
  <2>3. pc[c] \in Holding \ {"remove"} /\ c \notin closed
    BY <1>1 DEF IInv, NoGhost, HandlerState, Doomed
  <2>4. \A k \in Granted(c) : c \in ConnsOf(inner, k)
    BY <1>1, <2>3 DEF IInv, UnroutedIsDoomed
  <2> QED
    BY <1>1, <2>2, <2>3, <2>4 DEF Live, Open, Holding
<1>2. ASSUME ~Routed(inner, c) PROVE Live[c] = NoGrant
  <2>1. grant[c] # NoGrant => Granted(c) \subseteq Host
    BY GrantType DEF IInv, TypeOK, Granted
  <2> QED
    BY <1>2, <2>1 DEF Live, Routed
<1>3. ASSUME c \in Doomed PROVE Live[c] = NoGrant
  BY <1>3 DEF Live
<1> QED
  BY <1>1, <1>2, <1>3

\* The same in the next state.
LEMMA LiveIsNext == IInv' => LiveIs'
BY LiveIsInv, PTL

\* A step that changes what one connection serves, and leaves it alone unless it
\* ends, is a step of the abstract table.
LEMMA OneConnection ==
    ASSUME IInv, IInv', NEW c \in Conn,
           \A d \in Conn \ {c} : Live'[d] = Live[d] /\ (d \in Open' <=> d \in Open),
           c \in Open' => Live'[c] = Live[c]
    PROVE  [Promise!Next]_(Promise!vars)
<1>1. LiveIs /\ LiveIs'
  BY LiveIsInv, LiveIsNext
<1>2. Open \subseteq Conn /\ Open' \subseteq Conn
  BY ZenonT(60) DEF Open
<1>3. Live = [d \in Conn |-> Live[d]] /\ Live' = [d \in Conn |-> Live'[d]]
  BY DEF Live
<1>4. CASE c \in Open /\ c \notin Open'
  <2>1. Open' = Open \ {c}
    BY <1>2, <1>4
  <2>2. Live' = [Live EXCEPT ![c] = NoGrant]
    BY <1>1, <1>3, <1>4 DEF LiveIs
  <2> QED
    BY <1>4, <2>1, <2>2, Zenon DEF Promise!Next, Promise!Close
<1>5. CASE c \notin Open /\ c \in Open'
  <2>1. Open' = Open \cup {c} /\ Live' = Live
    BY <1>2, <1>3, <1>5
  <2> QED
    BY <1>5, <2>1 DEF Promise!Next, Promise!Connect
<1>6. CASE c \in Open <=> c \in Open'
  <2>1. Open' = Open
    BY SMTT(30), <1>2, <1>6
  <2>2. Live'[c] = Live[c]
    BY <1>1, <1>6 DEF LiveIs
  <2>3. Live' = Live
    BY <1>3, <2>2
  <2> QED
    BY <2>1, <2>3 DEF Promise!vars
<1> QED
  BY <1>4, <1>5, <1>6

\* The steps of QuietSteps leave the table alone; one that ends the connection
\* it is about closes it, the others stutter.
LEMMA QuietRefines ==
    ASSUME IInv, IInv', NEW c \in Conn,
           \/ Connect(c) \/ PeerCloses(c) \/ DropConnection(c)
           \/ Handshake(c)
           \/ GrantForClosed(c) \/ GrantForOpen(c) \/ WelcomeSent(c) \/ Register(c)
           \/ TunnelUp(c) \/ ServeEnds(c) \/ Unregister(c) \/ TunnelDown(c)
    PROVE  [Promise!Next]_(Promise!vars)
<1> DEFINE Effect ==
      /\ inner' = inner /\ displaced' = displaced /\ kicking' = kicking
      /\ closed' \in {closed, closed \cup {c}, closed \ {c}}
      /\ pc'[c] \notin {"idle", "done"} => closed \subseteq closed'
      /\ \A d \in Conn \ {c} : pc'[d] = pc[d] /\ grant'[d] = grant[d]
      /\ pc'[c] \in {"idle", "done"} \/ grant'[c] = grant[c] \/ pc[c] \in {"admit", "granted"}
<1>1. Effect
  <2> USE DEF IInv, TypeOK, Goto, Return
  <2>1. CASE Connect(c) \/ PeerCloses(c) \/ DropConnection(c)
    BY <2>1 DEF Connect, PeerCloses, DropConnection
  <2>2. CASE AcceptBi(c) \/ AcceptBiFails(c) \/ AcceptBiTimeout(c)
    BY SMTT(30), <2>2 DEF AcceptBi, AcceptBiFails, AcceptBiTimeout
  <2>3. CASE HelloFrame(c) \/ HelloRejected(c) \/ HelloEof(c)
    BY <2>3, ZenonT(60) DEF HelloFrame, HelloRejected, HelloEof
  <2>4. ASSUME NEW g \in Grants, Admit(c, g) PROVE Effect
    BY <2>4, ZenonT(60) DEF Admit
  <2>5. CASE AdmitRejected(c) \/ RejectSent(c) \/ LingerEnds(c)
    BY <2>5, ZenonT(60) DEF AdmitRejected, RejectSent, LingerEnds
  <2>6. CASE GrantForClosed(c) \/ GrantForOpen(c) \/ WelcomeSent(c)
    BY <2>6, ZenonT(60) DEF GrantForClosed, GrantForOpen, WelcomeSent
  <2>7. CASE Register(c) \/ TunnelUp(c) \/ ServeEnds(c)
    BY <2>7, ZenonT(60) DEF Register, TunnelUp, ServeEnds
  <2>8. CASE Unregister(c) \/ TunnelDown(c)
    BY SMTT(30), <2>8 DEF Unregister, TunnelDown
  <2> HIDE DEF IInv, TypeOK, Goto, Return
  <2> QED
    BY <2>1, <2>2, <2>3, <2>4, <2>5, <2>6, <2>7, <2>8, ZenonT(60) DEF Handshake
<1>2. LiveIs /\ LiveIs'
  BY LiveIsInv, LiveIsNext, Zenon
<1>3. \A d \in Conn : Routed(inner', d) <=> Routed(inner, d)
  BY <1>1, Zenon
<1>4. ASSUME NEW d \in Conn \ {c}
      PROVE  Live'[d] = Live[d] /\ (d \in Open' <=> d \in Open)
  <2>1. d \in closed' <=> d \in closed
    BY <1>1, Zenon
  <2>2. d \in Doomed' <=> d \in Doomed
    BY <1>1, <2>1, ZenonT(60) DEF Doomed
  <2>3. d \in Open' <=> d \in Open
    BY <1>1, <2>1, Zenon DEF Open
  <2> QED
    BY <1>1, <1>2, <1>3, <2>2, <2>3, ZenonT(60) DEF LiveIs
<1>5. ASSUME c \in Open' PROVE Live'[c] = Live[c]
  <2>1. pc'[c] \notin {"idle", "done"} /\ c \notin closed' /\ c \notin closed
    BY <1>1, <1>5, Zenon DEF Open
  <2>2. c \in Doomed' <=> c \in Doomed
    BY <1>1, <2>1, Zenon DEF Doomed
  <2>3. Routed(inner, c) => grant'[c] = grant[c]
    BY <1>1, <2>1, Zenon DEF IInv, NoGhost, Holding
  <2> QED
    BY <1>2, <1>3, <2>2, <2>3, Zenon DEF LiveIs
<1> QED
  BY <1>4, <1>5, OneConnection

\* Closing what was displaced or kicked is invisible but for the connection
\* that ends: it was not live any more.
LEMMA ClosingRefines ==
    ASSUME IInv, IInv', NEW c \in Conn, CloseDisplaced(c) \/ KickCloses(c)
    PROVE  [Promise!Next]_(Promise!vars)
<1>1. PICK prev \in Conn : closed' = closed \cup {prev} /\ Doomed' = Doomed
  <2>1. CASE CloseDisplaced(c)
    <3>1. PICK prev \in displaced[c] :
             /\ closed' = closed \cup {prev}
             /\ displaced' = [displaced EXCEPT ![c] = @ \ {prev}]
      BY <2>1, ZenonT(60) DEF CloseDisplaced
    <3>2. prev \in Conn /\ kicking' = kicking /\ displaced \in [Conn -> SUBSET Conn]
      BY <2>1 DEF CloseDisplaced, IInv, TypeOK
    <3>3. \A d \in Conn : displaced'[d] \subseteq displaced[d]
      BY <3>1, <3>2
    <3>4. \A d \in Conn : displaced[d] \subseteq displaced'[d] \cup {prev}
      BY <3>1, <3>2
    <3>5. Doomed' = Doomed
      BY SMTT(30), <3>1, <3>2, <3>3, <3>4 DEF Doomed
    <3> QED
      BY <3>1, <3>2, <3>5
  <2>2. CASE KickCloses(c)
    BY <2>2 DEF KickCloses, Doomed
  <2> QED
    BY <2>1, <2>2
<1>2. inner' = inner /\ grant' = grant /\ pc' = pc
  BY DEF CloseDisplaced, KickCloses
<1>3. Live' = Live
  BY <1>1, <1>2 DEF Live, Granted
<1>4. \A d \in Conn \ {prev} : d \in Open' <=> d \in Open
  BY <1>1, <1>2 DEF Open
<1> QED
  BY <1>3, <1>4, OneConnection

\* A handler takes its routes off the table: only its own connection is touched.
LEMMA RemovingRefines ==
    ASSUME IInv, IInv', NEW c \in Conn, WelcomeFails(c) \/ RemoveRoutes(c)
    PROVE  [Promise!Next]_(Promise!vars)
<1>1. LiveIs /\ LiveIs'
  BY LiveIsInv, LiveIsNext
<1>2. /\ Doomed' = Doomed /\ closed' = closed
      /\ \A d \in Conn \ {c} : grant'[d] = grant[d] /\ pc'[d] = pc[d]
  BY SMTT(30) DEF IInv, TypeOK, WelcomeFails, RemoveRoutes, Goto, Return, Doomed
<1>3. c \notin Open'
  BY DEF IInv, TypeOK, HandlerState, WelcomeFails, RemoveRoutes, Goto, Return, Open
<1>4. inner \in Table /\ inner' = RemoveConn(inner, c)
  BY Zenon DEF IInv, TypeOK, Table, WelcomeFails, RemoveRoutes
<1>5. \A h \in Host : ConnsOf(inner', h) = ConnsOf(inner, h) \ {c}
  BY SMTT(30), <1>4, RemoveConnFacts
<1>6. \A d \in Conn \ {c} : Routed(inner', d) <=> Routed(inner, d)
  BY <1>5, SMTT(30) DEF Routed
<1>7. \A d \in Conn \ {c} : Live'[d] = Live[d] /\ (d \in Open' <=> d \in Open)
  <2>1. \A d \in Conn \ {c} : d \in Open' <=> d \in Open
    BY <1>2 DEF Open
  <2> QED
    BY <1>1, <1>2, <1>6, <2>1, ZenonT(60) DEF LiveIs
<1> QED
  BY <1>3, <1>7, OneConnection

\* An install is the abstract Up: a tunnel it drops from one hostname is one its
\* grant conflicts with, and it is dropped from all.
LEMMA InstallRefines ==
    ASSUME IInv, IInv', DoomedHeld, NEW c \in Conn, InstallRoutes(c)
    PROVE  [Promise!Next]_(Promise!vars)
<1>1. PICK g : g = grant[c]
  OBVIOUS
<1>2. inner \in Table /\ g \in Grants /\ g \in ClientGrant
  BY <1>1, GrantsAssumption, ZenonT(60) DEF IInv, TypeOK, Table, HandlerState, InstallRoutes
<1>3. /\ inner' = Install(inner, g, c)
      /\ displaced' = [displaced EXCEPT ![c] = Displaced(inner, g, c)]
      /\ pc[c] = "install" /\ pc' = [pc EXCEPT ![c] = "installed"]
      /\ UNCHANGED <<grant, closed, kicking>>
  BY <1>1 DEF InstallRoutes, Goto
<1>4. LiveIs /\ LiveIs'
  BY LiveIsInv, LiveIsNext, Zenon
<1>5. ~Routed(inner, c) /\ displaced[c] = {}
  BY <1>3, Zenon DEF IInv, NoGhost, HandlerState, Holding
<1>6. Doomed' = Doomed \cup Displaced(inner, g, c)
  BY SMTT(30), <1>3, <1>5 DEF IInv, TypeOK, Doomed
<1>7. \A h \in Host :
         IF h \in DOMAIN g.hostnames
         THEN ConnsOf(inner', h) = Kept(inner[h], g) \cup {c}
         ELSE ConnsOf(inner', h) = ConnsOf(inner, h)
  BY <1>2, <1>3, InstallFacts, ZenonT(60)
<1>8. Open' = Open
  BY <1>3 DEF Open, IInv, TypeOK
<1>9. DOMAIN g.hostnames \subseteq Host
  BY <1>2, GrantType, ZenonT(60)
<1>10. Live'[c] = IF c \in Open /\ DOMAIN g.hostnames # {} THEN g ELSE NoGrant
  <2>1. Routed(inner', c) <=> DOMAIN g.hostnames # {}
    BY <1>5, <1>7, <1>9 DEF Routed
  <2>2. c \notin Displaced(inner, g, c)
    BY <1>5, <1>9 DEF Displaced, Routed, ConnsOf
  <2>3. c \in Doomed => c \in closed
    BY <1>3 DEF DoomedHeld, Doomed, Holding
  <2>4. c \in Doomed' <=> c \in closed
    BY <1>6, <2>2, <2>3 DEF Doomed
  <2>5. c \in Open <=> c \notin closed
    BY <1>3 DEF Open
  <2> QED
    BY <1>1, <1>3, <1>4, <2>1, <2>4, <2>5 DEF LiveIs
<1>11. ASSUME NEW d \in Conn \ {c}, Live[d] = NoGrant PROVE Live'[d] = NoGrant
  <2>1. Routed(inner', d) => Routed(inner, d)
    BY <1>2, <1>7, ConnsOfType, SMTT(30) DEF Routed
  <2> QED
    BY <1>4, <1>6, <1>11, <2>1, Zenon DEF LiveIs
<1>12. ASSUME NEW d \in Conn \ {c}, Live[d] # NoGrant
       PROVE  Live'[d] = IF Promise!Ousts(g, Live[d]) THEN NoGrant ELSE Live[d]
  <2>1. /\ Live[d] = grant[d] /\ Routed(inner, d) /\ d \notin Doomed
        /\ grant[d] \in ClientGrant
    BY <1>4, <1>12 DEF LiveIs, IInv, TypeOK
  <2>2. \A h \in DOMAIN grant[d].hostnames : d \in ConnsOf(inner, h)
    BY <1>12, Zenon DEF Live, Granted
  <2>3. \A h \in Host : d \in ConnsOf(inner, h) =>
           /\ h \in DOMAIN grant[d].hostnames
           /\ inner[h] # NoEntry /\ inner[h].conns = ConnsOf(inner, h)
           /\ inner[h].client_name = grant[d].client_name
    BY ZenonT(60) DEF IInv, OneOwner, Granted, ConnsOf
  <2>4. CASE Promise!Ousts(g, Live[d])
    <3>1. PICK h \in DOMAIN g.hostnames : h \in DOMAIN grant[d].hostnames
      BY <2>1, <2>4 DEF Promise!Ousts
    <3>2. h \in Host /\ d \in ConnsOf(inner, h)
      BY <1>9, <2>2, <3>1, Zenon
    <3>3. d \notin Kept(inner[h], g)
      BY <2>1, <2>3, <2>4, <3>2, Zenon DEF Promise!Ousts, Kept
    <3>4. d \in Displaced(inner, g, c)
      BY SMTT(30), <2>3, <3>1, <3>2, <3>3 DEF Displaced
    <3> QED
      BY <1>4, <1>6, <2>4, <3>4, ZenonT(30) DEF LiveIs
  <2>5. CASE ~Promise!Ousts(g, Live[d])
    <3>1. ASSUME NEW h \in Host, h \in DOMAIN g.hostnames, d \in ConnsOf(inner, h)
          PROVE  d \in Kept(inner[h], g) /\ inner[h].client_name = g.client_name
      BY <1>12, <2>1, <2>3, <2>5, <3>1 DEF Promise!Ousts, Kept
    <3>2. d \notin Displaced(inner, g, c)
      <4>1. SUFFICES ASSUME NEW h \in DOMAIN g.hostnames,
                            d \in IF inner[h] # NoEntry /\ inner[h].client_name # g.client_name
                                  THEN inner[h].conns
                                  ELSE ConnsOf(inner, h) \ (Kept(inner[h], g) \cup {c})
                     PROVE  FALSE
        BY DEF Displaced
      <4>2. h \in Host /\ d \in ConnsOf(inner, h)
        BY <1>9, <4>1 DEF ConnsOf
      <4> QED
        BY <3>1, <4>1, <4>2
    <3>3. Routed(inner', d)
      BY <1>7, <2>1, <3>1, ZenonT(30) DEF Routed
    <3> QED
      BY <1>3, <1>4, <1>6, <2>1, <2>5, <3>2, <3>3, ZenonT(60) DEF LiveIs
  <2> QED
    BY <2>4, <2>5, ZenonT(60)
<1>13. Live[c] = NoGrant
  BY <1>4, <1>5 DEF LiveIs
<1>14. \A d \in Conn \ {c} :
          Live'[d] = IF Promise!Ousts(g, Live[d]) THEN NoGrant ELSE Live[d]
  BY <1>11, <1>12
<1>15. Live' = [d \in Conn |-> Live'[d]]
  BY DEF Live
<1>16. Promise!Up(c, g)
  BY <1>8, <1>10, <1>13, <1>14, <1>15 DEF Promise!Up
<1> QED
  BY <1>2, <1>16 DEF Promise!Next

\* A kick is the abstract Revoke: it reaches the live tunnels of the client, all
\* of them and no others.
LEMMA KickRefines ==
    ASSUME IInv, IInv', NEW client \in Client, KickClient(client)
    PROVE  [Promise!Next]_(Promise!vars)
<1>1. LiveIs /\ LiveIs'
  BY LiveIsInv, LiveIsNext
<1>2. /\ inner' = Kick(inner, client)
      /\ kicking' = kicking \cup Kicked(inner, client)
      /\ UNCHANGED <<pc, grant, closed, displaced>>
  BY DEF KickClient
<1>3. inner \in Table
  BY DEF IInv, TypeOK, Table
<1>4. \A h \in Host :
         IF h \in OwnedBy(inner, client)
         THEN ConnsOf(inner', h) = {} /\ ConnsOf(inner, h) \subseteq Kicked(inner, client)
         ELSE ConnsOf(inner', h) = ConnsOf(inner, h)
  BY <1>2, <1>3, KickFacts
<1>5. Doomed' = Doomed \cup Kicked(inner, client)
  BY <1>2, ZenonT(60) DEF Doomed
<1>6. ASSUME NEW d \in Conn, Live[d] = NoGrant PROVE Live'[d] = NoGrant
  <2>1. Routed(inner', d) => Routed(inner, d)
    BY <1>4 DEF Routed
  <2> QED
    BY <1>1, <1>5, <1>6, <2>1 DEF LiveIs
<1>7. ASSUME NEW d \in Conn, Live[d] # NoGrant
      PROVE  Live'[d] = IF Live[d].client_name = client THEN NoGrant ELSE Live[d]
  <2>1. Live[d] = grant[d] /\ Routed(inner, d) /\ d \notin Doomed
    BY <1>1, <1>7 DEF LiveIs
  <2>2. PICK h \in Host : d \in ConnsOf(inner, h)
    BY <2>1, Zenon DEF Routed
  <2>3. \A k \in Host : d \in ConnsOf(inner, k) =>
           (k \in OwnedBy(inner, client) <=> grant[d].client_name = client)
    BY ZenonT(60) DEF IInv, OneOwner, ConnsOf, OwnedBy
  <2>4. CASE grant[d].client_name = client
    <3>1. d \in Kicked(inner, client)
      BY <1>4, <2>2, <2>3, <2>4, ZenonT(60)
    <3> QED
      BY <1>1, <1>5, <2>1, <2>4, <3>1 DEF LiveIs
  <2>5. CASE grant[d].client_name # client
    <3>1. d \notin Kicked(inner, client)
      BY <2>3, <2>5 DEF Kicked, OwnedBy
    <3>2. Routed(inner', d)
      BY <1>4, <2>2, <2>3, <2>5 DEF Routed
    <3> QED
      BY <1>1, <1>2, <1>5, <2>1, <2>5, <3>1, <3>2, ZenonT(60) DEF LiveIs
  <2> QED
    BY <2>1, <2>4, <2>5
<1>8. Live' = [d \in Conn |-> IF Live[d] # NoGrant /\ Live[d].client_name = client
                              THEN NoGrant ELSE Live[d]]
  <2>1. Live' = [d \in Conn |-> Live'[d]]
    BY DEF Live
  <2> QED
    BY <1>6, <1>7, <2>1
<1>9. Open' = Open
  BY <1>2 DEF Open
<1>10. Promise!Revoke(client)
  BY <1>8, <1>9, ZenonT(60) DEF Promise!Revoke
<1> QED
  BY <1>10 DEF Promise!Next

\* DoomedHeld is preserved: only connections in the table are displaced or
\* kicked, and an id goes back to idle only when nothing refers to it.
LEMMA DoomedHeldNext == IInv /\ DoomedHeld /\ [Next]_vars => DoomedHeld'
<1> SUFFICES ASSUME IInv, DoomedHeld, [Next]_vars,
                    NEW x \in Conn, (x \in kicking \/ \E d \in Conn : x \in displaced[d])'
             PROVE  pc'[x] \in Holding \cup {"unregister", "depart", "done"}
  BY DEF DoomedHeld
<1> DEFINE Past == Holding \cup {"unregister", "depart", "done"}
           Marked == x \in kicking \/ \E d \in Conn : x \in displaced[d]
<1>1. Marked => pc[x] \in Past
  BY DEF DoomedHeld
<1>2. Routed(inner, x) => pc[x] \in Past
  BY Zenon DEF IInv, NoGhost
<1>3. Marked \/ Routed(inner, x)
  <2>1. CASE UNCHANGED <<kicking, displaced>>
    BY <2>1
  <2>2. ASSUME NEW c \in Conn, InstallRoutes(c) PROVE Marked \/ Routed(inner, x)
    <3>1. \A d \in Conn \ {c} : displaced'[d] = displaced[d]
      BY <2>2 DEF InstallRoutes, IInv, TypeOK
    <3>2. displaced'[c] = Displaced(inner, grant[c], c) /\ kicking' = kicking
      BY <2>2, ZenonT(60) DEF InstallRoutes, IInv, TypeOK
    <3>3. DOMAIN grant[c].hostnames \subseteq Host
      BY <2>2, GrantType, GrantsAssumption DEF InstallRoutes, IInv, HandlerState
    <3>4. x \in Displaced(inner, grant[c], c) => Routed(inner, x)
      BY <3>3 DEF Displaced, Routed, ConnsOf
    <3> QED
      BY <3>1, <3>2, <3>4
  <2>3. ASSUME NEW c \in Conn, CloseDisplaced(c) PROVE Marked \/ Routed(inner, x)
    BY <2>3, ZenonT(60) DEF CloseDisplaced, IInv, TypeOK
  <2>4. ASSUME NEW c \in Conn, KickCloses(c) PROVE Marked \/ Routed(inner, x)
    BY <2>4, Zenon DEF KickCloses
  <2>5. ASSUME NEW client \in Client, KickClient(client) PROVE Marked \/ Routed(inner, x)
    BY <2>5, Zenon DEF KickClient, Kicked, OwnedBy, Routed
  <2>6. CASE \E c \in Conn : Handler(c)
    BY <2>1, <2>2, <2>3, <2>6, Zenon DEF Handler, Handshake, Tunnel, AcceptBi, AcceptBiFails,
       AcceptBiTimeout, HelloFrame, HelloRejected, HelloEof, Admit, AdmitRejected,
       RejectSent, LingerEnds, GrantForClosed, GrantForOpen, WelcomeSent, WelcomeFails,
       Register, TunnelUp, ServeEnds, RemoveRoutes, Unregister, TunnelDown
  <2> QED
    BY <2>1, <2>4, <2>5, <2>6, Zenon DEF Next, vars, Connect, PeerCloses, DropConnection,
       Cancel, EndpointClose, ShutDown
<1>4. pc[x] \in Past
  BY <1>1, <1>2, <1>3
<1>5. ASSUME NEW c \in Conn, Handler(c) PROVE pc'[x] \in Past
  <2>1. CASE c # x
    BY <1>4, <1>5, <2>1, Zenon DEF IInv, TypeOK, Goto, Return,
       Handler, Handshake, Tunnel, AcceptBi, AcceptBiFails,
       AcceptBiTimeout, HelloFrame, HelloRejected, HelloEof, Admit, AdmitRejected,
       RejectSent, LingerEnds, GrantForClosed, GrantForOpen, InstallRoutes,
       CloseDisplaced, WelcomeSent, WelcomeFails,
       Register, TunnelUp, ServeEnds, RemoveRoutes, Unregister, TunnelDown
  <2>2. CASE c = x
    <3>1. ~Handshake(x)
      BY <1>4 DEF Holding, Handshake, AcceptBi, AcceptBiFails,
         AcceptBiTimeout, HelloFrame, HelloRejected, HelloEof, Admit, AdmitRejected,
         RejectSent, LingerEnds
    <3> QED
      BY <1>4, <1>5, <2>2, <3>1, ZenonT(60) DEF IInv, TypeOK, Goto, Return, Holding,
         Handler, Tunnel, GrantForClosed, GrantForOpen, InstallRoutes,
         CloseDisplaced, WelcomeSent, WelcomeFails,
         Register, TunnelUp, ServeEnds, RemoveRoutes, Unregister, TunnelDown
  <2> QED
    BY <2>1, <2>2, Zenon
<1>6. ASSUME NEW c \in Conn, Connect(c) PROVE pc'[x] \in Past
  BY <1>4, <1>6 DEF Connect, Goto, Holding, IInv, TypeOK
<1>7. ASSUME NEW c \in Conn, DropConnection(c) PROVE pc'[x] \in Past
  <2>1. c # x
    BY <1>3, <1>7 DEF DropConnection, Referenced
  <2> QED
    BY <1>4, <1>7, <2>1 DEF DropConnection, Goto, IInv, TypeOK
<1> QED
  BY <1>4, <1>5, <1>6, <1>7 DEF Next, vars, KickCloses, PeerCloses, KickClient,
     Cancel, EndpointClose, ShutDown

\* DoomedHeld holds in every reachable state.
LEMMA DoomedHeldInv == Spec => []DoomedHeld
<1>1. Init => DoomedHeld
  BY DEF Init, DoomedHeld
<1> QED
  BY <1>1, Invariance, DoomedHeldNext, PTL DEF Spec

\* Every step of the server is a step of the abstract table or leaves it alone.
LEMMA NextRefines ==
    IInv /\ IInv' /\ DoomedHeld /\ [Next]_vars => [Promise!Next]_(Promise!vars)
<1> SUFFICES ASSUME IInv, IInv', DoomedHeld, [Next]_vars
             PROVE  [Promise!Next]_(Promise!vars)
  OBVIOUS
<1>1. ASSUME NEW c \in Conn, Handler(c) PROVE [Promise!Next]_(Promise!vars)
  BY <1>1, QuietRefines, ClosingRefines, RemovingRefines, InstallRefines
     DEF Handler, Tunnel
<1>2. ASSUME NEW c \in Conn, KickCloses(c) PROVE [Promise!Next]_(Promise!vars)
  BY <1>2, ClosingRefines
<1>3. ASSUME NEW c \in Conn, Connect(c) \/ PeerCloses(c) \/ DropConnection(c)
      PROVE  [Promise!Next]_(Promise!vars)
  BY <1>3, QuietRefines
<1>4. ASSUME NEW client \in Client, KickClient(client) PROVE [Promise!Next]_(Promise!vars)
  BY <1>4, KickRefines
<1>5. CASE EndpointClose
  <2>1. Open' = {}
    BY <1>5, ZenonT(60) DEF EndpointClose, InUse, Open
  <2>2. \A c \in Conn : Live'[c] = NoGrant
    BY <2>1, LiveIsNext DEF LiveIs
  <2>3. Live' = [c \in Conn |-> NoGrant]
    BY <2>2, Zenon DEF Live
  <2> QED
    BY <2>1, <2>3 DEF Promise!Next, Promise!Shutdown
<1>6. CASE Cancel \/ ShutDown \/ UNCHANGED vars
  <2>1. UNCHANGED <<pc, grant, closed, inner, displaced, kicking>>
    BY <1>6 DEF Cancel, ShutDown, vars
  <2>2. Doomed' = Doomed
    BY <2>1 DEF Doomed
  <2> QED
    BY <2>1, <2>2 DEF Promise!vars, Open, Live, Granted
<1> QED
  BY <1>1, <1>2, <1>3, <1>4, <1>5, <1>6 DEF Next

\* The server implements the abstract table, whatever the connections, clients,
\* hosts and grants: a tunnel gets and loses all its hostnames in one step, and
\* it loses them because its connection ended, because a grant that conflicts
\* with its own went up, or because its client was revoked.
THEOREM Refinement == Spec => ImplementsTable
<1>1. Init => Promise!Init
  <2> SUFFICES ASSUME Init PROVE Promise!Init
    OBVIOUS
  <2>1. Open = {}
    BY DEF Init, Open
  <2>2. Live = [c \in Conn |-> NoGrant]
    BY DEF Init, Live
  <2> QED
    BY <2>1, <2>2 DEF Promise!Init
<1> QED
  BY <1>1, NextRefines, Invariance, DoomedHeldInv, PTL DEF Spec, ImplementsTable, Promise!Spec

\* Apart from connections somebody is about to close, the routing table shows
\* under each hostname exactly the tunnels the abstract table has serving it.
THEOREM TableShowsServing == Spec => [](\A h \in Host :
                                           ConnsOf(inner, h) \ Doomed = Promise!Serving(h))
<1>1. ASSUME IInv, NEW h \in Host PROVE ConnsOf(inner, h) \ Doomed = Promise!Serving(h)
  <2>1. LiveIs
    BY <1>1, LiveIsInv
  <2>2. ConnsOf(inner, h) \subseteq Conn
    BY <1>1, ConnsOfType, ZenonT(30) DEF IInv, TypeOK, Table
  <2>3. ASSUME NEW c \in ConnsOf(inner, h) \ Doomed PROVE c \in Promise!Serving(h)
    <3>1. Routed(inner, c) /\ h \in Granted(c)
      BY <1>1, <2>3 DEF Routed, IInv, OneOwner
    <3> QED
      BY <2>1, <2>2, <2>3, <3>1 DEF LiveIs, Promise!Serving, Granted
  <2>4. ASSUME NEW c \in Promise!Serving(h) PROVE c \in ConnsOf(inner, h) \ Doomed
    <3>1. c \in Conn /\ Live[c] # NoGrant /\ h \in DOMAIN Live[c].hostnames
      BY <2>4 DEF Promise!Serving
    <3>2. Live[c] = grant[c] /\ c \notin Doomed
      BY <2>1, <3>1 DEF LiveIs
    <3>3. \A k \in Granted(c) : c \in ConnsOf(inner, k)
      BY <3>1 DEF Live
    <3> QED
      BY <3>1, <3>2, <3>3 DEF Granted
  <2> QED
    BY <2>3, <2>4
<1>2. IInv => \A h \in Host : ConnsOf(inner, h) \ Doomed = Promise!Serving(h)
  BY <1>1
<1> QED
  BY <1>2, Invariance, PTL
=============================================================================
