---------------------- MODULE CommunicationBridgeProofs ----------------------
(***************************************************************************)
(* The link to the ground stations is safe for any number of stations and  *)
(* descriptors, alone (LinkSpec) and inside the bridge (BridgeSpec), whose *)
(* other thread and whose demos never change what the server relies on.    *)
(***************************************************************************)
EXTENDS CommunicationBridge, TLAPS

\* Stations whose connection has not ended in this iteration of the server.
Live == {ip \in Linked : ip \notin waitClearIP}

\* What the server has found readable is still as it was found.
PhaseOK ==
  /\ pc # "read" => waitClearIP = {} /\ todo = {}
  /\ pc = "accept" /\ Listener \in fdRead => backlog # <<>>

\* A live station has a connection of its own, which is its newest.
MapOK ==
  /\ waitClearIP \subseteq Linked
  /\ todo \subseteq Live
  /\ \A ip, jp \in Linked : ipSocketMap[ip] = ipSocketMap[jp] => ip = jp
  /\ \A ip \in Live : /\ conn[ipSocketMap[ip]].ip = ip
                      /\ ~conn[ipSocketMap[ip]].old

\* Every connection is some station's.
ConnOK == \A fd \in Fds : conn[fd].ip = None => conn[fd] = Free

\* A watched descriptor is open, or closed in this iteration.
WatchedOK ==
  \A fd \in fdTemp \ {Listener} :
    conn[fd] # Free \/ \E ip \in waitClearIP : ipSocketMap[ip] = fd

RegisterOK ==
  /\ GSIPHash \subseteq Live
  /\ station_connected => Live # {}
  /\ GSIPHash # {} => station_connected

HeardOK ==
  waitClearIP = {} /\ Linked # {} => \E ip \in Linked : ipSocketMap[ip] \in fdTemp

\* The inductive invariant.
LinkInv == LinkTypeOK /\ PhaseOK /\ MapOK /\ ConnOK /\ WatchedOK /\ RegisterOK /\ HeardOK

-----------------------------------------------------------------------------
(***************************************************************************)
(* The steps of the server thread.                                         *)
(***************************************************************************)

LEMMA NoneIsNoFd == None \notin Fds /\ None \notin Stations /\ Listener \notin Fds /\ None # Listener
  BY LinkAssumption

LEMMA FreeType == Free \in ConnType
  BY DEF Free, ConnType

LEMMA SelectKeeps == LinkInv /\ Select => LinkInv'
<1> SUFFICES ASSUME LinkInv, Select PROVE LinkInv'
  OBVIOUS
<1> USE DEF LinkInv, Select
<1>1. LinkTypeOK'
  BY DEF LinkTypeOK
<1>2. PhaseOK'
  BY DEF PhaseOK, Readable
<1>3. MapOK' /\ ConnOK' /\ WatchedOK' /\ RegisterOK' /\ HeardOK'
  BY DEF MapOK, ConnOK, WatchedOK, RegisterOK, HeardOK, Live, Linked
<1>4. QED
  BY <1>1, <1>2, <1>3

\* The new connection and the other ones, after a connection was accepted.
LEMMA AcceptedConnections ==
  ASSUME LinkTypeOK, NEW fd \in FreeFds, backlog # <<>>, AcceptOne(fd)
  PROVE  /\ Head(backlog) \in Stations
         /\ fd \in Fds /\ conn[fd] = Free
         /\ conn' \in [Fds -> ConnType]
         /\ conn'[fd] = [ip |-> Head(backlog), open |-> TRUE, unread |-> FALSE, old |-> FALSE]
         /\ \A g \in Fds \ {fd} :
              /\ conn'[g].ip = conn[g].ip /\ conn'[g].unread = conn[g].unread
              /\ conn[g].ip # Head(backlog) => conn'[g].old = conn[g].old
              /\ conn[g] # Free <=> conn'[g] # Free
<1> DEFINE ip == Head(backlog)
<1>1. ip \in Stations
  BY DEF LinkTypeOK
<1>2. fd \in Fds /\ conn[fd] = Free
  BY DEF FreeFds
<1>3. conn' = [g \in Fds |-> IF g = fd
                 THEN [ip |-> ip, open |-> TRUE, unread |-> FALSE, old |-> FALSE]
                 ELSE [conn[g] EXCEPT !.old = @ \/ conn[g].ip = ip]]
  BY DEF AcceptOne
<1>4. \A g \in Fds : conn[g] \in ConnType
  BY DEF LinkTypeOK
<1>5. ASSUME NEW g \in Fds \ {fd}
      PROVE  /\ conn'[g] \in ConnType
             /\ conn'[g].ip = conn[g].ip /\ conn'[g].unread = conn[g].unread
             /\ conn'[g].open = conn[g].open
             /\ conn[g].ip # ip => conn'[g].old = conn[g].old
  <2>1. conn'[g] = [conn[g] EXCEPT !.old = @ \/ conn[g].ip = ip]
    BY <1>3
  <2>2. conn[g] \in ConnType
    BY <1>4
  <2>3. QED
    BY <2>1, <2>2 DEF ConnType
<1>6. ASSUME NEW g \in Fds \ {fd}, conn[g] # Free
      PROVE  conn'[g] # Free
  <2>1. SUFFICES ASSUME conn'[g] = Free PROVE FALSE
    OBVIOUS
  <2>2. conn[g].ip = None /\ conn[g].unread = FALSE /\ conn[g].open = FALSE
    BY <2>1, <1>5 DEF Free
  <2>3. conn[g].old = FALSE
    BY <2>1, <2>2, <1>1, <1>5, NoneIsNoFd DEF Free
  <2>4. conn[g] = Free
    BY <1>4, <2>2, <2>3 DEF ConnType, Free
  <2>5. QED
    BY <2>4, <1>6
<1>7. ASSUME NEW g \in Fds \ {fd}, conn[g] = Free
      PROVE  conn'[g] = Free
  <2>1. /\ conn'[g].ip = None /\ conn'[g].open = FALSE /\ conn'[g].unread = FALSE
        /\ conn'[g].old = FALSE /\ conn'[g] \in ConnType
    BY <1>1, <1>5, <1>7, NoneIsNoFd DEF Free
  <2>2. QED
    BY <2>1 DEF ConnType, Free
<1>8. conn'[fd] = [ip |-> ip, open |-> TRUE, unread |-> FALSE, old |-> FALSE]
  BY <1>2, <1>3
<1>9. conn'[fd] \in ConnType
  BY <1>1, <1>8 DEF ConnType
<1>10. conn' \in [Fds -> ConnType]
  BY <1>3, <1>5, <1>9
<1>11. QED
  BY <1>1, <1>2, <1>5, <1>6, <1>7, <1>8, <1>10

LEMMA AcceptOneKeeps ==
  ASSUME LinkInv, pc = "accept", Listener \in fdRead,
         NEW fd \in FreeFds, AcceptOne(fd),
         pc' = "read", fdRead' = {}, UNCHANGED waitClearIP,
         todo' = {ip \in Stations : ipSocketMap'[ip] \in fdRead}
  PROVE  LinkInv'
<1> DEFINE new == Head(backlog)
<1> USE DEF LinkInv
<1>1. backlog # <<>> /\ waitClearIP = {} /\ waitClearIP' = {}
  BY DEF PhaseOK
<1>2. /\ new \in Stations
      /\ fd \in Fds /\ conn[fd] = Free
      /\ conn' \in [Fds -> ConnType]
      /\ conn'[fd] = [ip |-> new, open |-> TRUE, unread |-> FALSE, old |-> FALSE]
      /\ \A g \in Fds \ {fd} :
           /\ conn'[g].ip = conn[g].ip /\ conn'[g].unread = conn[g].unread
           /\ conn[g].ip # new => conn'[g].old = conn[g].old
           /\ conn[g] # Free <=> conn'[g] # Free
  BY <1>1, AcceptedConnections
<1>3. /\ ipSocketMap' = [ipSocketMap EXCEPT ![new] = fd]
      /\ fdTemp' = fdTemp \union {fd}
      /\ backlog' = Tail(backlog)
      /\ GSIPHash' = GSIPHash \union {new}
      /\ station_connected' = TRUE
  BY DEF AcceptOne, LinkUp
<1>4. /\ ipSocketMap'[new] = fd
      /\ \A ip \in Stations \ {new} : ipSocketMap'[ip] = ipSocketMap[ip]
      /\ ipSocketMap' \in [Stations -> Fds \union {None}]
  BY <1>2, <1>3 DEF LinkTypeOK
<1>5. Linked' = Linked \union {new} /\ Live = Linked /\ Live' = Linked'
  BY <1>1, <1>2, <1>4, NoneIsNoFd DEF Linked, Live
<1>6. \A ip \in Linked : ipSocketMap[ip] # fd
  <2>1. SUFFICES ASSUME NEW ip \in Linked, ipSocketMap[ip] = fd PROVE FALSE
    OBVIOUS
  <2>2. conn[fd].ip = ip
    BY <1>5, <2>1 DEF MapOK
  <2>3. QED
    BY <1>2, <2>2, NoneIsNoFd DEF Linked, Free
<1>7. LinkTypeOK'
  <2>1. backlog' \in Seq(Stations)
    BY <1>1, <1>3 DEF LinkTypeOK
  <2>2. todo' \in SUBSET Stations
    OBVIOUS
  <2>3. QED
    BY <1>1, <1>2, <1>3, <1>4, <2>1, <2>2 DEF LinkTypeOK
<1>8. PhaseOK'
  BY DEF PhaseOK
<1>9. MapOK'
  <2>1. todo' \subseteq Live'
    <3>1. None \notin fdRead
      BY NoneIsNoFd DEF LinkTypeOK
    <3>2. QED
      BY <1>1, <3>1 DEF Live, Linked
  <2>2. \A ip, jp \in Linked' : ipSocketMap'[ip] = ipSocketMap'[jp] => ip = jp
    BY <1>4, <1>5, <1>6 DEF MapOK, Linked
  <2>3. ASSUME NEW ip \in Live'
        PROVE  conn'[ipSocketMap'[ip]].ip = ip /\ ~conn'[ipSocketMap'[ip]].old
    <3>1. CASE ip = new
      BY <1>2, <1>4, <3>1
    <3>2. CASE ip # new
      <4>1. ip \in Live /\ ipSocketMap'[ip] = ipSocketMap[ip] /\ ipSocketMap[ip] \in Fds \ {fd}
        BY <1>4, <1>5, <1>6, <3>2 DEF Linked, LinkTypeOK
      <4>2. QED
        BY <1>2, <3>2, <4>1 DEF MapOK
    <3>3. QED
      BY <3>1, <3>2
  <2>4. QED
    BY <1>1, <2>1, <2>2, <2>3 DEF MapOK
<1>10. WatchedOK'
  <2>1. conn'[fd] # Free
    BY <1>2 DEF Free
  <2>2. QED
    BY <1>1, <1>2, <1>3, <2>1 DEF WatchedOK, LinkTypeOK
<1>11. RegisterOK'
  BY <1>2, <1>3, <1>5 DEF RegisterOK
<1>12. HeardOK'
  BY <1>3, <1>4, <1>5 DEF HeardOK
<1>13. ConnOK'
  <2>1. SUFFICES ASSUME NEW g \in Fds, conn'[g].ip = None PROVE conn'[g] = Free
    BY DEF ConnOK
  <2>2. g # fd /\ conn[g] = Free
    BY <1>2, <2>1, NoneIsNoFd DEF ConnOK
  <2>3. QED
    BY <1>2, <2>2
<1>14. QED
  BY <1>7, <1>8, <1>9, <1>10, <1>11, <1>12, <1>13

LEMMA AcceptKeeps == LinkInv /\ Accept => LinkInv'
<1> SUFFICES ASSUME LinkInv, Accept PROVE LinkInv'
  OBVIOUS
<1>1. /\ pc = "accept" /\ pc' = "read" /\ fdRead' = {} /\ UNCHANGED waitClearIP
      /\ todo' = {ip \in Stations : ipSocketMap'[ip] \in fdRead}
  BY DEF Accept
<1>2. CASE Listener \in fdRead /\ \E fd \in FreeFds : AcceptOne(fd)
  BY <1>1, <1>2, AcceptOneKeeps
<1>3. CASE UNCHANGED <<conn, ipSocketMap, fdTemp, backlog, GSIPHash, station_connected>>
  <2> USE DEF LinkInv
  <2>1. todo' \subseteq Live' /\ todo' \subseteq Stations
    <3>1. None \notin fdRead /\ waitClearIP' = {}
      BY <1>1, NoneIsNoFd DEF LinkTypeOK, PhaseOK
    <3>2. QED
      BY <1>1, <3>1 DEF Live, Linked
  <2>2. LinkTypeOK' /\ PhaseOK'
    BY <1>1, <1>3, <2>1 DEF LinkTypeOK, PhaseOK
  <2>3. MapOK'
    BY <1>1, <1>3, <2>1 DEF MapOK, Live, Linked
  <2>4. ConnOK' /\ WatchedOK' /\ RegisterOK' /\ HeardOK'
    BY <1>1, <1>3 DEF ConnOK, WatchedOK, RegisterOK, HeardOK, Live, Linked
  <2>5. QED
    BY <2>2, <2>3, <2>4
<1>4. QED
  BY <1>2, <1>3 DEF Accept

\* A step that changes one connection, which remains the same station's.
LEMMA OnConnections ==
  ASSUME LinkInv, NEW fd \in Fds, conn[fd].ip # None,
         conn' \in [Fds -> ConnType],
         conn'[fd].ip = conn[fd].ip, conn'[fd].old = conn[fd].old,
         \A g \in Fds \ {fd} : conn'[g] = conn[g],
         todo' \subseteq todo,
         UNCHANGED <<pc, fdTemp, fdRead, ipSocketMap, waitClearIP, GSIPHash,
                     station_connected, backlog>>
  PROVE  LinkInv'
<1> USE DEF LinkInv
<1>1. LinkTypeOK'
  BY DEF LinkTypeOK
<1>2. PhaseOK'
  BY DEF PhaseOK
<1>3. MapOK'
  <2>1. Live' = Live /\ Linked' = Linked
    BY DEF Live, Linked
  <2>2. \A ip \in Live : ipSocketMap[ip] \in Fds
    BY DEF Live, Linked, LinkTypeOK
  <2>3. \A g \in Fds : conn'[g].ip = conn[g].ip /\ conn'[g].old = conn[g].old
    OBVIOUS
  <2>4. QED
    BY <2>1, <2>2, <2>3 DEF MapOK
<1>4. ConnOK'
  BY DEF ConnOK
<1>5. WatchedOK'
  <2>1. conn'[fd] # Free
    BY DEF Free
  <2>2. \A g \in Fds : conn[g] # Free => conn'[g] # Free
    BY <2>1
  <2>3. QED
    BY <2>2 DEF WatchedOK, LinkTypeOK
<1>6. RegisterOK' /\ HeardOK'
  BY DEF RegisterOK, HeardOK, Live, Linked
<1>7. QED
  BY <1>1, <1>2, <1>3, <1>4, <1>5, <1>6

\* A field of one connection is assigned.
LEMMA FieldAssigned ==
  ASSUME LinkTypeOK, NEW fd \in Fds, NEW c, c \in ConnType,
         c.ip = conn[fd].ip, c.old = conn[fd].old,
         conn' = [conn EXCEPT ![fd] = c]
  PROVE  /\ conn' \in [Fds -> ConnType]
         /\ conn'[fd].ip = conn[fd].ip /\ conn'[fd].old = conn[fd].old
         /\ \A g \in Fds \ {fd} : conn'[g] = conn[g]
  BY DEF LinkTypeOK

LEMMA ReceiveKeeps ==
  ASSUME LinkInv, NEW ip \in Stations, Receive(ip)
  PROVE  LinkInv'
<1> DEFINE fd == ipSocketMap[ip]
           c == [conn[fd] EXCEPT !.unread = FALSE]
<1>1. ip \in Live /\ fd \in Fds /\ conn[fd].ip = ip
  BY DEF Receive, LinkInv, MapOK, LinkTypeOK, Live, Linked
<1>2. conn[fd] \in ConnType
  BY <1>1 DEF LinkInv, LinkTypeOK
<1>3. c \in ConnType /\ c.ip = conn[fd].ip /\ c.old = conn[fd].old
  BY <1>2 DEF ConnType
<1>4. conn' = [conn EXCEPT ![fd] = c]
  BY DEF Receive
<1>5. conn[fd].ip # None
  BY <1>1, NoneIsNoFd
<1> HIDE DEF c
<1>6. /\ conn' \in [Fds -> ConnType]
      /\ conn'[fd].ip = conn[fd].ip /\ conn'[fd].old = conn[fd].old
      /\ \A g \in Fds \ {fd} : conn'[g] = conn[g]
  BY <1>1, <1>3, <1>4, FieldAssigned DEF LinkInv
<1>7. /\ todo' \subseteq todo
      /\ UNCHANGED <<pc, fdTemp, fdRead, ipSocketMap, waitClearIP, GSIPHash,
                     station_connected, backlog>>
  BY DEF Receive
<1>8. QED
  BY <1>1, <1>5, <1>6, <1>7, OnConnections

LEMMA HangupKeeps ==
  ASSUME LinkInv, NEW ip \in Stations, Hangup(ip)
  PROVE  LinkInv'
<1> DEFINE fd == ipSocketMap[ip]
<1> USE DEF LinkInv
<1>1. /\ pc = "read" /\ pc' = "read" /\ ip \in todo
      /\ conn' = [conn EXCEPT ![fd] = Free]
      /\ todo' = todo \ {ip} /\ waitClearIP' = waitClearIP \union {ip}
      /\ GSIPHash' = GSIPHash \ {ip}
      /\ station_connected' = (station_connected /\ GSIPHash' # {})
      /\ UNCHANGED <<fdTemp, fdRead, ipSocketMap, backlog>>
  BY DEF Hangup, LinkDown
<1>2. ip \in Live /\ fd \in Fds
  BY <1>1 DEF MapOK, LinkTypeOK, Live, Linked
<1>3. Linked' = Linked /\ Live' = Live \ {ip}
  BY <1>1 DEF Live, Linked
<1>4. LinkTypeOK'
  BY <1>1, <1>2, FreeType DEF LinkTypeOK
<1>5. PhaseOK'
  BY <1>1 DEF PhaseOK
<1>6. MapOK'
  <2>1. ASSUME NEW jp \in Live' PROVE conn'[ipSocketMap'[jp]] = conn[ipSocketMap[jp]]
    <3>1. jp \in Live /\ jp # ip /\ ipSocketMap[jp] # fd /\ ipSocketMap[jp] \in Fds
      BY <1>2, <1>3 DEF MapOK, Live, Linked, LinkTypeOK
    <3>2. QED
      BY <1>1, <3>1 DEF LinkTypeOK
  <2>2. QED
    BY <1>1, <1>2, <1>3, <2>1 DEF MapOK, Live
<1>7. WatchedOK'
  <2>1. SUFFICES ASSUME NEW g \in fdTemp' \ {Listener}, conn'[g] = Free
                 PROVE  \E jp \in waitClearIP' : ipSocketMap'[jp] = g
    BY DEF WatchedOK
  <2>2. CASE g = fd
    BY <1>1, <2>2
  <2>3. CASE g # fd
    BY <1>1, <2>1, <2>3 DEF WatchedOK, LinkTypeOK
  <2>4. QED
    BY <2>2, <2>3
<1>8. RegisterOK'
  BY <1>1, <1>3 DEF RegisterOK
<1>9. HeardOK'
  BY <1>1 DEF HeardOK
<1>10. ConnOK'
  BY <1>1, <1>2 DEF ConnOK, LinkTypeOK
<1>11. QED
  BY <1>4, <1>5, <1>6, <1>7, <1>8, <1>9, <1>10

LEMMA ClearLostKeeps == LinkInv /\ ClearLost => LinkInv'
<1> SUFFICES ASSUME LinkInv, ClearLost PROVE LinkInv'
  OBVIOUS
<1> USE DEF LinkInv
<1>1. /\ pc = "read" /\ pc' = "select" /\ todo = {} /\ waitClearIP' = {}
      /\ ipSocketMap' = [ip \in Stations |->
                           IF ip \in waitClearIP THEN None ELSE ipSocketMap[ip]]
      /\ UNCHANGED <<fdRead, todo, GSIPHash, station_connected, conn, backlog>>
  BY DEF ClearLost
<1>2. /\ Linked' = Live /\ Live' = Live
      /\ \A ip \in Live : ipSocketMap'[ip] = ipSocketMap[ip] /\ ipSocketMap[ip] \in Fds
  BY <1>1 DEF Live, Linked, LinkTypeOK
<1> DEFINE left == {ipSocketMap'[ip] : ip \in Stations} \ {None}
<1>3. left = {ipSocketMap[ip] : ip \in Live}
  BY <1>1 DEF Live, Linked, LinkTypeOK
<1>4. CASE waitClearIP = {}
  <2>1. fdTemp' = fdTemp /\ ipSocketMap' = ipSocketMap
    BY <1>1, <1>4 DEF ClearLost, LinkTypeOK
  <2>2. QED
    BY <1>1, <1>4, <2>1
       DEF LinkTypeOK, PhaseOK, MapOK, ConnOK, WatchedOK, RegisterOK, HeardOK, Live, Linked
<1>5. CASE waitClearIP # {}
  <2>1. PICK S \in SUBSET left : /\ fdTemp' = {Listener} \union S
                                 /\ \A fd \in left : \E g \in S : fd <= g
    BY <1>1, <1>5 DEF ClearLost, Rebuilt
  <2>2. LinkTypeOK'
    <3>1. ipSocketMap' \in [Stations -> Fds \union {None}]
      BY <1>1 DEF LinkTypeOK
    <3>2. fdTemp' \in SUBSET (Fds \union {Listener})
      BY <1>2, <1>3, <2>1
    <3>3. QED
      BY <1>1, <3>1, <3>2 DEF LinkTypeOK
  <2>3. PhaseOK'
    BY <1>1 DEF PhaseOK
  <2>4. MapOK'
    BY <1>1, <1>2 DEF MapOK, Live
  <2>5. WatchedOK'
    <3>1. ASSUME NEW ip \in Live PROVE conn[ipSocketMap[ip]] # Free
      BY <3>1, NoneIsNoFd DEF MapOK, Free, Live, Linked
    <3>2. QED
      BY <1>1, <1>3, <2>1, <3>1 DEF WatchedOK
  <2>6. RegisterOK'
    BY <1>1, <1>2 DEF RegisterOK
  <2>7. HeardOK'
    <3>1. SUFFICES ASSUME Linked' # {}
                   PROVE  \E ip \in Linked' : ipSocketMap'[ip] \in fdTemp'
      BY DEF HeardOK
    <3>2. left # {}
      BY <1>2, <1>3, <3>1
    <3>3. PICK g \in S : g \in left
      BY <2>1, <3>2
    <3>4. QED
      BY <1>2, <1>3, <2>1, <3>3
  <2>8. ConnOK'
    BY <1>1 DEF ConnOK
  <2>9. QED
    BY <2>2, <2>3, <2>4, <2>5, <2>6, <2>7, <2>8
<1>6. QED
  BY <1>4, <1>5

-----------------------------------------------------------------------------
(***************************************************************************)
(* The steps of the ROS thread and of the stations.                        *)
(***************************************************************************)

LEMMA SendUdpFailsKeeps ==
  ASSUME LinkInv, NEW failed \in SUBSET Stations, SendUdpFails(failed)
  PROVE  LinkInv'
<1> USE DEF LinkInv, SendUdpFails
<1>1. LinkTypeOK'
  BY DEF LinkTypeOK
<1>2. PhaseOK'
  BY DEF PhaseOK
<1>3. MapOK' /\ ConnOK' /\ WatchedOK' /\ RegisterOK' /\ HeardOK'
  BY DEF MapOK, ConnOK, WatchedOK, RegisterOK, HeardOK, Live, Linked
<1>4. QED
  BY <1>1, <1>2, <1>3

LEMMA ConnectKeeps ==
  ASSUME LinkInv, NEW ip \in Stations, Connect(ip)
  PROVE  LinkInv'
<1> USE DEF LinkInv, Connect, nodeLinkVars
<1>1. backlog' \in Seq(Stations) /\ backlog' # <<>>
  BY DEF LinkTypeOK
<1>2. LinkTypeOK' /\ PhaseOK'
  BY <1>1 DEF LinkTypeOK, PhaseOK
<1>3. MapOK' /\ ConnOK' /\ WatchedOK' /\ RegisterOK' /\ HeardOK'
  BY DEF MapOK, ConnOK, WatchedOK, RegisterOK, HeardOK, Live, Linked
<1>4. QED
  BY <1>2, <1>3

LEMMA SendCommandKeeps ==
  ASSUME LinkInv, NEW fd \in Fds, SendCommand(fd)
  PROVE  LinkInv'
<1> DEFINE c == [conn[fd] EXCEPT !.unread = TRUE]
<1>1. conn[fd] \in ConnType /\ conn[fd].ip # None
  BY DEF LinkInv, LinkTypeOK, ConnOK, Free, SendCommand
<1>2. c \in ConnType /\ c.ip = conn[fd].ip /\ c.old = conn[fd].old
  BY <1>1 DEF ConnType
<1>3. conn' = [conn EXCEPT ![fd] = c] /\ UNCHANGED <<nodeLinkVars, backlog>>
  BY DEF SendCommand
<1> HIDE DEF c
<1>4. QED
  BY <1>1, <1>2, <1>3, FieldAssigned, OnConnections DEF LinkInv, nodeLinkVars

LEMMA DisconnectKeeps ==
  ASSUME LinkInv, NEW fd \in Fds, Disconnect(fd)
  PROVE  LinkInv'
<1> DEFINE c == [conn[fd] EXCEPT !.open = FALSE]
<1>1. conn[fd] \in ConnType /\ conn[fd].ip # None
  BY DEF LinkInv, LinkTypeOK, ConnOK, Free, Disconnect
<1>2. c \in ConnType /\ c.ip = conn[fd].ip /\ c.old = conn[fd].old
  BY <1>1 DEF ConnType
<1>3. conn' = [conn EXCEPT ![fd] = c] /\ UNCHANGED <<nodeLinkVars, backlog>>
  BY DEF Disconnect
<1> HIDE DEF c
<1>4. QED
  BY <1>1, <1>2, <1>3, FieldAssigned, OnConnections DEF LinkInv, nodeLinkVars

-----------------------------------------------------------------------------
(***************************************************************************)
(* The theorems.                                                           *)
(***************************************************************************)

LEMMA InitOK == LinkInit => LinkInv
<1> SUFFICES ASSUME LinkInit PROVE LinkInv
  OBVIOUS
<1>1. Linked = {}
  BY DEF LinkInit, Linked
<1>2. LinkTypeOK
  <2>1. backlog \in Seq(Stations)
    BY DEF LinkInit
  <2>2. conn \in [Fds -> ConnType]
    BY FreeType DEF LinkInit
  <2>3. QED
    BY <2>1, <2>2 DEF LinkInit, LinkTypeOK
<1>3. PhaseOK /\ MapOK /\ RegisterOK /\ HeardOK
  BY <1>1 DEF LinkInit, PhaseOK, MapOK, RegisterOK, HeardOK, Live
<1>4. ConnOK /\ WatchedOK
  BY DEF LinkInit, ConnOK, WatchedOK
<1>5. QED
  BY <1>2, <1>3, <1>4 DEF LinkInv

LEMMA StepOK == LinkInv /\ [LinkNext]_linkVars => LinkInv'
<1> SUFFICES ASSUME LinkInv, [LinkNext]_linkVars PROVE LinkInv'
  OBVIOUS
<1>1. CASE ServerStep
  BY <1>1, SelectKeeps, AcceptKeeps, ClearLostKeeps, HangupKeeps DEF ServerStep
<1>2. CASE \E ip \in Stations : Receive(ip)
  BY <1>2, ReceiveKeeps
<1>3. CASE \E failed \in SUBSET Stations : SendUdpFails(failed)
  BY <1>3, SendUdpFailsKeeps
<1>4. CASE StationStep
  BY <1>4, ConnectKeeps, SendCommandKeeps, DisconnectKeeps DEF StationStep
<1>5. CASE UNCHANGED linkVars
  <2>1. /\ LinkTypeOK' = LinkTypeOK /\ PhaseOK' = PhaseOK /\ MapOK' = MapOK
        /\ ConnOK' = ConnOK /\ WatchedOK' = WatchedOK /\ RegisterOK' = RegisterOK
        /\ HeardOK' = HeardOK
    BY <1>5 DEF linkVars, LinkTypeOK, PhaseOK, MapOK, ConnOK, WatchedOK, RegisterOK,
                HeardOK, Live, Linked
  <2>2. QED
    BY <2>1 DEF LinkInv
<1>6. QED
  BY <1>1, <1>2, <1>3, <1>4, <1>5 DEF LinkNext

\* The server's invariant holds whatever the stations do.
THEOREM LinkInvariant == LinkSpec => []LinkInv
<1>1. QED
  BY InitOK, StepOK, PTL DEF LinkSpec

\* The link's variables keep their types.
THEOREM LinkTypeCorrect == LinkSpec => []LinkTypeOK
<1>1. LinkInv => LinkTypeOK
  BY DEF LinkInv
<1>2. QED
  BY <1>1, LinkInvariant, PTL

\* Only stations with a connection are registered, and heartbeats stop with the last.
THEOREM RegisterSafe == LinkSpec => []RegisterIsLinked
<1>1. LinkInv => RegisterIsLinked
  BY DEF LinkInv, RegisterOK, RegisterIsLinked, Live
<1>2. QED
  BY <1>1, LinkInvariant, PTL

\* select is never called with a descriptor that is closed.
THEOREM WatchedSafe == LinkSpec => []WatchedAreOpen
<1>1. LinkInv => WatchedAreOpen
  BY DEF LinkInv, PhaseOK, WatchedOK, WatchedAreOpen
<1>2. QED
  BY <1>1, LinkInvariant, PTL

\* As long as stations are linked, one of them is heard.
THEOREM HeardSafe == LinkSpec => []OneIsHeard
<1>1. LinkInv => OneIsHeard
  BY DEF LinkInv, PhaseOK, HeardOK, OneIsHeard
<1>2. QED
  BY <1>1, LinkInvariant, PTL

LEMMA NewestStep ==
  ASSUME LinkInv, LinkNext, NEW fd \in Fds, conn[fd].unread, ~conn'[fd].unread
  PROVE  ~conn[fd].old
<1>1. conn \in [Fds -> ConnType]
  BY DEF LinkInv, LinkTypeOK
<1>2. ASSUME NEW ip \in Stations, ip \in todo
      PROVE  ipSocketMap[ip] \in Fds /\ ~conn[ipSocketMap[ip]].old
  BY <1>2 DEF LinkInv, MapOK, LinkTypeOK, Live, Linked
<1>3. CASE \E ip \in Stations : Receive(ip) \/ Hangup(ip)
  <2>1. PICK ip \in Stations : Receive(ip) \/ Hangup(ip)
    BY <1>3
  <2>2. ip \in todo /\ \A g \in Fds \ {ipSocketMap[ip]} : conn'[g] = conn[g]
    BY <1>1, <2>1 DEF Receive, Hangup
  <2>3. fd = ipSocketMap[ip]
    BY <2>2
  <2>4. QED
    BY <1>2, <2>2, <2>3
<1>4. CASE Accept
  <2>1. CASE \E g \in FreeFds : Listener \in fdRead /\ AcceptOne(g)
    <3>1. PICK g \in FreeFds : Listener \in fdRead /\ AcceptOne(g)
      BY <2>1
    <3>2. backlog # <<>>
      BY <1>4, <3>1 DEF LinkInv, PhaseOK, Accept
    <3>3. conn[g] = Free /\ \A h \in Fds \ {g} : conn'[h].unread = conn[h].unread
      BY <3>1, <3>2, AcceptedConnections DEF LinkInv
    <3>4. QED
      BY <3>3 DEF Free
  <2>2. CASE UNCHANGED conn
    BY <2>2
  <2>3. QED
    BY <1>4, <2>1, <2>2 DEF Accept
<1>5. CASE Select \/ ClearLost \/ \E failed \in SUBSET Stations : SendUdpFails(failed)
  <2>1. UNCHANGED conn
    BY <1>5 DEF Select, ClearLost, SendUdpFails
  <2>2. QED
    BY <2>1
<1>6. CASE StationStep
  <2>1. CASE \E ip \in Stations : Connect(ip)
    BY <2>1 DEF Connect
  <2>2. CASE \E g \in Fds : SendCommand(g)
    <3>1. PICK g \in Fds : SendCommand(g)
      BY <2>2
    <3>2. \A h \in Fds : h # g => conn'[h] = conn[h]
      BY <1>1, <3>1 DEF SendCommand
    <3>3. ~conn[g].unread
      BY <3>1 DEF SendCommand
    <3>4. QED
      BY <3>2, <3>3
  <2>3. CASE \E g \in Fds : Disconnect(g)
    <3>1. PICK g \in Fds : Disconnect(g)
      BY <2>3
    <3>2. \A h \in Fds : h # g => conn'[h] = conn[h]
      BY <1>1, <3>1 DEF Disconnect
    <3>3. conn' = [conn EXCEPT ![g] = [conn[g] EXCEPT !.open = FALSE]] /\ conn[g] \in ConnType
      BY <1>1, <3>1 DEF Disconnect
    <3>4. conn'[g].unread = conn[g].unread
      BY <1>1, <3>3 DEF ConnType
    <3>5. QED
      BY <3>2, <3>4
  <2>4. QED
    BY <1>6, <2>1, <2>2, <2>3 DEF StationStep
<1>7. QED
  BY <1>3, <1>4, <1>5, <1>6 DEF LinkNext, ServerStep

\* Commands are taken from the newest connection of a station only.
THEOREM NewestSafe == LinkSpec => NewestCommandsOnly
<1>1. LinkInv /\ [LinkNext]_linkVars
        => [\A fd \in Fds : conn[fd].unread /\ ~conn'[fd].unread => ~conn[fd].old]_linkVars
  BY NewestStep
<1>2. QED
  BY <1>1, LinkInvariant, PTL DEF LinkSpec, NewestCommandsOnly

-----------------------------------------------------------------------------
(***************************************************************************)
(* The bridge: every step is a step of the link or leaves it alone, so it  *)
(* is as safe in the bridge, whatever the demos and the timer do.          *)
(***************************************************************************)

\* The bridge implements the link.
THEOREM BridgeImplementsLink == BridgeSpec => LinkSpec
<1>1. BridgeInit => LinkInit
  BY DEF BridgeInit
<1>2. [BridgeNext]_bridgeVars => [LinkNext]_linkVars
  <2>1. BridgeNext => LinkNext \/ UNCHANGED linkVars
    BY DEF BridgeNext, ServerThread, RosThread, Environment, LinkNext
  <2>2. UNCHANGED bridgeVars => UNCHANGED linkVars
    BY DEF bridgeVars
  <2>3. QED
    BY <2>1, <2>2
<1>3. QED
  BY <1>1, <1>2, PTL DEF BridgeSpec, LinkSpec

\* What holds of the link holds of the bridge.
THEOREM BridgeSafe ==
  BridgeSpec => /\ [](RegisterIsLinked /\ WatchedAreOpen /\ OneIsHeard)
                /\ NewestCommandsOnly
<1>1. QED
  BY BridgeImplementsLink, RegisterSafe, WatchedSafe, HeardSafe, NewestSafe, PTL
=============================================================================
