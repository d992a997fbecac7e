----------------------------- MODULE GroundLink -----------------------------
(***************************************************************************)
(* The link between a vehicle and its ground stations: the TCP server of   *)
(* the communication bridge (TCPServer.cpp, CommunicationTCPSocket.cpp)    *)
(* and the bridge's register of stations that are on line.                 *)
(*                                                                         *)
(* Two threads.  The server thread selects on the watched descriptors,     *)
(* accepts at most one connection, reads each station that is readable,    *)
(* and then forgets the stations whose connection ended; between any two   *)
(* of these steps the ROS thread may send state by UDP to the register.    *)
(* Connections are known by the station's address: one per station.        *)
(***************************************************************************)
EXTENDS Integers, Sequences, FiniteSets

CONSTANTS
  Stations,   \* addresses of ground stations
  Fds,        \* descriptors the process may open for connections
  None

Listener == 0     \* _sock

ASSUME LinkAssumption ==
  /\ Fds \subseteq Nat \ {Listener}
  /\ None \notin Fds \union Stations \union {Listener}

VARIABLES
  pc,               \* where TCPServerOnRun is: "select", "accept", "read"
  fdTemp,           \* the descriptors that select watches
  fdRead,           \* those the last select found readable
  todo,             \* stations found readable and not yet read
  ipSocketMap,      \* the connection of each station
  waitClearIP,      \* stations whose connection ended in this iteration
  GSIPHash,         \* the register: stations that get state by UDP
  station_connected,\* are heartbeats sent?
  conn,             \* external: each connection, by the server's descriptor
  backlog           \* external: stations waiting for accept

linkVars == <<pc, fdTemp, fdRead, todo, ipSocketMap, waitClearIP, GSIPHash,
              station_connected, conn, backlog>>

\* A connection: is the station still there, did it send anything not yet read,
\* has the station made another connection since?
ConnType == [ip: Stations \union {None}, open: BOOLEAN, unread: BOOLEAN, old: BOOLEAN]
Free == [ip |-> None, open |-> FALSE, unread |-> FALSE, old |-> FALSE]

LinkTypeOK ==
  /\ pc \in {"select", "accept", "read"}
  /\ fdTemp \in SUBSET (Fds \union {Listener})
  /\ fdRead \in SUBSET (Fds \union {Listener})
  /\ todo \in SUBSET Stations
  /\ ipSocketMap \in [Stations -> Fds \union {None}]
  /\ waitClearIP \in SUBSET Stations
  /\ GSIPHash \in SUBSET Stations
  /\ station_connected \in BOOLEAN
  /\ conn \in [Fds -> ConnType]
  /\ backlog \in Seq(Stations)

LinkInit ==
  /\ pc = "select" /\ fdTemp = {Listener} /\ fdRead = {} /\ todo = {}
  /\ ipSocketMap = [ip \in Stations |-> None] /\ waitClearIP = {}
  /\ GSIPHash = {} /\ station_connected = FALSE
  /\ conn = [fd \in Fds |-> Free] /\ backlog = <<>>

Linked == {ip \in Stations : ipSocketMap[ip] # None}
Waiting == {backlog[i] : i \in DOMAIN backlog}

-----------------------------------------------------------------------------
\* TCPLinkState, called by the server thread under the register's lock.
LinkUp(ip) ==
  /\ GSIPHash' = GSIPHash \union {ip}
  /\ station_connected' = TRUE

\* Mutant of LinkDown: the heartbeats stop and the station stays registered.
LinkDownKeeps(ip) ==
  /\ GSIPHash' = GSIPHash
  /\ station_connected' = (station_connected /\ GSIPHash \ {ip} # {})

LinkDown(ip) ==
  /\ GSIPHash' = GSIPHash \ {ip}
  /\ station_connected' = (station_connected /\ GSIPHash' # {})

Readable(fd) ==
  IF fd = Listener THEN backlog # <<>> ELSE conn[fd].unread \/ ~conn[fd].open

Select ==
  /\ pc = "select"
  /\ fdRead' = {fd \in fdTemp : Readable(fd)}
  /\ fdRead' # {}
  /\ pc' = "accept"
  /\ UNCHANGED <<fdTemp, todo, ipSocketMap, waitClearIP, GSIPHash,
                 station_connected, conn, backlog>>

\* Mutant of AcceptOne: a station already known keeps its first connection.
AcceptKeepsFirst(fd) ==
  LET ip == Head(backlog)
  IN  /\ conn' = [g \in Fds |->
                    IF g = fd
                    THEN [ip |-> ip, open |-> TRUE, unread |-> FALSE, old |-> FALSE]
                    ELSE [conn[g] EXCEPT !.old = @ \/ conn[g].ip = ip]]
      /\ ipSocketMap' = [ipSocketMap EXCEPT ![ip] = IF @ = None THEN fd ELSE @]
      /\ fdTemp' = fdTemp \union {fd}
      /\ backlog' = Tail(backlog)
      /\ LinkUp(ip)

\* Mutant of AcceptOne: the new connection is not watched.
AcceptUnwatched(fd) ==
  LET ip == Head(backlog)
  IN  /\ conn' = [g \in Fds |->
                    IF g = fd
                    THEN [ip |-> ip, open |-> TRUE, unread |-> FALSE, old |-> FALSE]
                    ELSE [conn[g] EXCEPT !.old = @ \/ conn[g].ip = ip]]
      /\ ipSocketMap' = [ipSocketMap EXCEPT ![ip] = fd]
      /\ backlog' = Tail(backlog)
      /\ LinkUp(ip) /\ UNCHANGED fdTemp

\* The new connection replaces the one the station had, which stays open.
AcceptOne(fd) ==
  LET ip == Head(backlog)
  IN  /\ conn' = [g \in Fds |->
                    IF g = fd
                    THEN [ip |-> ip, open |-> TRUE, unread |-> FALSE, old |-> FALSE]
                    ELSE [conn[g] EXCEPT !.old = @ \/ conn[g].ip = ip]]
      /\ ipSocketMap' = [ipSocketMap EXCEPT ![ip] = fd]
      /\ fdTemp' = fdTemp \union {fd}
      /\ backlog' = Tail(backlog)
      /\ LinkUp(ip)

FreeFds == {fd \in Fds : conn[fd] = Free}

\* accept fails when the process has no descriptor left.
Accept ==
  /\ pc = "accept"
  /\ pc' = "read"
  /\ \/ /\ Listener \in fdRead
        /\ \E fd \in FreeFds : AcceptOne(fd)
     \/ /\ Listener \notin fdRead \/ FreeFds = {}
        /\ UNCHANGED <<conn, ipSocketMap, fdTemp, backlog, GSIPHash, station_connected>>
  /\ todo' = {ip \in Stations : ipSocketMap'[ip] \in fdRead}
  /\ fdRead' = {}
  /\ UNCHANGED waitClearIP

\* ReadData got bytes: the frames in them go to TCPServerCallBack.
Receive(ip) ==
  LET fd == ipSocketMap[ip]
  IN  /\ pc = "read" /\ ip \in todo
      /\ conn[fd].unread
      /\ conn' = [conn EXCEPT ![fd].unread = FALSE]
      /\ todo' = todo \ {ip}
      /\ UNCHANGED <<pc, fdTemp, fdRead, ipSocketMap, waitClearIP, GSIPHash,
                     station_connected, backlog>>

\* Mutant of Hangup: the descriptor is closed, and the station not remembered
\* for the clearing.
HangupForgotten(ip) ==
  /\ pc = "read" /\ ip \in todo
  /\ ~conn[ipSocketMap[ip]].unread
  /\ conn' = [conn EXCEPT ![ipSocketMap[ip]] = Free]
  /\ todo' = todo \ {ip}
  /\ LinkDown(ip)
  /\ UNCHANGED <<pc, fdTemp, fdRead, ipSocketMap, waitClearIP, backlog>>

\* ReadData got 0 or an error: the descriptor is closed, the station reported.
Hangup(ip) ==
  LET fd == ipSocketMap[ip]
  IN  /\ pc = "read" /\ ip \in todo
      /\ ~conn[fd].unread
      /\ conn' = [conn EXCEPT ![fd] = Free]
      /\ todo' = todo \ {ip}
      /\ waitClearIP' = waitClearIP \union {ip}
      /\ LinkDown(ip)
      /\ UNCHANGED <<pc, fdTemp, fdRead, ipSocketMap, backlog>>

\* Mutant of Rebuilt: the listening socket is not set again.
RebuiltWithoutListener(fds) ==
  {S \in SUBSET fds : \A fd \in fds : \E g \in S : fd <= g}

\* The watched descriptors are built again after a station is forgotten: while
\* the map is walked, each descriptor above those before it is added, and one
\* below adds the highest so far again.  So the highest is always among them,
\* and, by the order of the hash table, any of the others.
Rebuilt(fds) == {{Listener} \union S : S \in {T \in SUBSET fds :
                                                \A fd \in fds : \E g \in T : fd <= g}}

ClearLost ==
  /\ pc = "read" /\ todo = {}
  /\ pc' = "select"
  /\ ipSocketMap' = [ip \in Stations |->
                       IF ip \in waitClearIP THEN None ELSE ipSocketMap[ip]]
  /\ IF waitClearIP = {}
     THEN UNCHANGED fdTemp
     ELSE fdTemp' \in Rebuilt({ipSocketMap'[ip] : ip \in Stations} \ {None})
  /\ waitClearIP' = {}
  /\ UNCHANGED <<fdRead, todo, GSIPHash, station_connected, conn, backlog>>

ServerStep == \/ Select \/ Accept \/ ClearLost
              \/ \E ip \in Stations : Hangup(ip)

\* ROS thread: a station that a state message could not be sent to by UDP leaves
\* the register, whatever the state of its connection.
SendUdpFails(failed) ==
  /\ failed # {} /\ failed \subseteq GSIPHash
  /\ GSIPHash' = GSIPHash \ failed
  /\ UNCHANGED <<pc, fdTemp, fdRead, todo, ipSocketMap, waitClearIP,
                 station_connected, conn, backlog>>

-----------------------------------------------------------------------------
(***************************************************************************)
(* External: the stations.  A station that connects again may have closed  *)
(* its connection before or not (power cut, network change); it uses only  *)
(* the newest one.                                                         *)
(***************************************************************************)
nodeLinkVars == <<pc, fdTemp, fdRead, todo, ipSocketMap, waitClearIP, GSIPHash,
                  station_connected>>

Connect(ip) ==
  /\ ip \notin Waiting
  /\ backlog' = Append(backlog, ip)
  /\ UNCHANGED <<nodeLinkVars, conn>>

SendCommand(fd) ==
  /\ conn[fd].open /\ ~conn[fd].old /\ ~conn[fd].unread
  /\ conn[fd].ip \notin Waiting
  /\ conn' = [conn EXCEPT ![fd].unread = TRUE]
  /\ UNCHANGED <<nodeLinkVars, backlog>>

Disconnect(fd) ==
  /\ conn[fd].open
  /\ conn' = [conn EXCEPT ![fd].open = FALSE]
  /\ UNCHANGED <<nodeLinkVars, backlog>>

StationStep == \/ \E ip \in Stations : Connect(ip)
               \/ \E fd \in Fds : SendCommand(fd) \/ Disconnect(fd)

LinkNext == \/ ServerStep
            \/ \E ip \in Stations : Receive(ip)
            \/ \E failed \in SUBSET Stations : SendUdpFails(failed)
            \/ StationStep

LinkSpec == LinkInit /\ [][LinkNext]_linkVars

-----------------------------------------------------------------------------
(***************************************************************************)
(* Properties.                                                             *)
(***************************************************************************)

\* Only stations with a connection are in the register, whatever the order of
\* reconnections, hangups and failed sends; and when the last station goes the
\* heartbeats stop.
RegisterIsLinked ==
  /\ GSIPHash \subseteq Linked
  /\ station_connected => Linked # {}
  /\ GSIPHash # {} => station_connected

\* select is never called with a descriptor that is closed: the recovery from
\* EBADF, which would watch one descriptor only (resetMaxSock), never runs.
WatchedAreOpen ==
  pc = "select" => \A fd \in fdTemp \ {Listener} : conn[fd] # Free

\* The watched set is rebuilt from a walk over the connections that may miss some of
\* them: whatever hangs up, and whoever connects again on another descriptor, one of
\* the stations is still heard, and one that is alone always is (TCPServerOnRun).
OneIsHeard ==
  pc = "select" /\ Linked # {} => \E ip \in Linked : ipSocketMap[ip] \in fdTemp

\* A command is taken only from the newest connection of a station: what an
\* earlier one still held is not executed after the station connected again.
NewestCommandsOnly ==
  [][\A fd \in Fds : conn[fd].unread /\ ~conn'[fd].unread => ~conn[fd].old]_linkVars

\* A station that connects is accepted, as long as the process has descriptors.
ConnectionsAccepted ==
  \A ip \in Stations : ip \in Waiting ~> ip \notin Waiting \/ FreeFds = {}
=============================================================================
