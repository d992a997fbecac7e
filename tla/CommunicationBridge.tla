------------------------ MODULE CommunicationBridge ------------------------
(***************************************************************************)
(* The communication bridge: the link to the ground stations composed with *)
(* the demo programs.  The server thread runs TCPServerCallBack inside the *)
(* reading of a station, so while a demo command is being carried out the  *)
(* link waits for it; the ROS thread goes on.                              *)
(***************************************************************************)
EXTENDS GroundLink, DemoProcesses

bridgeVars == <<linkVars, demoVars>>

BridgeInit == LinkInit /\ DemoInit

\* Of the commands a station sends, those about demos change the bridge; the
\* others are published on a ROS topic.
TCPServerCallBack ==
  \/ \E d \in Demos : StartDemo(d) \/ StopDemo(d)
  \/ UNCHANGED demoVars

ServerThread ==
  \/ tcp = TcpIdle /\ ServerStep /\ UNCHANGED demoVars
  \/ tcp = TcpIdle /\ (\E ip \in Stations : Receive(ip)) /\ TCPServerCallBack
  \/ TcpAccess /\ UNCHANGED linkVars

RosThread ==
  \/ TimerStep /\ UNCHANGED linkVars
  \/ (\E failed \in SUBSET Stations : SendUdpFails(failed)) /\ UNCHANGED demoVars

Environment ==
  \/ StationStep /\ UNCHANGED demoVars
  \/ (\E p \in Pids : ChildEnds(p)) /\ UNCHANGED linkVars

BridgeNext == ServerThread \/ RosThread \/ Environment

\* Both threads run, and the timer is called again and again.
BridgeSpec == /\ BridgeInit /\ [][BridgeNext]_bridgeVars
              /\ WF_bridgeVars(ServerThread)
              /\ WF_bridgeVars(TimerStep /\ UNCHANGED linkVars)

-----------------------------------------------------------------------------
(***************************************************************************)
(* What comments say and the code does not do.                             *)
(***************************************************************************)

\* "Walk the sockets, is there data to read" (TCPServer.cpp:353): every
\* connection a station has is watched when the server waits for data.
EveryStationIsHeard ==
  pc = "select" => \A ip \in Linked : ipSocketMap[ip] \in fdTemp
=============================================================================
