--------------------------- MODULE VisualLanding ---------------------------
(***************************************************************************)
(* The landing node and a demo flying its route, both commanding one       *)
(* vehicle.  With the multiplexer (demo_with_listen.launch) each has a     *)
(* topic of its own and pause_demo selects; without it (the ground         *)
(* station's way) both publish uav_control_cmd, and the landing node makes *)
(* the demo give up by taking the vehicle out of CMD_CONTROL for a moment. *)
(* The vehicle is what uav_control does with these messages.               *)
(***************************************************************************)
EXTENDS AutoLandByPose, RouteDemo, VisionCmdMux

\* What the multiplexer and the vehicle tell apart.
From(who, c) == [from |-> who, cmd |-> IF c \in {"Land", "Takeoff"} THEN c ELSE "move"]

ASSUME HoverAssumption == HoverCmd = From("mux", "Hover")

VARIABLES
  pause_wire,   \* pause_demo published and not received
  vehicle       \* uav_state as uav_control publishes it

vars == <<landVars, demoRouteVars, muxVars, pause_wire, vehicle>>

VisualTypeOK ==
  /\ LandTypeOK /\ RouteTypeOK
  /\ pause_wire \in {"on", "off", NoCmd}
  /\ vehicle \in UavState

VisualInit ==
  /\ LandInit /\ RouteInit /\ MuxInit
  /\ vehicle = [mode |-> "other", armed |-> FALSE, landed |-> TRUE]
  /\ heard = vehicle /\ control_mode = "other" /\ agl = 0
  /\ pause_wire = NoCmd

-----------------------------------------------------------------------------
\* Mutant of NodeTurn: the pause is published when the demo is paused only.
NodeTurnPauses ==
  /\ NodeStep
  /\ pause_wire' = (IF pause_demo_active' /\ ~pause_demo_active THEN "on" ELSE pause_wire)
  /\ UNCHANGED <<demoRouteVars, muxVars, vehicle>>

\* The landing node: set_pause_demo publishes what it assigns.
NodeTurn ==
  /\ NodeStep
  /\ pause_wire' = CASE pause_demo_active' /\ ~pause_demo_active -> "on"
                      [] ~pause_demo_active' /\ pause_demo_active -> "off"
                      [] OTHER -> pause_wire
  /\ UNCHANGED <<demoRouteVars, muxVars, vehicle>>

\* The board is not in sight from the ground.  Height band 1 adds nothing: it is as
\* band 0 before takeoff_ok and as band 2 after.
NodeHears ==
  /\ \/ TagCallback /\ ~vehicle.landed
     \/ StopTutorialCallback
     \/ \E h \in {0, 2} :
          /\ vehicle.landed => h = 0
          /\ UavStateCallback(h, IF vehicle.mode = "CMD_CONTROL" THEN "CMD_CONTROL" ELSE "other")
  /\ UNCHANGED <<demoRouteVars, muxVars, pause_wire, vehicle>>

DemoTurn ==
  /\ RouteStep
  /\ UNCHANGED <<landVars, muxVars, pause_wire, vehicle>>

DemoHears ==
  /\ UavStateHeard(vehicle)
  /\ UNCHANGED <<landVars, muxVars, pause_wire, vehicle>>

-----------------------------------------------------------------------------
\* A message of the node or of the demo is received.
nodeButWire == <<params, pc, count, tag, tag_age, seen, stop_flag, takeoff_ok,
                 precision_align, landing_point_num, engaged, home_phase, lock, uav_cmd,
                 pause_demo_active, agl, control_mode>>
TakeFromNode == wire # NoCmd /\ wire' = NoCmd /\ UNCHANGED <<nodeButWire, setups, demoRouteVars>>
TakeFromDemo == /\ demo_cmd # NoRoute /\ demo_cmd' = NoRoute
                /\ UNCHANGED <<landVars, phase, heard, demo_setup>>

MuxHears ==
  /\ use_cmd_mux
  /\ \/ TakeFromNode /\ vision_cb(From("node", wire)) /\ UNCHANGED pause_wire
     \/ TakeFromDemo /\ demo_cb(From("demo", demo_cmd)) /\ UNCHANGED pause_wire
     \/ /\ pause_wire # NoCmd /\ pause_cb(pause_wire = "on") /\ pause_wire' = NoCmd
        /\ UNCHANGED <<landVars, demoRouteVars>>
  /\ UNCHANGED vehicle

-----------------------------------------------------------------------------
(***************************************************************************)
(* External: the vehicle.  uav_control obeys commands in CMD_CONTROL only, *)
(* and Land there starts the landing.                                      *)
(***************************************************************************)
Obeys(c) ==
  vehicle' = (IF vehicle.mode # "CMD_CONTROL" THEN vehicle
              ELSE CASE c.cmd = "Land" -> [vehicle EXCEPT !.mode = "LAND_CONTROL"]
                     [] c.cmd = "Takeoff" /\ vehicle.armed -> [vehicle EXCEPT !.landed = FALSE]
                     [] OTHER -> vehicle)

\* What the multiplexer sends is received at once: it sends nothing that differs
\* before it hears something.
MuxTurn ==
  /\ use_cmd_mux /\ Forward /\ Obeys(out')
  /\ UNCHANGED <<landVars, demoRouteVars, pause_wire>>

VehicleTakes ==
  /\ ~use_cmd_mux
  /\ \/ TakeFromNode /\ Obeys(From("node", wire))
     \/ TakeFromDemo /\ Obeys(From("demo", demo_cmd))
  /\ UNCHANGED <<muxVars, pause_wire>>

\* Every request for a mode is granted.
Enters(request) ==
  vehicle' = (IF request = "ARM" THEN [vehicle EXCEPT !.armed = TRUE]
                                 ELSE [vehicle EXCEPT !.mode = request])

VehicleSetUp ==
  /\ \/ /\ setups # <<>> /\ Enters(Head(setups)) /\ setups' = Tail(setups)
        /\ UNCHANGED <<nodeButWire, wire, demoRouteVars>>
     \/ /\ demo_setup # NoRoute /\ Enters(demo_setup) /\ demo_setup' = NoRoute
        /\ UNCHANGED <<landVars, phase, heard, demo_cmd>>
  /\ UNCHANGED <<muxVars, pause_wire>>

\* The landing ends, disarmed.
TouchesDown ==
  /\ vehicle.mode = "LAND_CONTROL"
  /\ vehicle' = [mode |-> "other", armed |-> FALSE, landed |-> TRUE]
  /\ UNCHANGED <<landVars, demoRouteVars, muxVars, pause_wire>>

VisualNext ==
  \/ NodeTurn \/ NodeHears \/ DemoTurn \/ DemoHears
  \/ MuxHears \/ MuxTurn \/ VehicleTakes \/ VehicleSetUp \/ TouchesDown

\* The multiplexer turns, and what is published to it arrives.
MuxFairness ==
  /\ WF_vars(MuxTurn)
  /\ WF_vars(TakeFromNode /\ MuxHears)
  /\ WF_vars(pause_wire' = NoCmd /\ MuxHears)

VisualSpec == VisualInit /\ [][VisualNext]_vars /\ MuxFairness

\* So do the other processes, and the demo looks at every state in the end.
FairSpec == /\ VisualSpec
            /\ WF_vars(NodeTurn) /\ WF_vars(DemoTurn) /\ WF_vars(DemoHears)
            /\ WF_vars(TakeFromNode /\ VehicleTakes) /\ WF_vars(TakeFromDemo /\ VehicleTakes)
            /\ WF_vars(VehicleSetUp)

-----------------------------------------------------------------------------
(***************************************************************************)
(* Properties.                                                             *)
(***************************************************************************)

ByDemo(c) == c # NoMuxCmd /\ c.from = "demo"

\* While the demo is paused the multiplexer passes on nothing the demo says, not even
\* while the node has said nothing yet.
PausedDemoIsSilent == [][vision_active /\ out' # out => ~ByDemo(out')]_vars

\* With the multiplexer, a Land with which the engaged node ends reaches the vehicle,
\* whatever the demo publishes after it.
LandTaken ==
  (pc = "done" /\ use_cmd_mux /\ engaged /\ uav_cmd = "Land")
    ~> vehicle.mode # "CMD_CONTROL"

\* A stop of the node that has not landed gives the vehicle back to the demo.
StopReleasesDemo ==
  (pc = "done" /\ use_cmd_mux /\ uav_cmd # "Land") ~> ~vision_active

\* The interruption of the demo takes the vehicle out of every control mode, and
\* does not leave it there.
NotLeftWithoutControl ==
  vehicle.mode = "WITHOUT_CONTROL" => setups # <<>> \/ pc = "leaving"

-----------------------------------------------------------------------------
(***************************************************************************)
(* What comments say and the code does not do.                             *)
(***************************************************************************)

\* "The demo detects it by itself and quits" (auto_land_by_pose.cpp:169).
InterruptEndsDemo ==
  (pc = "loop" /\ engaged /\ ~use_cmd_mux) ~> (phase = "gone" \/ ~engaged)

\* "Already taken off and low: unconditional Land" (auto_land_by_pose.cpp:893).
UnconditionalLand ==
  (pc = "done" /\ uav_cmd = "Land") ~> vehicle.mode # "CMD_CONTROL"
=============================================================================
