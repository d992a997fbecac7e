-------------------------- MODULE UAVControlClaims --------------------------
(***************************************************************************)
(* What the comments of uav_control.cpp and UAVControl.h say of the node   *)
(* and the code does not do.  TLC refutes each with UAVClaims.cfg, one at  *)
(* a time, or with a configuration of its own; README.md tells the story.  *)
(***************************************************************************)
EXTENDS MCUAVControl

\* "LAND_CONTROL: lands in place, and disarms by itself after landing."  A Land
\* command that arrives during the landing is never processed, is therefore
\* new in every iteration, and keeps the timer of the final push down at zero.
LandingEnds ==
  u.control_mode = "LAND_CONTROL"
    ~> u.control_mode # "LAND_CONTROL" \/ fc.mode # "OFFBOARD"

\* "Entering waypoint mode resets the waypoint index first."  The reset asks
\* whether the last command processed was another one, not whether the mission
\* starts: one that was interrupted is resumed, with its old index, even if
\* another mission was uploaded in between.
MissionStartsAtFirstPoint ==
  [][/\ LoopCmd /\ last_control_mode # "CMD_CONTROL"
     /\ u.cmd = "Waypoint" /\ mission.init
     => u'.wp_index <= 1]_vars

\* "The other modes must be armed by hand."  A Waypoint command without a
\* mission becomes a Hover, and allow_lock stays set: CMD_CONTROL goes on with
\* a vehicle nobody armed.
OthersNeedArming ==
  [][LoopCmd /\ UseRC /\ ~px4.armed /\ u.cmd # "Waypoint"
       => u'.control_mode # "CMD_CONTROL"]_vars

\* "If it has taken off already, do not execute."  The setpoint is published
\* all the same; right after entering CMD_CONTROL it is the cleared one, the
\* map's origin at height zero.
RefusedTakeoffIsHarmless ==
  [][LoopCmd /\ fc.mode = "OFFBOARD" /\ u.cmd = "Takeoff" /\ Airborne => u'.pub.kind # "Cleared"]_vars

\* "Default home point, needed when the program is run after takeoff."  The
\* first message about an armed vehicle looks like an arming: home becomes the
\* position of a message that was never received.
DefaultHomeInFlight ==
  [][~px4.connected /\ px4'.connected => home' = DefaultHome]_vars

\* "Takeoff timeout!"  While PX4 refuses to arm, the branch with the timeout is
\* not reached.
RefusedArmingTimesOut ==
  u.control_mode = "CMD_CONTROL" /\ u.cmd = "Waypoint" /\ u.wp_state = 1 /\ u.wp_late
    ~> u.control_mode # "CMD_CONTROL" \/ u.cmd # "Waypoint" \/ px4.armed

\* "Once above the home point, and slow, start landing."  The differences are
\* compared without their absolute value.
ReturnLandsAboveHome ==
  [][LoopCmd /\ u.cmd = "Return" /\ u'.cmd = "Land" => px4.pos.x = home.x]_vars

\* "Below the disarm height, move down for land_end_time, so that it does not
\* fall with its motors cut."  The timer is not restarted when the vehicle
\* rises again: the next time it is low the motors are cut at once.
CutFollowsPushDown ==
  [][LoopLand /\ px4.mode = "OFFBOARD" /\ last_control_mode = "LAND_CONTROL" /\ u'.kill
     => u.target = "PushDown"]_vars

\* "Point: publishes the planning goal, has nothing to do with the state of the
\* program; afterwards, back to the state before."  A command that waits for
\* mainLoop is dropped for the one before it.
PointKeepsTheCommand ==
  [][(\E c \in {"Point"} \intersect Cmds : ControlCmdCallback(c))
       => u'.cmd = u.cmd /\ u'.new_cmd = u.new_cmd]_vars
=============================================================================
