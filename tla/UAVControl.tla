----------------------------- MODULE UAVControl -----------------------------
(***************************************************************************)
(* The uav_control node: the state machine that decides who flies the      *)
(* vehicle (pilot, onboard commands, automatic landing), and what setpoint *)
(* PX4 receives.                                                           *)
(*                                                                         *)
(* The node is one thread.  Its loop (uav_control_node.cpp) runs every     *)
(* pending ROS callback and then UAVControl::mainLoop.  Callbacks and      *)
(* mainLoop never interleave with one another, but any callbacks, in any   *)
(* order, may run between two iterations, and PX4, the vehicle and time    *)
(* move between any two of them.  So one callback, or one iteration of     *)
(* mainLoop, is one action; everything a handler calls is part of it.      *)
(*                                                                         *)
(* The variable u holds the fields that nested handlers change.  Handlers  *)
(* called by other handlers are operators from such a record to another:   *)
(* calls compose in the order the code makes them.                         *)
(***************************************************************************)
EXTENDS Integers

CONSTANTS
  UseRC,            \* system_params.use_rc
  CheckCmdTimeout,  \* system_params.check_cmd_timeout
  LandType,         \* flight_params.land_type: 0 land and cut, 1 PX4 AUTO.LAND
  XRange, ZRange,   \* grid coordinates, one step wider than every threshold
  Fence,            \* the positions inside the geofence
  DefaultHome,      \* parameters home_x, home_z
  Cmds,             \* commands that arrive on uav_control_cmd
  RcMsgs,           \* messages that arrive on rc_state
  Setups,           \* requests that arrive on setup
  Missions,         \* missions that arrive on uav_waypoint
  FcStarts,         \* <<armed, position>> of the vehicle when the node starts
  Disturbances      \* what else may happen, see Environment

Pos == [x: XRange, z: ZRange]
Zero == [x |-> 0, z |-> 0]        \* a position message never filled in

Modes == {"INIT", "RC_CONTROL", "CMD_CONTROL", "LAND_CONTROL", "WITHOUT_CONTROL"}

\* "Base" stands for the sixteen commands of moveModeMap, "Ctrl" for the two
\* of the onboard position controller, "Unknown" for every other value, the
\* zero of a command never received included.  Point never stays in control_cmd.
StoredCmds == {"Base", "GlobalPos", "Ctrl", "Takeoff", "Land", "Hover",
               "Waypoint", "Return", "Unknown"}
CmdKinds == StoredCmds \union {"Point"}

FcModes == {"POSCTL", "OFFBOARD", "AUTO.LAND"}

RcMsgType == [arm: {"none", "ARM", "DISARM"},
              mode: {"none", "INIT", "RC_CONTROL", "CMD_CONTROL"},
              land: BOOLEAN, kill: BOOLEAN]

SetupType == [cmd: {"ARM", "DISARM", "REBOOT_PX4", "EMERGENCY_KILL"}]
             \union [cmd: {"SET_PX4_MODE"}, px4_mode: FcModes]
             \union [cmd: {"SET_CONTROL_MODE"}, control_mode: Modes]

\* What a waypoint upload carries that control depends on.  wp_end_type:
\* 1 hover, 2 land, 3 return and land.
MissionType == [init: BOOLEAN, takeoff: BOOLEAN, num: Nat, end: {1, 2, 3}]
NoMission == [init |-> FALSE, takeoff |-> FALSE, num |-> 0, end |-> 3]

\* local_setpoint by what was last written into it.  "Cleared" is
\* set_default_local_setpoint: every field zero, the position the map origin.
Targets == {"Cleared", "Hover", "RcHover", "Land", "PushDown", "Home", "Takeoff",
            "Base", "WpTakeoff", "WpPoint", "WpReturn", "WpHome"}
\* system_params.type_mask: the fields of a setpoint PX4 is told to use.
Masks == {"NONE", "POS", "POS_YAW", "POS_VEL_YAW", "VEL", "VEL_YAW",
          "XY_VEL_Z_POS_YAW", "BASE", "GLOBAL"}
NoPub == [kind |-> "none", mask |-> "NONE"]
Pubs == [kind: Targets \union {"none", "Global", "Attitude"}, mask: Masks]

\* A timestamp compared with a timeout: zero (never set), running, expired.
Timers == {"zero", "running", "expired"}

ASSUME ConstantsAssumption ==
  /\ UseRC \in BOOLEAN /\ CheckCmdTimeout \in BOOLEAN
  /\ LandType \in {0, 1}
  /\ XRange \subseteq Int /\ ZRange \subseteq Int /\ Zero \in Pos
  /\ Fence \subseteq Pos /\ DefaultHome \in Pos
  /\ Cmds \subseteq CmdKinds /\ RcMsgs \subseteq RcMsgType
  /\ Setups \subseteq SetupType
  /\ Missions \subseteq {m \in MissionType : m.init}
  /\ FcStarts \subseteq BOOLEAN \X Pos
  /\ Disturbances \subseteq {"arming", "mode", "move", "gust", "odom", "rc"}

VARIABLES
  u,                  \* what the handlers change, see UType
  last_control_mode,  \* control_mode at the end of the last mainLoop
  safety_state,       \* -1 before the first check, 0 safe, 1 fence, 2 odometry
  get_rc_signal,      \* has an rc_state message ever arrived?
  rc_stale,           \* is rc_state older than 1.5 s?
  allow_lock,         \* skip the armed checks (set by a Waypoint command)
  home, set_home,     \* flight_params.home_pos, set_home
  mission,            \* wp_params as uploaded
  px4,                \* px4_state: the last message about PX4
  fc,                 \* external: PX4 itself, [armed, mode, pos]
  odom_ok             \* external: is the external odometry valid?

vars == <<u, last_control_mode, safety_state, get_rc_signal, rc_stale, allow_lock,
          home, set_home, mission, px4, fc, odom_ok>>

UType == [
  control_mode: Modes,
  cmd: StoredCmds,        \* control_cmd.cmd
  last_cmd: StoredCmds,   \* last_control_cmd.cmd
  new_cmd: BOOLEAN,       \* do the stamps of the two commands differ?
  cmd_old: BOOLEAN,       \* is last_control_cmd older than cmd_timeout?
  land_timer: Timers,     \* last_land_time against land_end_time
  target: Targets,        \* local_setpoint
  mask: Masks,            \* system_params.type_mask
  wp_index: Nat,
  wp_state: 0 .. 6,
  wp_late: BOOLEAN,       \* is start_wp_time more than 5 s ago?
  \* What the handler in progress sends; cleared when the next one starts.
  pub: Pubs,              \* the last setpoint published
  arm: SUBSET BOOLEAN,    \* values asked of cmd/arming
  modes: SUBSET FcModes,  \* modes asked of set_mode
  kill: BOOLEAN]          \* motors cut

Px4Type == [connected: BOOLEAN, armed: BOOLEAN, mode: FcModes \union {"none"},
            pos: Pos, odom: BOOLEAN]

TypeOK ==
  /\ u \in UType
  /\ last_control_mode \in Modes
  /\ safety_state \in {-1, 0, 1, 2}
  /\ get_rc_signal \in BOOLEAN /\ rc_stale \in BOOLEAN /\ allow_lock \in BOOLEAN
  /\ home \in Pos /\ set_home \in BOOLEAN
  /\ mission \in MissionType
  /\ px4 \in Px4Type
  /\ fc \in [armed: BOOLEAN, mode: FcModes, pos: Pos]
  /\ odom_ok \in BOOLEAN

Init ==
  /\ u = [control_mode |-> "INIT", cmd |-> "Unknown", last_cmd |-> "Unknown",
          new_cmd |-> FALSE, cmd_old |-> TRUE, land_timer |-> "zero",
          target |-> "Cleared", mask |-> "NONE",
          wp_index |-> 0, wp_state |-> 0, wp_late |-> TRUE,
          pub |-> NoPub, arm |-> {}, modes |-> {}, kill |-> FALSE]
  /\ last_control_mode = "INIT"
  /\ safety_state = -1
  /\ get_rc_signal = FALSE /\ rc_stale = TRUE /\ allow_lock = FALSE
  /\ home = DefaultHome /\ set_home = FALSE
  /\ mission = NoMission
  /\ px4 = [connected |-> FALSE, armed |-> FALSE, mode |-> "none",
            pos |-> Zero, odom |-> FALSE]
  /\ \E s \in FcStarts, m \in FcModes : fc = [armed |-> s[1], mode |-> m, pos |-> s[2]]
  /\ odom_ok \in BOOLEAN

-----------------------------------------------------------------------------
(***************************************************************************)
(* Steps shared by several handlers.  v is the record u as the handler     *)
(* that calls them left it.                                                *)
(***************************************************************************)

\* A handler starts: nothing sent yet.
Begin == [u EXCEPT !.pub = NoPub, !.arm = {}, !.modes = {}, !.kill = FALSE]

\* control_cmd.cmd = c; control_cmd.header.stamp = now.
Stamp(v, c) == [v EXCEPT !.cmd = c, !.new_cmd = TRUE]

SetpointLocalPub(v) == [v EXCEPT !.pub = [kind |-> v.target, mask |-> v.mask]]

EmergencyStop(v) == [v EXCEPT !.kill = TRUE, !.control_mode = "INIT"]

ArmedCheckFails == ~allow_lock /\ ~px4.armed /\ UseRC

Airborne == px4.pos.x > home.x \/ px4.pos.z > home.z   \* signed, as the code tests it
BelowDisarmHeight == px4.pos.z <= home.z
NearHome == px4.pos.x <= home.x                        \* signed, as the code tests it

\* The hover point is the current position unless this is a Hover after a Hover.
SetDesiredFromHover(v) ==
  LET latch == (v.new_cmd /\ v.last_cmd # "Hover") \/ v.cmd # "Hover"
  IN  [(IF latch THEN Stamp(v, "Hover") ELSE v)
         EXCEPT !.target = "Hover", !.mask = "POS_YAW"]

\* Mutants of SetOffboardControl: the command of before is kept; the receiver
\* is not asked for.
EnterWithOldCommand(v, mode, rcSeen) ==
  IF (mode = "RC_CONTROL" /\ ~(UseRC /\ rcSeen)) \/ ArmedCheckFails THEN v
  ELSE [v EXCEPT !.control_mode = mode]
EnterWithoutSignal(v, mode, rcSeen) ==
  IF ArmedCheckFails THEN v ELSE [Stamp(v, "Hover") EXCEPT !.control_mode = mode]

\* set_offboard_control and, inside it, set_offboard_mode (whose own armed
\* check is the caller's): Hover becomes the command, and PX4 gets a zero
\* velocity setpoint before it is asked for OFFBOARD.
SetOffboardControl(v, mode, rcSeen) ==
  LET refused == \/ mode = "RC_CONTROL" /\ ~(UseRC /\ rcSeen)
                 \/ ArmedCheckFails
      entered == [Stamp(v, "Hover") EXCEPT !.control_mode = mode]
  IN  IF refused THEN v
      ELSE IF px4.mode = "OFFBOARD" THEN entered
      ELSE [entered EXCEPT !.target = "Cleared",
                           !.pub = [kind |-> "Cleared", mask |-> "VEL"],
                           !.modes = @ \union {"OFFBOARD"}]

\* Mutants of NewLanding: only a command is a new landing; the command is new
\* for as long as it is the last one.
OnlyCommandLands(v) == v.cmd = "Land" /\ v.new_cmd
AnyLandIsNew(v) == v.control_mode # last_control_mode \/ v.cmd = "Land"

\* A landing is new when the mode was another one at the end of the last
\* mainLoop, or when a Land command waits that handle_cmd_control has not
\* processed: land_pos and the timer of the final push down start again.
NewLanding(v) == \/ v.control_mode # last_control_mode
                 \/ v.cmd = "Land" /\ v.new_cmd

\* Down to land_pos, from the disarm height pushed down for land_end_time, cut.
LandStep(v) ==
  LET timer == IF NewLanding(v) THEN "zero" ELSE v.land_timer
  IN  CASE ~BelowDisarmHeight ->
             [v EXCEPT !.land_timer = timer, !.target = "Land", !.mask = "POS_VEL_YAW"]
        [] BelowDisarmHeight /\ timer # "expired" ->
             [v EXCEPT !.land_timer = "running", !.target = "PushDown", !.mask = "VEL_YAW"]
        [] BelowDisarmHeight /\ timer = "expired" ->
             EmergencyStop([v EXCEPT !.target = "Cleared", !.mask = "POS_VEL_YAW"])

\* Mutant of HandleLandControl: PX4's own landing is left alone before the end of
\* the landing is looked at.
AutoLandFirst(v) ==
  IF LandType = 1 /\ px4.mode = "AUTO.LAND" THEN v
  ELSE SetpointLocalPub(LandStep(
         [v EXCEPT !.control_mode = IF px4.armed THEN @ ELSE "INIT",
                   !.modes = @ \union (IF LandType = 1 THEN {"AUTO.LAND"} ELSE {})]))

HandleLandControl(v) ==
  LET w == IF px4.armed THEN v ELSE [v EXCEPT !.control_mode = "INIT"]
  IN  CASE LandType = 0 -> SetpointLocalPub(LandStep(w))
        [] LandType = 1 /\ px4.mode # "AUTO.LAND" ->
             SetpointLocalPub(LandStep([w EXCEPT !.modes = @ \union {"AUTO.LAND"}]))
        [] LandType = 1 /\ px4.mode = "AUTO.LAND" -> w

SetLand(v) ==
  IF v.control_mode \in {"RC_CONTROL", "CMD_CONTROL"}
  THEN HandleLandControl([v EXCEPT !.control_mode = "LAND_CONTROL"])
  ELSE v

-----------------------------------------------------------------------------
(***************************************************************************)
(* The commands of CMD_CONTROL.  near is the outcome of the comparisons    *)
(* with a target point that this module does not place on the grid: slow   *)
(* enough over home, at the waypoint, aligned with home.                   *)
(***************************************************************************)

SetTakeoff(v) ==
  CASE v.new_cmd /\ ~set_home -> SetDesiredFromHover(v)
    [] v.new_cmd /\ set_home /\ ~Airborne ->
         [v EXCEPT !.target = "Takeoff", !.mask = "POS_YAW"]
    [] OTHER -> v

ReturnToHome(v, near) ==
  LET headed == IF v.new_cmd THEN [v EXCEPT !.target = "Home", !.mask = "POS_YAW"] ELSE v
  IN  CASE v.new_cmd /\ ~set_home -> SetDesiredFromHover(v)
        [] ~(v.new_cmd /\ ~set_home) /\ NearHome /\ near -> Stamp(headed, "Land")
        [] OTHER -> headed

\* Entering the mission resets it; entering is told by the last command
\* processed not being Waypoint.
WpEnter(v) ==
  IF v.last_cmd # v.cmd
  THEN [v EXCEPT !.wp_index = 0, !.wp_state = 0, !.wp_late = FALSE]
  ELSE v

\* Missions with a takeoff: OFFBOARD first, then arm, with a limit of 5 s.
\* Mutant of ArmNext: arms before OFFBOARD was asked for.
ArmAtOnce(v) == ~px4.armed

ArmNext(v) == ~px4.armed /\ v.wp_state = 1

WpLaunch(v) ==
  LET a == IF px4.mode = "OFFBOARD" /\ px4.armed THEN [v EXCEPT !.wp_state = 2] ELSE v
      b == IF px4.mode # "OFFBOARD" /\ a.wp_state = 0
           THEN [SetOffboardControl(a, "CMD_CONTROL", get_rc_signal)
                   EXCEPT !.cmd = "Waypoint", !.wp_state = 1]
           ELSE a
  IN  CASE ArmNext(b) -> [b EXCEPT !.arm = {TRUE}]
        [] ~ArmNext(b) /\ b.wp_late -> SetDesiredFromHover(b)
        [] OTHER -> b

\* Missions without a takeoff, and missions already launched.
WpUnderWay(v) ==
  [v EXCEPT !.wp_late = FALSE,
            !.wp_state = IF ~mission.takeoff /\ @ \in {0, 1} THEN 3 ELSE @]

\* Mutant of LastPoint: the mission ends a point early.
PointBeforeLast(v) == v.wp_index + 2 >= mission.num

LastPoint(v) == v.wp_index + 1 >= mission.num

WpFly(v, near) ==
  CASE v.wp_state = 2 /\ near  -> [v EXCEPT !.wp_state = 3]
    [] v.wp_state = 2 /\ ~near -> [v EXCEPT !.target = "WpTakeoff", !.mask = "POS"]
    [] v.wp_state = 3 /\ near  ->
         [v EXCEPT !.wp_index = @ + 1,
                   !.wp_state = IF LastPoint(v) THEN 4 ELSE 3]
    [] v.wp_state = 3 /\ ~near -> [v EXCEPT !.target = "WpPoint", !.mask = "XY_VEL_Z_POS_YAW"]
    [] v.wp_state = 4 /\ (near \/ mission.end # 3) -> [v EXCEPT !.wp_state = 5]
    [] v.wp_state = 4 /\ ~near /\ mission.end = 3 ->
         [v EXCEPT !.target = "WpReturn", !.mask = "XY_VEL_Z_POS_YAW"]
    [] v.wp_state = 5 /\ (mission.end = 2 \/ (mission.end = 3 /\ near)) ->
         [Stamp(v, "Land") EXCEPT !.wp_state = 6]
    [] v.wp_state = 5 /\ mission.end = 3 /\ ~near ->
         [v EXCEPT !.target = "WpHome", !.mask = "POS_YAW"]
    [] v.wp_state = 5 /\ mission.end = 1 ->
         SetDesiredFromHover([v EXCEPT !.wp_state = 6])
    [] v.wp_state \in {0, 1, 6} -> v

WaypointMission(v, near) ==
  LET w == WpEnter(v)
      launching == mission.takeoff /\ w.wp_state \in {0, 1}
  IN  CASE ~mission.init -> SetDesiredFromHover(v)
        [] mission.init /\ launching -> WpFly(WpLaunch(w), near)
        [] mission.init /\ ~launching /\ ~mission.takeoff /\ ~px4.armed -> SetDesiredFromHover(w)
        [] OTHER -> WpFly(WpUnderWay(w), near)

\* The command of this iteration, once the timeout and the armed check passed.
Execute(v, near) ==
  CASE v.cmd = "Takeoff"  -> SetpointLocalPub(SetTakeoff(v))
    [] v.cmd = "Land"     -> SetpointLocalPub(SetLand(v))
    [] v.cmd = "Hover"    -> SetpointLocalPub(SetDesiredFromHover(v))
    [] v.cmd = "Waypoint" -> SetpointLocalPub(WaypointMission(v, near))
    [] v.cmd = "Return"   -> SetpointLocalPub(ReturnToHome(v, near))
    [] v.cmd = "GlobalPos" -> [v EXCEPT !.mask = "GLOBAL",
                                        !.pub = [kind |-> "Global", mask |-> "GLOBAL"]]
    [] v.cmd = "Ctrl"     -> [v EXCEPT !.pub = [kind |-> "Attitude", mask |-> v.mask]]
    [] v.cmd = "Base" /\ v.new_cmd ->
         SetpointLocalPub([v EXCEPT !.target = "Base", !.mask = "BASE"])
    [] v.cmd = "Unknown" /\ v.new_cmd -> SetpointLocalPub(SetDesiredFromHover(v))
    [] v.cmd \in {"Base", "Unknown"} /\ ~v.new_cmd -> SetpointLocalPub(v)

\* last_control_cmd = control_cmd.  A fresh stamp is at most an iteration old:
\* every way into CMD_CONTROL stamps control_cmd.
Processed(v) ==
  [v EXCEPT !.last_cmd = v.cmd, !.new_cmd = FALSE, !.cmd_old = @ /\ ~v.new_cmd]

\* Mutant of CmdTimedOut: it is the new command that times out.
NewCmdTimesOut(v) ==
  CheckCmdTimeout /\ v.new_cmd /\ v.cmd_old /\ v.cmd \notin {"Hover", "Takeoff"}

CmdTimedOut(v) ==
  CheckCmdTimeout /\ ~v.new_cmd /\ v.cmd_old /\ v.cmd \notin {"Hover", "Takeoff"}

HandleCmdControl(v, near) ==
  CASE CmdTimedOut(v) -> SetDesiredFromHover(Stamp(v, "Hover"))
    [] ~CmdTimedOut(v) /\ ArmedCheckFails ->
         [(IF v.new_cmd THEN Processed(v) ELSE v) EXCEPT !.control_mode = "INIT"]
    [] OTHER -> Processed(Execute(v, near))

HandleRcControl(v) ==
  IF rc_stale THEN v
  ELSE SetpointLocalPub([v EXCEPT !.target = "RcHover", !.mask = "POS_YAW"])

HandleInit(v) ==
  IF ~px4.armed /\ px4.mode # "POSCTL" THEN [v EXCEPT !.modes = {"POSCTL"}] ELSE v

\* Mutant of SafetyCheck: the two faults add up.
FaultsAddUp == (IF px4.pos \in Fence THEN 0 ELSE 1) + (IF px4.odom THEN 0 ELSE 2)

SafetyCheck ==
  CASE px4.pos \notin Fence -> 1
    [] px4.pos \in Fence /\ ~px4.odom -> 2
    [] px4.pos \in Fence /\ px4.odom -> 0

\* Mutants of CheckState: lost odometry is ignored; the command is resumed once
\* the view is good again.
FenceOnly(v) ==
  IF SafetyCheck = 1 /\ px4.armed THEN [v EXCEPT !.control_mode = "LAND_CONTROL"] ELSE v
ResumeWhenSafe(v) ==
  IF SafetyCheck = 0
  THEN [v EXCEPT !.control_mode = IF @ = "LAND_CONTROL" THEN "CMD_CONTROL" ELSE @]
  ELSE [v EXCEPT !.control_mode = IF px4.armed THEN "LAND_CONTROL" ELSE @]

CheckState(v) ==
  IF \/ SafetyCheck = 1 /\ px4.armed
     \/ SafetyCheck = 2 /\ v.control_mode \in {"RC_CONTROL", "CMD_CONTROL"}
  THEN [v EXCEPT !.control_mode = "LAND_CONTROL"]
  ELSE v

-----------------------------------------------------------------------------
(***************************************************************************)
(* The actions of the node.                                                *)
(***************************************************************************)

\* The handler ends with v.  External: PX4 grants or refuses each request it
\* was sent; it always obeys the forced disarm.
Finish(v) ==
  /\ u' = [v EXCEPT !.arm = {}, !.modes = {}]
  /\ \E a \in IF v.kill THEN {FALSE} ELSE {fc.armed} \union v.arm,
        m \in {fc.mode} \union v.modes :
       fc' = [fc EXCEPT !.armed = a, !.mode = m]

\* px4_state: home is taken at the arming edge, from the previous message.
Px4StateCallback ==
  /\ px4' = [connected |-> TRUE, armed |-> fc.armed, mode |-> fc.mode,
             pos |-> fc.pos, odom |-> odom_ok]
  /\ home' = IF ~px4.armed /\ fc.armed THEN px4.pos ELSE home
  /\ set_home' = (fc.armed /\ (set_home \/ ~px4.armed))
  /\ u' = Begin
  /\ UNCHANGED <<last_control_mode, safety_state, get_rc_signal, rc_stale,
                 allow_lock, mission, fc, odom_ok>>

\* rc_state: the switches that moved, in the order the code looks at them.
RcStateCallback(rc) ==
  LET armed == [Begin EXCEPT !.arm = CASE rc.arm = "ARM" -> {TRUE}
                                       [] rc.arm = "DISARM" -> {FALSE}
                                       [] rc.arm = "none" -> {}]
      moded == CASE rc.mode = "none" -> armed
                 [] rc.mode = "INIT" -> [armed EXCEPT !.control_mode = "INIT"]
                 [] rc.mode \in {"RC_CONTROL", "CMD_CONTROL"} ->
                      SetOffboardControl(armed, rc.mode, TRUE)
      landed == IF rc.land THEN SetLand(moded) ELSE moded
  IN  /\ get_rc_signal' = TRUE
      /\ rc_stale' = FALSE
      /\ Finish(IF rc.kill THEN EmergencyStop(landed) ELSE landed)
      /\ UNCHANGED <<last_control_mode, safety_state, allow_lock, home, set_home,
                     mission, px4, odom_ok>>

\* uav_control_cmd.  A Waypoint command takes the node to CMD_CONTROL from any
\* mode; a Point command publishes a planning goal and puts last_control_cmd
\* back in control_cmd.
ControlCmdCallback(c) ==
  /\ \/ /\ c = "Waypoint"
        /\ u' = [Stamp(Begin, c) EXCEPT !.control_mode = "CMD_CONTROL"]
        /\ allow_lock' = TRUE
     \/ /\ c = "Point"
        /\ u' = [Begin EXCEPT !.cmd = u.last_cmd, !.new_cmd = FALSE]
        /\ UNCHANGED allow_lock
     \/ /\ c \notin {"Waypoint", "Point"}
        /\ u' = Stamp(Begin, c)
        /\ allow_lock' = FALSE
  /\ UNCHANGED <<last_control_mode, safety_state, get_rc_signal, rc_stale, home,
                 set_home, mission, px4, fc, odom_ok>>

\* SET_CONTROL_MODE: the offboard modes only while the last check was safe.
SetControlMode(mode) ==
  CASE mode \in {"INIT", "WITHOUT_CONTROL"} -> [Begin EXCEPT !.control_mode = mode]
    [] mode \in {"RC_CONTROL", "CMD_CONTROL"} /\ safety_state = 0 ->
         SetOffboardControl(Begin, mode, get_rc_signal)
    [] mode \in {"RC_CONTROL", "CMD_CONTROL"} /\ safety_state # 0 -> Begin
    [] mode = "LAND_CONTROL" -> SetLand(Begin)

\* setup.  A reboot request changes nothing in the node, and PX4 refuses it
\* in flight.
UavSetupCallback(req) ==
  /\ Finish(CASE req.cmd = "ARM"            -> [Begin EXCEPT !.arm = {TRUE}]
              [] req.cmd = "DISARM"         -> [Begin EXCEPT !.arm = {FALSE}]
              [] req.cmd = "SET_PX4_MODE"   -> [Begin EXCEPT !.modes = {req.px4_mode}]
              [] req.cmd = "REBOOT_PX4"     -> Begin
              [] req.cmd = "EMERGENCY_KILL" -> EmergencyStop(Begin)
              [] req.cmd = "SET_CONTROL_MODE" -> SetControlMode(req.control_mode))
  /\ UNCHANGED <<last_control_mode, safety_state, get_rc_signal, rc_stale,
                 allow_lock, home, set_home, mission, px4, odom_ok>>

\* uav_waypoint: refused while a mission is the command of CMD_CONTROL.
WaypointCallback(m) ==
  /\ ~(u.cmd = "Waypoint" /\ u.control_mode = "CMD_CONTROL")
  /\ mission' = m
  /\ u' = Begin
  /\ UNCHANGED <<last_control_mode, safety_state, get_rc_signal, rc_stale,
                 allow_lock, home, set_home, px4, fc, odom_ok>>

\* One iteration of mainLoop: the check, the handler of the mode the check
\* left, and the mode remembered for the next iteration.
Checked == CheckState(Begin)

Iterate(mode, handled) ==
  /\ px4.connected
  /\ Checked.control_mode = mode
  /\ safety_state' = SafetyCheck
  /\ \E v \in {handled} : Finish(v) /\ last_control_mode' = v.control_mode
  /\ UNCHANGED <<get_rc_signal, rc_stale, allow_lock, home, set_home, mission,
                 px4, odom_ok>>

LoopInit    == Iterate("INIT", HandleInit(Checked))
LoopRc      == Iterate("RC_CONTROL", HandleRcControl(Checked))
LoopCmd     == \E near \in BOOLEAN :
                 Iterate("CMD_CONTROL", HandleCmdControl(Checked, near))
LoopLand    == Iterate("LAND_CONTROL", HandleLandControl(Checked))
LoopWithout == Iterate("WITHOUT_CONTROL", Checked)

MainLoop == LoopInit \/ LoopRc \/ LoopLand \/ LoopCmd \/ LoopWithout

-----------------------------------------------------------------------------
(***************************************************************************)
(* External: time, PX4, the vehicle and the positioning source.            *)
(***************************************************************************)
nodeVars == <<last_control_mode, safety_state, get_rc_signal, allow_lock, home,
              set_home, mission, px4>>

RcSilence == /\ "rc" \in Disturbances
             /\ ~rc_stale
             /\ rc_stale' = TRUE
             /\ u' = Begin
             /\ UNCHANGED <<nodeVars, fc, odom_ok>>

LandTimerExpires == /\ u.land_timer = "running"
                    /\ u' = [Begin EXCEPT !.land_timer = "expired"]
                    /\ UNCHANGED <<nodeVars, rc_stale, fc, odom_ok>>

CmdExpires == /\ CheckCmdTimeout /\ ~u.cmd_old
              /\ u' = [Begin EXCEPT !.cmd_old = TRUE]
              /\ UNCHANGED <<nodeVars, rc_stale, fc, odom_ok>>

WpExpires == /\ ~u.wp_late
             /\ u' = [Begin EXCEPT !.wp_late = TRUE]
             /\ UNCHANGED <<nodeVars, rc_stale, fc, odom_ok>>

FcChanges(f) == /\ fc' = f
                /\ u' = Begin
                /\ UNCHANGED <<nodeVars, rc_stale, odom_ok>>

\* The pilot's own sticks, or PX4's land detector.
FcArming == /\ "arming" \in Disturbances
            /\ FcChanges([fc EXCEPT !.armed = ~@])

\* The pilot's own mode switch, or a failsafe of PX4.
FcMode == /\ "mode" \in Disturbances
          /\ \E m \in FcModes \ {fc.mode} : FcChanges([fc EXCEPT !.mode = m])

Descending == /\ fc.armed
              /\ \/ fc.mode = "AUTO.LAND"
                 \/ fc.mode = "OFFBOARD" /\ u.target \in {"Land", "PushDown"}

Descend == /\ Descending
           /\ fc.pos.z - 1 \in ZRange
           /\ FcChanges([fc EXCEPT !.pos.z = @ - 1])

\* Any other movement: flown, carried, or blown.
Move == /\ "move" \in Disturbances
        /\ \E p \in Pos \ {fc.pos} :
             /\ p.x - fc.pos.x \in -1 .. 1 /\ p.z - fc.pos.z \in -1 .. 1
             /\ "gust" \in Disturbances \/ ~(Descending /\ p.z > fc.pos.z)
             /\ FcChanges([fc EXCEPT !.pos = p])

OdomChanges == /\ "odom" \in Disturbances
               /\ odom_ok' = ~odom_ok
               /\ u' = Begin
               /\ UNCHANGED <<nodeVars, rc_stale, fc>>

Environment == \/ RcSilence \/ LandTimerExpires \/ CmdExpires \/ WpExpires
               \/ FcArming \/ FcMode \/ Descend \/ Move \/ OdomChanges

Next == \/ Px4StateCallback
        \/ \E rc \in RcMsgs : RcStateCallback(rc)
        \/ \E c \in Cmds : ControlCmdCallback(c)
        \/ \E req \in Setups : UavSetupCallback(req)
        \/ \E m \in Missions : WaypointCallback(m)
        \/ MainLoop
        \/ Environment

Spec == Init /\ [][Next]_vars

\* What the node's 50 Hz loop, the 100 Hz state messages, clocks and a vehicle
\* that follows a descending setpoint justify.  Nothing is assumed of pilots
\* and operators.
Fairness == /\ WF_vars(MainLoop) /\ WF_vars(Px4StateCallback)
            /\ WF_vars(LandTimerExpires) /\ WF_vars(CmdExpires) /\ WF_vars(WpExpires)
            /\ WF_vars(Descend)

FairSpec == Spec /\ Fairness

-----------------------------------------------------------------------------
(***************************************************************************)
(* Properties.                                                             *)
(***************************************************************************)

\* px4_state_callback takes home at the arming edge and drops it at the
\* disarming one: the takeoff and return handlers, which test set_home, see
\* exactly the arming the last message reported.
HomeTracksArming == set_home <=> px4.armed

\* RC_CONTROL, which flies on the stick positions of rc_state, is never
\* entered without a receiver, whichever path (switch, setup) asks for it.
RcOnlyWithSignal == u.control_mode = "RC_CONTROL" => UseRC /\ get_rc_signal

\* mainLoop only takes the vehicle away from the sticks and the commands: every
\* way to them is a request (a switch, a setup, a Waypoint command), although
\* a mission calls set_offboard_control from inside the loop.
LoopOnlyTakesAway ==
  [][MainLoop => u'.control_mode \in {u.control_mode, "LAND_CONTROL", "INIT"}]_vars

\* However CMD_CONTROL is entered, the first command it will process is the
\* Hover of set_offboard_control or the Waypoint that forced it: a command left
\* over from before the pilot took the vehicle back is not executed.
EntryForgetsOldCommand ==
  [][u.control_mode # "CMD_CONTROL" /\ u'.control_mode = "CMD_CONTROL"
       => u'.cmd \in {"Hover", "Waypoint"} /\ u'.new_cmd]_vars

\* The landing never cuts the motors of an armed vehicle in its first iteration:
\* the timer of the final push down is not left over from an earlier landing.
\* (Of a vehicle known to be disarmed it may: the mode is INIT again before the
\* code asks whether the landing is new.)
NoCutOnLandingEntry ==
  [][MainLoop /\ px4.armed /\ u'.kill => last_control_mode = "LAND_CONTROL"]_vars

\* A mission asks to land only after its last waypoint (for one uploaded mission:
\* see UAVControlClaims for what a second upload does).
MissionLandsAfterLastPoint ==
  [][MainLoop /\ u.cmd = "Waypoint" /\ u'.cmd = "Land" => u.wp_index >= mission.num]_vars

\* The loop arms the vehicle on its own only to launch a mission with a takeoff,
\* and only after it asked PX4 for OFFBOARD.
ArmsOnlyToLaunch ==
  [][MainLoop /\ ~fc.armed /\ fc'.armed
       => /\ u.control_mode = "CMD_CONTROL" /\ u'.cmd = "Waypoint"
          /\ mission.init /\ mission.takeoff /\ u'.wp_state = 1]_vars

\* The node implements the promise of ControlAuthority.
HolderOf(mode) == CASE mode \in {"INIT", "WITHOUT_CONTROL"} -> "pilot"
                    [] mode \in {"RC_CONTROL", "CMD_CONTROL"} -> "commands"
                    [] mode = "LAND_CONTROL" -> "landing"

Trusted == SafetyCheck = 0 \/ (SafetyCheck = 1 /\ ~px4.armed)

DoingOf(v) == CASE v.kill -> "cut"
                [] ~v.kill /\ v.pub.kind = "none" -> "nothing"
                [] ~v.kill /\ v.pub.mask = "VEL" -> "prepare"
                [] ~v.kill /\ v.pub.kind \in {"Land", "PushDown"} -> "land"
                [] OTHER -> "follow"

Authority == INSTANCE ControlAuthority
  WITH holder <- HolderOf(u.control_mode), trusted <- Trusted, doing <- DoingOf(u)

\* Safety: commands are followed only by the mode that holds the vehicle, and
\* only when the last message about PX4 was inside the fence (or disarmed) with
\* valid odometry; requests alone never move the vehicle.
ImplementsAuthority == Authority!Spec

\* Liveness: outside the fence, or without odometry, the stick and the command
\* topic lose the vehicle, whatever they and the operators keep sending.
UntrustedLoseControl == Authority!RevokedEventually

\* A landing ends, with the motors cut or by another decision, as long as PX4
\* flies the node's setpoints, unless a Land command waits that only
\* handle_cmd_control would process (see LandingEnds).
LandWaits == u.cmd = "Land" /\ u.new_cmd
OnceLandedEnds ==
  u.control_mode = "LAND_CONTROL" /\ ~LandWaits
    ~> u.control_mode # "LAND_CONTROL" \/ fc.mode # "OFFBOARD" \/ LandWaits

\* A landing that PX4 finished, by its own land detector or the pilot's switch,
\* gives the vehicle back, whatever the land type and PX4's mode.
DisarmEndsLanding ==
  u.control_mode = "LAND_CONTROL" /\ ~fc.armed
    ~> u.control_mode # "LAND_CONTROL" \/ fc.armed

\* A mission does not wait for ever to be launched: OFFBOARD is asked for, or it
\* is there already and the 5 s of start_wp_time end in a Hover.
LaunchSettles ==
  u.control_mode = "CMD_CONTROL" /\ u.cmd = "Waypoint" /\ mission.init /\ u.wp_state = 0
    ~> u.control_mode # "CMD_CONTROL" \/ u.cmd # "Waypoint" \/ u.wp_state # 0

\* With the timeout on, a command that is not refreshed gives way to Hover.
StaleCommandHovers ==
  u.control_mode = "CMD_CONTROL" /\ u.cmd = "Base" /\ ~u.new_cmd
    ~> u.control_mode # "CMD_CONTROL" \/ u.cmd # "Base" \/ u.new_cmd

=============================================================================
