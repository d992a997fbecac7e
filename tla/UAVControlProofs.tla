-------------------------- MODULE UAVControlProofs --------------------------
(***************************************************************************)
(* Proofs about UAVControl, for every value of its constants.              *)
(***************************************************************************)
EXTENDS UAVControl, TLAPS

-----------------------------------------------------------------------------
(***************************************************************************)
(* The steps that handlers share keep the record well typed.               *)
(***************************************************************************)

LEMMA StampType ==
  ASSUME NEW v \in UType, NEW c \in StoredCmds
  PROVE  Stamp(v, c) \in UType
  BY DEF Stamp, UType

LEMMA PubType ==
  ASSUME NEW v \in UType
  PROVE  SetpointLocalPub(v) \in UType
  BY DEF SetpointLocalPub, UType, Pubs

\* What most handlers end with: a target and the fields of it PX4 is to use.
LEMMA AimType ==
  ASSUME NEW v \in UType, NEW t \in Targets, NEW m \in Masks
  PROVE  [v EXCEPT !.target = t, !.mask = m] \in UType
  BY DEF UType

LEMMA HoverType ==
  ASSUME NEW v \in UType
  PROVE  SetDesiredFromHover(v) \in UType
<1>1. "Hover" \in StoredCmds /\ "Hover" \in Targets /\ "POS_YAW" \in Masks
  BY DEF StoredCmds, Targets, Masks
<1>2. Stamp(v, "Hover") \in UType
  BY <1>1, StampType
<1> QED
  BY <1>1, <1>2, AimType DEF SetDesiredFromHover

LEMMA OffboardType ==
  ASSUME NEW v \in UType, NEW mode \in Modes, NEW rcSeen
  PROVE  SetOffboardControl(v, mode, rcSeen) \in UType
<1> DEFINE stamped == Stamp(v, "Hover")
           entered == [stamped EXCEPT !.control_mode = mode]
           prepared == [entered EXCEPT !.target = "Cleared",
                           !.pub = [kind |-> "Cleared", mask |-> "VEL"],
                           !.modes = @ \union {"OFFBOARD"}]
<1>1. stamped \in UType
  BY StampType DEF StoredCmds
<1> HIDE DEF stamped
<1>2. entered \in UType
  BY <1>1 DEF UType
<1> HIDE DEF entered
<1>3. [kind |-> "Cleared", mask |-> "VEL"] \in Pubs /\ "Cleared" \in Targets /\ "OFFBOARD" \in FcModes
  BY DEF Pubs, Targets, Masks, FcModes
<1>4. prepared \in UType
  BY <1>2, <1>3 DEF UType
<1> HIDE DEF prepared
<1>5. SetOffboardControl(v, mode, rcSeen) \in {v, entered, prepared}
  BY DEF SetOffboardControl, entered, prepared, stamped
<1> QED
  BY <1>2, <1>4, <1>5

LEMMA ModeType ==
  ASSUME NEW v \in UType, NEW mode \in Modes
  PROVE  [v EXCEPT !.control_mode = mode] \in UType
  BY DEF UType

LEMMA AskModeType ==
  ASSUME NEW v \in UType, NEW m \in FcModes
  PROVE  [v EXCEPT !.modes = @ \union {m}] \in UType
  BY DEF UType

LEMMA StopType ==
  ASSUME NEW v \in UType
  PROVE  EmergencyStop(v) \in UType
  BY DEF EmergencyStop, UType, Modes

LEMMA LandStepType ==
  ASSUME NEW v \in UType
  PROVE  LandStep(v) \in UType
<1> DEFINE timer == IF NewLanding(v) THEN "zero" ELSE v.land_timer
           down == [v EXCEPT !.land_timer = timer, !.target = "Land", !.mask = "POS_VEL_YAW"]
           push == [v EXCEPT !.land_timer = "running", !.target = "PushDown", !.mask = "VEL_YAW"]
           cleared == [v EXCEPT !.target = "Cleared", !.mask = "POS_VEL_YAW"]
<1>1. timer \in Timers
  BY DEF Timers, UType
<1> HIDE DEF timer
<1>2. down \in UType /\ push \in UType /\ cleared \in UType
  BY <1>1 DEF UType, Timers, Targets, Masks
<1> HIDE DEF down, push, cleared
<1>3. EmergencyStop(cleared) \in UType
  BY <1>2, StopType
<1>4. LandStep(v) \in {down, push, EmergencyStop(cleared)}
  BY DEF LandStep, down, push, cleared, timer
<1> QED
  BY <1>2, <1>3, <1>4

LEMMA HandleLandType ==
  ASSUME NEW v \in UType
  PROVE  HandleLandControl(v) \in UType
<1> DEFINE w == IF px4.armed THEN v ELSE [v EXCEPT !.control_mode = "INIT"]
           asked == [w EXCEPT !.modes = @ \union {"AUTO.LAND"}]
<1>1. w \in UType
  BY ModeType DEF Modes
<1> HIDE DEF w
<1>2. asked \in UType
  BY <1>1, AskModeType DEF FcModes
<1> HIDE DEF asked
<1>3. SetpointLocalPub(LandStep(w)) \in UType /\ SetpointLocalPub(LandStep(asked)) \in UType
  BY <1>1, <1>2, LandStepType, PubType
<1>4. HandleLandControl(v) \in {w, SetpointLocalPub(LandStep(w)), SetpointLocalPub(LandStep(asked))}
  BY ConstantsAssumption DEF ConstantsAssumption, HandleLandControl, w, asked
<1> QED
  BY <1>1, <1>3, <1>4

LEMMA SetLandType ==
  ASSUME NEW v \in UType
  PROVE  SetLand(v) \in UType
<1>1. [v EXCEPT !.control_mode = "LAND_CONTROL"] \in UType
  BY ModeType DEF Modes
<1> QED
  BY <1>1, HandleLandType DEF SetLand

-----------------------------------------------------------------------------
(***************************************************************************)
(* The commands of CMD_CONTROL keep it well typed.                         *)
(***************************************************************************)

LEMMA TakeoffType ==
  ASSUME NEW v \in UType
  PROVE  SetTakeoff(v) \in UType
<1>1. [v EXCEPT !.target = "Takeoff", !.mask = "POS_YAW"] \in UType
  BY AimType DEF Targets, Masks
<1>2. SetTakeoff(v) \in {SetDesiredFromHover(v), v,
                         [v EXCEPT !.target = "Takeoff", !.mask = "POS_YAW"]}
  BY DEF SetTakeoff
<1> QED
  BY <1>1, <1>2, HoverType

LEMMA ReturnType ==
  ASSUME NEW v \in UType, NEW near \in BOOLEAN
  PROVE  ReturnToHome(v, near) \in UType
<1> DEFINE headed == IF v.new_cmd THEN [v EXCEPT !.target = "Home", !.mask = "POS_YAW"] ELSE v
<1>1. headed \in UType
  BY AimType DEF Targets, Masks
<1> HIDE DEF headed
<1>2. Stamp(headed, "Land") \in UType
  BY <1>1, StampType DEF StoredCmds
<1>3. ReturnToHome(v, near) \in {SetDesiredFromHover(v), Stamp(headed, "Land"), headed}
  BY DEF ReturnToHome, headed
<1> QED
  BY <1>1, <1>2, <1>3, HoverType

\* The fields of the mission.
LEMMA WpType ==
  ASSUME NEW v \in UType, NEW i \in Nat, NEW s \in 0 .. 6, NEW b \in BOOLEAN
  PROVE  /\ [v EXCEPT !.wp_index = i, !.wp_state = s] \in UType
         /\ [v EXCEPT !.wp_index = i, !.wp_state = s, !.wp_late = b] \in UType
         /\ [v EXCEPT !.wp_late = b, !.wp_state = s] \in UType
         /\ [v EXCEPT !.wp_state = s] \in UType
  BY DEF UType

LEMMA WpEnterType ==
  ASSUME NEW v \in UType
  PROVE  WpEnter(v) \in UType
<1>1. 0 \in Nat /\ 0 \in 0 .. 6
  OBVIOUS
<1> QED
  BY <1>1, WpType DEF WpEnter

LEMMA WpLaunchType ==
  ASSUME NEW v \in UType
  PROVE  WpLaunch(v) \in UType
<1> DEFINE a == IF px4.mode = "OFFBOARD" /\ px4.armed THEN [v EXCEPT !.wp_state = 2] ELSE v
           off == SetOffboardControl(a, "CMD_CONTROL", get_rc_signal)
           b == IF px4.mode # "OFFBOARD" /\ a.wp_state = 0
                THEN [off EXCEPT !.cmd = "Waypoint", !.wp_state = 1]
                ELSE a
           arming == [b EXCEPT !.arm = {TRUE}]
<1>0. 1 \in 0 .. 6 /\ 2 \in 0 .. 6 /\ "Waypoint" \in StoredCmds
  BY DEF StoredCmds
<1>1. a \in UType
  BY <1>0, WpType
<1> HIDE DEF a
<1>2. off \in UType
  BY <1>1, OffboardType DEF Modes
<1> HIDE DEF off
<1>3. [off EXCEPT !.cmd = "Waypoint", !.wp_state = 1] \in UType
  BY <1>0, <1>2 DEF UType
<1>4. b \in UType
  BY <1>1, <1>3
<1> HIDE DEF b
<1>5. arming \in UType
  BY <1>4 DEF UType
<1> HIDE DEF arming
<1>6. SetDesiredFromHover(b) \in UType
  BY <1>4, HoverType
<1>7. WpLaunch(v) \in {arming, SetDesiredFromHover(b), b}
  BY DEF WpLaunch, arming, b, off, a
<1> QED
  BY <1>4, <1>5, <1>6, <1>7

LEMMA WpUnderWayType ==
  ASSUME NEW v \in UType
  PROVE  WpUnderWay(v) \in UType
<1> DEFINE s == IF ~mission.takeoff /\ v.wp_state \in {0, 1} THEN 3 ELSE v.wp_state
<1>1. s \in 0 .. 6
  BY DEF UType
<1>2. WpUnderWay(v) = [v EXCEPT !.wp_late = FALSE, !.wp_state = s]
  BY DEF WpUnderWay, UType
<1> HIDE DEF s
<1> QED
  BY <1>1, <1>2, WpType

LEMMA WpFlyType ==
  ASSUME NEW v \in UType, NEW near \in BOOLEAN, mission \in MissionType
  PROVE  WpFly(v, near) \in UType
<1>1. v.wp_state \in 0 .. 6 /\ v.wp_index \in Nat /\ mission.end \in {1, 2, 3}
  BY DEF UType, MissionType
<1>s. 3 \in 0 .. 6 /\ 4 \in 0 .. 6 /\ 5 \in 0 .. 6 /\ 6 \in 0 .. 6
  OBVIOUS
<1>2. CASE v.wp_state \in {0, 1, 6}
  BY <1>2 DEF WpFly
<1>3. CASE v.wp_state = 2
  <2>1. [v EXCEPT !.target = "WpTakeoff", !.mask = "POS"] \in UType
    BY AimType DEF Targets, Masks
  <2>2. [v EXCEPT !.wp_state = 3] \in UType
    BY <1>s, WpType
  <2>3. WpFly(v, near) \in {[v EXCEPT !.target = "WpTakeoff", !.mask = "POS"],
                            [v EXCEPT !.wp_state = 3]}
    BY <1>1, <1>3 DEF WpFly
  <2> QED
    BY <2>1, <2>2, <2>3
<1>4. CASE v.wp_state = 3
  <2>1. [v EXCEPT !.target = "WpPoint", !.mask = "XY_VEL_Z_POS_YAW"] \in UType
    BY AimType DEF Targets, Masks
  <2> DEFINE s == IF v.wp_index + 1 >= mission.num THEN 4 ELSE 3
  <2>2. s \in 0 .. 6 /\ v.wp_index + 1 \in Nat
    BY <1>1
  <2> HIDE DEF s
  <2>3. [v EXCEPT !.wp_index = v.wp_index + 1, !.wp_state = s] \in UType
    BY <2>2, WpType
  <2>4. WpFly(v, near) \in {[v EXCEPT !.target = "WpPoint", !.mask = "XY_VEL_Z_POS_YAW"],
                            [v EXCEPT !.wp_index = v.wp_index + 1, !.wp_state = s]}
    BY <1>4 DEF WpFly, LastPoint, s
  <2> QED
    BY <2>1, <2>3, <2>4
<1>5. CASE v.wp_state = 4
  <2>1. [v EXCEPT !.target = "WpReturn", !.mask = "XY_VEL_Z_POS_YAW"] \in UType
    BY AimType DEF Targets, Masks
  <2>2. [v EXCEPT !.wp_state = 5] \in UType
    BY <1>s, WpType
  <2>3. WpFly(v, near) \in {[v EXCEPT !.target = "WpReturn", !.mask = "XY_VEL_Z_POS_YAW"],
                            [v EXCEPT !.wp_state = 5]}
    BY <1>1, <1>5 DEF WpFly
  <2> QED
    BY <2>1, <2>2, <2>3
<1>6. CASE v.wp_state = 5
  <2>1. [v EXCEPT !.target = "WpHome", !.mask = "POS_YAW"] \in UType
    BY AimType DEF Targets, Masks
  <2>2. Stamp(v, "Land") \in UType
    BY StampType DEF StoredCmds
  <2>3. [Stamp(v, "Land") EXCEPT !.wp_state = 6] \in UType
    BY <1>s, <2>2, WpType
  <2>4. SetDesiredFromHover([v EXCEPT !.wp_state = 6]) \in UType
    BY <1>s, WpType, HoverType
  <2>5. WpFly(v, near) \in {[v EXCEPT !.target = "WpHome", !.mask = "POS_YAW"],
                            [Stamp(v, "Land") EXCEPT !.wp_state = 6],
                            SetDesiredFromHover([v EXCEPT !.wp_state = 6])}
    BY <1>1, <1>6 DEF WpFly
  <2> QED
    BY <2>1, <2>3, <2>4, <2>5
<1> QED
  BY <1>1, <1>2, <1>3, <1>4, <1>5, <1>6

LEMMA WaypointType ==
  ASSUME NEW v \in UType, NEW near \in BOOLEAN, mission \in MissionType
  PROVE  WaypointMission(v, near) \in UType
<1> DEFINE w == WpEnter(v)
<1>1. w \in UType
  BY WpEnterType
<1> HIDE DEF w
<1>2. /\ SetDesiredFromHover(v) \in UType
      /\ SetDesiredFromHover(w) \in UType
      /\ WpFly(WpLaunch(w), near) \in UType
      /\ WpFly(WpUnderWay(w), near) \in UType
  BY <1>1, HoverType, WpLaunchType, WpUnderWayType, WpFlyType
<1>3. WaypointMission(v, near) \in {SetDesiredFromHover(v), SetDesiredFromHover(w),
                                   WpFly(WpLaunch(w), near), WpFly(WpUnderWay(w), near)}
  BY DEF WaypointMission, w
<1> QED
  BY <1>2, <1>3

LEMMA ExecuteType ==
  ASSUME NEW v \in UType, NEW near \in BOOLEAN, mission \in MissionType
  PROVE  Execute(v, near) \in UType
<1> DEFINE based == [v EXCEPT !.target = "Base", !.mask = "BASE"]
           global == [v EXCEPT !.mask = "GLOBAL",
                               !.pub = [kind |-> "Global", mask |-> "GLOBAL"]]
           attitude == [v EXCEPT !.pub = [kind |-> "Attitude", mask |-> v.mask]]
           flown == {SetTakeoff(v), SetLand(v), SetDesiredFromHover(v),
                     WaypointMission(v, near), ReturnToHome(v, near), based, v}
<1>1. based \in UType
  BY AimType DEF Targets, Masks
<1> HIDE DEF based
<1>2. global \in UType
  <2>1. "GLOBAL" \in Masks /\ [kind |-> "Global", mask |-> "GLOBAL"] \in Pubs
    BY DEF Masks, Pubs
  <2> QED
    BY <2>1 DEF UType
<1> HIDE DEF global
<1>3. attitude \in UType
  BY DEF UType, Pubs
<1> HIDE DEF attitude
<1>4. flown \subseteq UType
  BY <1>1, TakeoffType, SetLandType, HoverType, WaypointType, ReturnType
<1>5. \A f \in flown : SetpointLocalPub(f) \in UType
  BY <1>4, PubType
<1>6. v.cmd \in StoredCmds /\ v.new_cmd \in BOOLEAN
  BY DEF UType
<1>7. Execute(v, near) \in {SetpointLocalPub(SetTakeoff(v)), SetpointLocalPub(SetLand(v)),
                           SetpointLocalPub(SetDesiredFromHover(v)),
                           SetpointLocalPub(WaypointMission(v, near)),
                           SetpointLocalPub(ReturnToHome(v, near)),
                           SetpointLocalPub(based), SetpointLocalPub(v), global, attitude}
  BY <1>6 DEF Execute, StoredCmds, based, global, attitude
<1> QED
  BY <1>2, <1>3, <1>5, <1>7

LEMMA ProcessedType ==
  ASSUME NEW v \in UType
  PROVE  Processed(v) \in UType
<1>1. v.cmd \in StoredCmds /\ (v.cmd_old /\ ~v.new_cmd) \in BOOLEAN
  BY DEF UType
<1> QED
  BY <1>1 DEF Processed, UType

LEMMA HandleCmdType ==
  ASSUME NEW v \in UType, NEW near \in BOOLEAN, mission \in MissionType
  PROVE  HandleCmdControl(v, near) \in UType
<1>1. SetDesiredFromHover(Stamp(v, "Hover")) \in UType
  BY StampType, HoverType DEF StoredCmds
<1>2. (IF v.new_cmd THEN Processed(v) ELSE v) \in UType
  BY ProcessedType
<1>3. [(IF v.new_cmd THEN Processed(v) ELSE v) EXCEPT !.control_mode = "INIT"] \in UType
  BY <1>2, ModeType DEF Modes
<1>4. Processed(Execute(v, near)) \in UType
  BY ExecuteType, ProcessedType
<1> QED
  BY <1>1, <1>3, <1>4 DEF HandleCmdControl

-----------------------------------------------------------------------------
(***************************************************************************)
(* Type correctness.                                                       *)
(***************************************************************************)

LEMMA BeginType ==
  ASSUME u \in UType
  PROVE  Begin \in UType
<1>1. NoPub \in Pubs
  BY DEF NoPub, Pubs, Masks
<1> QED
  BY <1>1 DEF Begin, UType

LEMMA CheckedType ==
  ASSUME u \in UType
  PROVE  Checked \in UType
  BY BeginType, ModeType DEF Checked, CheckState, Modes

LEMMA FinishType ==
  ASSUME TypeOK, NEW v \in UType, Finish(v)
  PROVE  u' \in UType /\ fc' \in [armed: BOOLEAN, mode: FcModes, pos: Pos]
<1>1. u' \in UType
  BY DEF Finish, UType
<1>2. PICK a \in (IF v.kill THEN {FALSE} ELSE {fc.armed} \union v.arm),
           m \in {fc.mode} \union v.modes : fc' = [fc EXCEPT !.armed = a, !.mode = m]
  BY DEF Finish
<1>3. a \in BOOLEAN /\ m \in FcModes
  BY <1>2 DEF TypeOK, UType
<1> QED
  BY <1>1, <1>2, <1>3 DEF TypeOK

LEMMA IterateType ==
  ASSUME TypeOK, NEW mode \in Modes, NEW handled \in UType, Iterate(mode, handled)
  PROVE  TypeOK'
<1>1. u' \in UType /\ fc' \in [armed: BOOLEAN, mode: FcModes, pos: Pos]
  BY FinishType DEF Iterate
<1>2. last_control_mode' \in Modes
  BY DEF Iterate, UType
<1>3. safety_state' \in {-1, 0, 1, 2}
  BY DEF Iterate, SafetyCheck
<1> QED
  BY <1>1, <1>2, <1>3 DEF TypeOK, Iterate

LEMMA LoopType ==
  ASSUME TypeOK, MainLoop
  PROVE  TypeOK'
<1>1. Checked \in UType /\ mission \in MissionType
  BY CheckedType DEF TypeOK
<1>2. CASE LoopInit
  <2>1. [Checked EXCEPT !.modes = {"POSCTL"}] \in UType
    BY <1>1 DEF UType, FcModes
  <2>2. HandleInit(Checked) \in UType
    BY <1>1, <2>1 DEF HandleInit
  <2> QED
    BY <1>2, <2>2, IterateType DEF LoopInit, Modes
<1>3. CASE LoopRc
  <2>1. HandleRcControl(Checked) \in UType
    BY <1>1, AimType, PubType DEF HandleRcControl, Targets, Masks
  <2> QED
    BY <1>3, <2>1, IterateType DEF LoopRc, Modes
<1>4. CASE LoopCmd
  <2>1. PICK near \in BOOLEAN : Iterate("CMD_CONTROL", HandleCmdControl(Checked, near))
    BY <1>4 DEF LoopCmd
  <2>2. HandleCmdControl(Checked, near) \in UType
    BY <1>1, HandleCmdType
  <2> QED
    BY <2>1, <2>2, IterateType DEF Modes
<1>5. CASE LoopLand
  BY <1>1, <1>5, HandleLandType, IterateType DEF LoopLand, Modes
<1>6. CASE LoopWithout
  BY <1>1, <1>6, IterateType DEF LoopWithout, Modes
<1> QED
  BY <1>2, <1>3, <1>4, <1>5, <1>6 DEF MainLoop

LEMMA RcType ==
  ASSUME TypeOK, NEW rc \in RcMsgs, RcStateCallback(rc)
  PROVE  TypeOK'
<1> DEFINE armed == [Begin EXCEPT !.arm = CASE rc.arm = "ARM" -> {TRUE}
                                            [] rc.arm = "DISARM" -> {FALSE}
                                            [] rc.arm = "none" -> {}]
           moded == CASE rc.mode = "none" -> armed
                      [] rc.mode = "INIT" -> [armed EXCEPT !.control_mode = "INIT"]
                      [] rc.mode \in {"RC_CONTROL", "CMD_CONTROL"} ->
                           SetOffboardControl(armed, rc.mode, TRUE)
           landed == IF rc.land THEN SetLand(moded) ELSE moded
           sent == IF rc.kill THEN EmergencyStop(landed) ELSE landed
<1>1. rc \in RcMsgType
  BY ConstantsAssumption DEF ConstantsAssumption
<1>2. armed \in UType
  <2>1. (CASE rc.arm = "ARM" -> {TRUE}
           [] rc.arm = "DISARM" -> {FALSE}
           [] rc.arm = "none" -> {}) \in SUBSET BOOLEAN
    BY <1>1 DEF RcMsgType
  <2> QED
    BY <2>1, BeginType DEF TypeOK, UType
<1> HIDE DEF armed
<1>3. moded \in UType
  <2>1. [armed EXCEPT !.control_mode = "INIT"] \in UType
    BY <1>2, ModeType DEF Modes
  <2>2. ASSUME NEW mode \in {"RC_CONTROL", "CMD_CONTROL"}
        PROVE  SetOffboardControl(armed, mode, TRUE) \in UType
    BY <1>2, OffboardType DEF Modes
  <2> QED
    BY <1>1, <1>2, <2>1, <2>2 DEF RcMsgType
<1> HIDE DEF moded
<1>4. sent \in UType
  BY <1>3, SetLandType, StopType
<1>5. Finish(sent)
  BY DEF RcStateCallback, sent, landed, moded, armed
<1> HIDE DEF sent
<1>6. u' \in UType /\ fc' \in [armed: BOOLEAN, mode: FcModes, pos: Pos]
  BY <1>4, <1>5, FinishType
<1> QED
  BY <1>6 DEF TypeOK, RcStateCallback

LEMMA UavSetupType ==
  ASSUME TypeOK, NEW req \in Setups, UavSetupCallback(req)
  PROVE  TypeOK'
<1> DEFINE sent == CASE req.cmd = "ARM"            -> [Begin EXCEPT !.arm = {TRUE}]
                     [] req.cmd = "DISARM"         -> [Begin EXCEPT !.arm = {FALSE}]
                     [] req.cmd = "SET_PX4_MODE"   -> [Begin EXCEPT !.modes = {req.px4_mode}]
                     [] req.cmd = "REBOOT_PX4"     -> Begin
                     [] req.cmd = "EMERGENCY_KILL" -> EmergencyStop(Begin)
                     [] req.cmd = "SET_CONTROL_MODE" -> SetControlMode(req.control_mode)
<1>1. req \in SetupType
  BY ConstantsAssumption DEF ConstantsAssumption
<1>2. Begin \in UType
  BY BeginType DEF TypeOK
<1>3. /\ [Begin EXCEPT !.arm = {TRUE}] \in UType
      /\ [Begin EXCEPT !.arm = {FALSE}] \in UType
      /\ EmergencyStop(Begin) \in UType
  BY <1>2, StopType DEF UType
<1>4. ASSUME req.cmd = "SET_PX4_MODE"
      PROVE  [Begin EXCEPT !.modes = {req.px4_mode}] \in UType
  <2>1. req.px4_mode \in FcModes
    BY <1>1, <1>4 DEF SetupType
  <2> QED
    BY <1>2, <2>1 DEF UType
<1>5. ASSUME req.cmd = "SET_CONTROL_MODE"
      PROVE  SetControlMode(req.control_mode) \in UType
  <2>1. req.control_mode \in Modes
    BY <1>1, <1>5 DEF SetupType
  <2>2. ASSUME NEW mode \in Modes
        PROVE  SetControlMode(mode) \in UType
    BY <1>2, ModeType, OffboardType, SetLandType DEF SetControlMode, Modes
  <2> QED
    BY <2>1, <2>2
<1>6. sent \in UType
  BY <1>1, <1>2, <1>3, <1>4, <1>5 DEF SetupType
<1>7. Finish(sent)
  BY DEF UavSetupCallback
<1> HIDE DEF sent
<1>8. u' \in UType /\ fc' \in [armed: BOOLEAN, mode: FcModes, pos: Pos]
  BY <1>6, <1>7, FinishType
<1> QED
  BY <1>8 DEF TypeOK, UavSetupCallback

LEMMA CmdType ==
  ASSUME TypeOK, NEW c \in Cmds, ControlCmdCallback(c)
  PROVE  TypeOK'
<1>1. c \in CmdKinds /\ Begin \in UType /\ u.last_cmd \in StoredCmds
  BY ConstantsAssumption, BeginType DEF ConstantsAssumption, TypeOK, UType
<1>2. u' \in UType
  <2>1. CASE c = "Waypoint"
    <3>1. Stamp(Begin, c) \in UType
      BY <1>1, <2>1, StampType DEF StoredCmds
    <3> QED
      BY <2>1, <3>1, ModeType DEF ControlCmdCallback, Modes
  <2>2. CASE c = "Point"
    BY <1>1, <2>2 DEF ControlCmdCallback, UType
  <2>3. CASE c \notin {"Waypoint", "Point"}
    BY <1>1, <2>3, StampType DEF ControlCmdCallback, CmdKinds
  <2> QED
    BY <2>1, <2>2, <2>3
<1>3. allow_lock' \in BOOLEAN
  BY DEF ControlCmdCallback, TypeOK
<1> QED
  BY <1>2, <1>3 DEF TypeOK, ControlCmdCallback

LEMMA EnvironmentType ==
  ASSUME TypeOK, Environment
  PROVE  TypeOK'
<1>1. Begin \in UType
  BY BeginType DEF TypeOK
<1>2. CASE RcSilence
  BY <1>1, <1>2 DEF RcSilence, nodeVars, TypeOK
<1>3. CASE LandTimerExpires \/ CmdExpires \/ WpExpires
  <2>1. /\ [Begin EXCEPT !.land_timer = "expired"] \in UType
        /\ [Begin EXCEPT !.cmd_old = TRUE] \in UType
        /\ [Begin EXCEPT !.wp_late = TRUE] \in UType
    BY <1>1 DEF UType, Timers
  <2> QED
    BY <1>3, <2>1 DEF LandTimerExpires, CmdExpires, WpExpires, nodeVars, TypeOK
<1>4. ASSUME NEW f \in [armed: BOOLEAN, mode: FcModes, pos: Pos], FcChanges(f)
      PROVE  TypeOK'
  BY <1>1, <1>4 DEF FcChanges, nodeVars, TypeOK
<1>5. CASE FcArming
  <2>1. [fc EXCEPT !.armed = ~@] \in [armed: BOOLEAN, mode: FcModes, pos: Pos]
    BY DEF TypeOK
  <2> QED
    BY <1>4, <1>5, <2>1 DEF FcArming
<1>6. CASE FcMode
  <2>1. PICK m \in FcModes : FcChanges([fc EXCEPT !.mode = m])
    BY <1>6 DEF FcMode
  <2>2. [fc EXCEPT !.mode = m] \in [armed: BOOLEAN, mode: FcModes, pos: Pos]
    BY DEF TypeOK
  <2> QED
    BY <1>4, <2>1, <2>2
<1>7. CASE Descend
  <2>1. [fc EXCEPT !.pos.z = @ - 1] \in [armed: BOOLEAN, mode: FcModes, pos: Pos]
    BY <1>7 DEF Descend, TypeOK, Pos
  <2> QED
    BY <1>4, <1>7, <2>1 DEF Descend
<1>8. CASE Move
  <2>1. PICK p \in Pos : FcChanges([fc EXCEPT !.pos = p])
    BY <1>8 DEF Move
  <2>2. [fc EXCEPT !.pos = p] \in [armed: BOOLEAN, mode: FcModes, pos: Pos]
    BY DEF TypeOK
  <2> QED
    BY <1>4, <2>1, <2>2
<1>9. CASE OdomChanges
  BY <1>1, <1>9 DEF OdomChanges, nodeVars, TypeOK
<1> QED
  BY <1>2, <1>3, <1>5, <1>6, <1>7, <1>8, <1>9 DEF Environment

LEMMA InitType ==
  ASSUME Init
  PROVE  TypeOK
<1>1. u \in UType
  <2>1. NoPub \in Pubs /\ 0 \in 0 .. 6
    BY DEF NoPub, Pubs, Masks
  <2> QED
    BY <2>1 DEF Init, UType, Modes, StoredCmds, Timers, Targets, Masks
<1>2. fc \in [armed: BOOLEAN, mode: FcModes, pos: Pos]
  BY ConstantsAssumption DEF ConstantsAssumption, Init
<1>3. px4 \in Px4Type /\ home \in Pos
  BY ConstantsAssumption DEF ConstantsAssumption, Init, Px4Type
<1>4. mission \in MissionType
  BY DEF Init, NoMission, MissionType
<1> QED
  BY <1>1, <1>2, <1>3, <1>4 DEF Init, TypeOK, Modes

LEMMA NextType ==
  ASSUME TypeOK, [Next]_vars
  PROVE  TypeOK'
<1>1. CASE Px4StateCallback
  <2>1. Begin \in UType
    BY BeginType DEF TypeOK
  <2>2. px4' \in Px4Type
    BY <1>1 DEF Px4StateCallback, Px4Type, TypeOK
  <2>3. home' \in Pos
    BY <1>1 DEF Px4StateCallback, Px4Type, TypeOK
  <2>4. set_home' \in BOOLEAN
    BY <1>1 DEF Px4StateCallback, TypeOK
  <2> QED
    BY <1>1, <2>1, <2>2, <2>3, <2>4 DEF Px4StateCallback, TypeOK
<1>2. CASE \E rc \in RcMsgs : RcStateCallback(rc)
  BY <1>2, RcType
<1>3. CASE \E c \in Cmds : ControlCmdCallback(c)
  BY <1>3, CmdType
<1>4. CASE \E req \in Setups : UavSetupCallback(req)
  BY <1>4, UavSetupType
<1>5. CASE \E m \in Missions : WaypointCallback(m)
  <2>1. Begin \in UType /\ Missions \subseteq MissionType
    BY ConstantsAssumption, BeginType DEF ConstantsAssumption, TypeOK
  <2> QED
    BY <1>5, <2>1 DEF WaypointCallback, TypeOK
<1>6. CASE MainLoop
  BY <1>6, LoopType
<1>7. CASE Environment
  BY <1>7, EnvironmentType
<1>8. CASE UNCHANGED vars
  BY <1>8 DEF vars, TypeOK
<1> QED
  BY <1>1, <1>2, <1>3, <1>4, <1>5, <1>6, <1>7, <1>8 DEF Next

\* Every reachable state is well typed: in particular handlers never leave
\* control_cmd on a command that only lives in the callback (Point), and the
\* mission state stays among those waypoint_mission switches on.
THEOREM TypeCorrect == Spec => []TypeOK
  BY InitType, NextType, PTL DEF Spec

-----------------------------------------------------------------------------
(***************************************************************************)
(* Home and arming.                                                        *)
(***************************************************************************)

\* In every reachable state home is set exactly while the last message reports
\* the vehicle armed: px4_state_callback is the only writer of both.
THEOREM HomeSafe == Spec => []HomeTracksArming
<1>1. Init => HomeTracksArming
  BY DEF Init, HomeTracksArming
<1>2. ASSUME TypeOK, HomeTracksArming, [Next]_vars
      PROVE  HomeTracksArming'
  <2>1. CASE Px4StateCallback
    BY <1>2, <2>1 DEF Px4StateCallback, HomeTracksArming, TypeOK, Px4Type
  <2>2. ASSUME UNCHANGED <<set_home, px4>>
        PROVE  HomeTracksArming'
    BY <1>2, <2>2 DEF HomeTracksArming
  <2>3. CASE \E rc \in RcMsgs : RcStateCallback(rc)
    BY <2>2, <2>3 DEF RcStateCallback
  <2>4. CASE \E c \in Cmds : ControlCmdCallback(c)
    BY <2>2, <2>4 DEF ControlCmdCallback
  <2>5. CASE \E req \in Setups : UavSetupCallback(req)
    BY <2>2, <2>5 DEF UavSetupCallback
  <2>6. CASE \E m \in Missions : WaypointCallback(m)
    BY <2>2, <2>6 DEF WaypointCallback
  <2>7. CASE MainLoop
    BY <2>2, <2>7 DEF MainLoop, LoopInit, LoopRc, LoopCmd, LoopLand, LoopWithout, Iterate
  <2>8. CASE Environment
    BY <2>2, <2>8 DEF Environment, RcSilence, LandTimerExpires, CmdExpires, WpExpires,
                      FcArming, FcMode, Descend, Move, FcChanges, OdomChanges, nodeVars
  <2>9. CASE UNCHANGED vars
    BY <2>2, <2>9 DEF vars
  <2> QED
    BY <1>2, <2>1, <2>3, <2>4, <2>5, <2>6, <2>7, <2>8, <2>9 DEF Next
<1> QED
  BY <1>1, <1>2, TypeCorrect, PTL DEF Spec
=============================================================================
