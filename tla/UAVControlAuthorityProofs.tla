--------------------- MODULE UAVControlAuthorityProofs ---------------------
(***************************************************************************)
(* Who holds the vehicle: proofs that the modes of uav_control implement   *)
(* ControlAuthority, and of the properties that follow the control mode    *)
(* through the handlers.                                                   *)
(***************************************************************************)
EXTENDS UAVControlProofs

\* The handler that made w of v changed neither the mode nor the motors.
SameHolder(v, w) == w.control_mode = v.control_mode /\ w.kill = v.kill

\* Cutting the motors gives the vehicle back.
CutGivesBack(v) == v.kill => v.control_mode = "INIT"

LEMMA StampHolder ==
  ASSUME NEW v \in UType, NEW c
  PROVE  SameHolder(v, Stamp(v, c))
  BY DEF SameHolder, Stamp, UType

LEMMA PubHolder ==
  ASSUME NEW v \in UType
  PROVE  SameHolder(v, SetpointLocalPub(v))
  BY DEF SameHolder, SetpointLocalPub, UType

LEMMA AimHolder ==
  ASSUME NEW v \in UType, NEW t, NEW m
  PROVE  SameHolder(v, [v EXCEPT !.target = t, !.mask = m])
  BY DEF SameHolder, UType

LEMMA HoverHolder ==
  ASSUME NEW v \in UType
  PROVE  SameHolder(v, SetDesiredFromHover(v))
<1> DEFINE latched == IF (v.new_cmd /\ v.last_cmd # "Hover") \/ v.cmd # "Hover"
                      THEN Stamp(v, "Hover") ELSE v
<1>1. latched \in UType /\ SameHolder(v, latched)
  BY StampType, StampHolder DEF StoredCmds, SameHolder
<1> HIDE DEF latched
<1>2. SetDesiredFromHover(v) = [latched EXCEPT !.target = "Hover", !.mask = "POS_YAW"]
  BY DEF SetDesiredFromHover, latched
<1> QED
  BY <1>1, <1>2, AimHolder DEF SameHolder

\* set_offboard_control either refuses or gives the vehicle to the mode asked
\* for, with Hover as a new command.
LEMMA OffboardHolder ==
  ASSUME NEW v \in UType, NEW mode \in Modes, NEW rcSeen
  PROVE  LET w == SetOffboardControl(v, mode, rcSeen) IN
         \/ w = v
         \/ /\ w.control_mode = mode /\ w.kill = v.kill
            /\ w.cmd = "Hover" /\ w.new_cmd
            /\ w.pub = v.pub \/ w.pub = [kind |-> "Cleared", mask |-> "VEL"]
            /\ mode = "RC_CONTROL" => UseRC /\ rcSeen
<1> DEFINE stamped == Stamp(v, "Hover")
           entered == [stamped EXCEPT !.control_mode = mode]
           prepared == [entered EXCEPT !.target = "Cleared",
                           !.pub = [kind |-> "Cleared", mask |-> "VEL"],
                           !.modes = @ \union {"OFFBOARD"}]
<1>1. stamped \in UType
  BY StampType DEF StoredCmds
<1>2. /\ stamped.kill = v.kill /\ stamped.pub = v.pub
      /\ stamped.cmd = "Hover" /\ stamped.new_cmd
  BY DEF Stamp, UType
<1> HIDE DEF stamped
<1>3. /\ entered.control_mode = mode /\ entered.kill = v.kill /\ entered.pub = v.pub
      /\ entered.cmd = "Hover" /\ entered.new_cmd
  BY <1>1, <1>2 DEF UType
<1>4. entered \in UType
  BY <1>1, ModeType
<1> HIDE DEF entered
<1>5. /\ prepared.control_mode = mode /\ prepared.kill = v.kill
      /\ prepared.pub = [kind |-> "Cleared", mask |-> "VEL"]
      /\ prepared.cmd = "Hover" /\ prepared.new_cmd
  BY <1>3, <1>4 DEF UType
<1> HIDE DEF prepared
<1>6. \/ SetOffboardControl(v, mode, rcSeen) = v
      \/ /\ SetOffboardControl(v, mode, rcSeen) \in {entered, prepared}
         /\ mode = "RC_CONTROL" => UseRC /\ rcSeen
  BY DEF SetOffboardControl, prepared, entered, stamped
<1> QED
  BY <1>3, <1>5, <1>6

\* A landing step keeps the mode, or ends in INIT.
LEMMA LandStepHolder ==
  ASSUME NEW v \in UType, ~v.kill
  PROVE  LET w == LandStep(v) IN
         /\ w.control_mode \in {v.control_mode, "INIT"}
         /\ CutGivesBack(w)
         /\ w.kill \/ w.target \in {"Land", "PushDown"}
         /\ w.kill => /\ v.land_timer = "expired" /\ ~NewLanding(v)
                      /\ BelowDisarmHeight
  BY DEF LandStep, CutGivesBack, EmergencyStop, UType

LEMMA HandleLandHolder ==
  ASSUME NEW v \in UType, ~v.kill
  PROVE  LET w == HandleLandControl(v) IN
         /\ w.control_mode \in {v.control_mode, "INIT"}
         /\ CutGivesBack(w)
         /\ w.kill \/ w.pub = v.pub \/ w.pub.kind \in {"Land", "PushDown"}
         /\ w.kill /\ px4.armed => /\ v.land_timer = "expired" /\ ~NewLanding(v)
                                   /\ BelowDisarmHeight
<1> DEFINE w == IF px4.armed THEN v ELSE [v EXCEPT !.control_mode = "INIT"]
           asked == [w EXCEPT !.modes = @ \union {"AUTO.LAND"}]
           Good(r) == /\ r.control_mode \in {v.control_mode, "INIT"}
                      /\ CutGivesBack(r)
                      /\ r.kill \/ r.pub = v.pub \/ r.pub.kind \in {"Land", "PushDown"}
                      /\ r.kill /\ px4.armed => /\ v.land_timer = "expired" /\ ~NewLanding(v)
                                                /\ BelowDisarmHeight
<1>1. w \in UType
  BY ModeType DEF Modes
<1>2. asked \in UType
  BY <1>1, AskModeType DEF FcModes
<1>3. /\ ~w.kill /\ w.pub = v.pub /\ w.control_mode \in {v.control_mode, "INIT"}
      /\ px4.armed => w = v
  BY DEF UType
<1> HIDE DEF w
<1>4. /\ asked.control_mode = w.control_mode /\ asked.kill = w.kill
      /\ asked.land_timer = w.land_timer /\ NewLanding(asked) = NewLanding(w)
  BY <1>1 DEF UType, NewLanding
<1> HIDE DEF asked
<1>5. ASSUME NEW x \in {w, asked}
      PROVE  Good(SetpointLocalPub(LandStep(x)))
  <2> DEFINE y == LandStep(x)
  <2>1. x \in UType /\ ~x.kill /\ x.control_mode = w.control_mode
        /\ x.land_timer = w.land_timer /\ NewLanding(x) = NewLanding(w)
    BY <1>1, <1>2, <1>3, <1>4
  <2>2. /\ y \in UType
        /\ y.control_mode \in {x.control_mode, "INIT"}
        /\ CutGivesBack(y)
        /\ y.kill \/ y.target \in {"Land", "PushDown"}
        /\ y.kill => x.land_timer = "expired" /\ ~NewLanding(x) /\ BelowDisarmHeight
    BY <2>1, LandStepType, LandStepHolder
  <2> HIDE DEF y
  <2>3. /\ SetpointLocalPub(y).control_mode = y.control_mode
        /\ SetpointLocalPub(y).kill = y.kill
        /\ SetpointLocalPub(y).pub.kind = y.target
    BY <2>2 DEF SetpointLocalPub, UType
  <2>4. Good(SetpointLocalPub(y))
    BY <1>3, <2>1, <2>2, <2>3 DEF CutGivesBack
  <2> QED
    BY <2>4 DEF y
<1>6. Good(w)
  BY <1>3 DEF CutGivesBack
<1>7. HandleLandControl(v) \in {w, SetpointLocalPub(LandStep(w)), SetpointLocalPub(LandStep(asked))}
  BY ConstantsAssumption DEF ConstantsAssumption, HandleLandControl, w, asked
<1> HIDE DEF Good
<1>8. Good(HandleLandControl(v))
  BY <1>5, <1>6, <1>7
<1> QED
  BY <1>8 DEF Good

LEMMA SetLandHolder ==
  ASSUME NEW v \in UType, ~v.kill
  PROVE  LET w == SetLand(v) IN
         \/ w = v /\ v.control_mode \notin {"RC_CONTROL", "CMD_CONTROL"}
         \/ /\ w.control_mode \in {"LAND_CONTROL", "INIT"}
            /\ CutGivesBack(w)
            /\ w.kill \/ w.pub = v.pub \/ w.pub.kind \in {"Land", "PushDown"}
            /\ w.kill /\ px4.armed => /\ v.land_timer = "expired" /\ BelowDisarmHeight
                                      /\ last_control_mode = "LAND_CONTROL"
<1> DEFINE l == [v EXCEPT !.control_mode = "LAND_CONTROL"]
<1>1. l \in UType
  BY ModeType DEF Modes
<1>2. l.control_mode = "LAND_CONTROL" /\ ~l.kill /\ l.pub = v.pub /\ l.land_timer = v.land_timer
  BY DEF UType
<1>3. \/ SetLand(v) = v /\ v.control_mode \notin {"RC_CONTROL", "CMD_CONTROL"}
      \/ SetLand(v) = HandleLandControl(l)
  BY DEF SetLand
<1> HIDE DEF l
<1>4. ~NewLanding(l) => last_control_mode = "LAND_CONTROL"
  BY <1>2 DEF NewLanding
<1> QED
  BY <1>1, <1>2, <1>3, <1>4, HandleLandHolder

-----------------------------------------------------------------------------
(***************************************************************************)
(* The commands of CMD_CONTROL: only Land takes the vehicle away from it.  *)
(***************************************************************************)

LEMMA TakeoffHolder ==
  ASSUME NEW v \in UType
  PROVE  SameHolder(v, SetTakeoff(v))
<1>1. SetTakeoff(v) \in {SetDesiredFromHover(v), v,
                         [v EXCEPT !.target = "Takeoff", !.mask = "POS_YAW"]}
  BY DEF SetTakeoff
<1>2. /\ SameHolder(v, v)
      /\ SameHolder(v, [v EXCEPT !.target = "Takeoff", !.mask = "POS_YAW"])
  BY DEF SameHolder, UType
<1> QED
  BY <1>1, <1>2, HoverHolder

LEMMA ReturnHolder ==
  ASSUME NEW v \in UType, NEW near
  PROVE  SameHolder(v, ReturnToHome(v, near))
<1> DEFINE headed == IF v.new_cmd THEN [v EXCEPT !.target = "Home", !.mask = "POS_YAW"] ELSE v
<1>1. headed \in UType
  BY AimType DEF Targets, Masks
<1>2. SameHolder(v, headed)
  BY AimHolder DEF SameHolder
<1> HIDE DEF headed
<1>3. SameHolder(headed, Stamp(headed, "Land"))
  BY <1>1, StampHolder
<1>4. ReturnToHome(v, near) \in {SetDesiredFromHover(v), Stamp(headed, "Land"), headed}
  BY DEF ReturnToHome, headed
<1> QED
  BY <1>2, <1>3, <1>4, HoverHolder DEF SameHolder

\* The fields of the mission say nothing of the holder.
LEMMA WpHolder ==
  ASSUME NEW v \in UType, NEW i, NEW s, NEW b
  PROVE  /\ SameHolder(v, [v EXCEPT !.wp_index = i, !.wp_state = s])
         /\ SameHolder(v, [v EXCEPT !.wp_index = i, !.wp_state = s, !.wp_late = b])
         /\ SameHolder(v, [v EXCEPT !.wp_late = b, !.wp_state = s])
         /\ SameHolder(v, [v EXCEPT !.wp_state = s])
  BY DEF SameHolder, UType

LEMMA WpEnterHolder ==
  ASSUME NEW v \in UType
  PROVE  SameHolder(v, WpEnter(v))
<1>1. SameHolder(v, v)
  BY DEF SameHolder
<1> QED
  BY <1>1, WpHolder DEF WpEnter

LEMMA WpUnderWayHolder ==
  ASSUME NEW v \in UType
  PROVE  SameHolder(v, WpUnderWay(v))
<1> DEFINE s == IF ~mission.takeoff /\ v.wp_state \in {0, 1} THEN 3 ELSE v.wp_state
<1>1. WpUnderWay(v) = [v EXCEPT !.wp_late = FALSE, !.wp_state = s]
  BY DEF WpUnderWay, UType
<1> HIDE DEF s
<1> QED
  BY <1>1 DEF SameHolder, UType

LEMMA WpLaunchHolder ==
  ASSUME NEW v \in UType, v.control_mode = "CMD_CONTROL"
  PROVE  SameHolder(v, WpLaunch(v))
<1> DEFINE a == IF px4.mode = "OFFBOARD" /\ px4.armed THEN [v EXCEPT !.wp_state = 2] ELSE v
           off == SetOffboardControl(a, "CMD_CONTROL", get_rc_signal)
           b == IF px4.mode # "OFFBOARD" /\ a.wp_state = 0
                THEN [off EXCEPT !.cmd = "Waypoint", !.wp_state = 1]
                ELSE a
           arming == [b EXCEPT !.arm = {TRUE}]
<1>0. 1 \in 0 .. 6 /\ 2 \in 0 .. 6 /\ "Waypoint" \in StoredCmds /\ "CMD_CONTROL" \in Modes
  BY DEF StoredCmds, Modes
<1>1. a \in UType
  BY <1>0, WpType
<1>2. SameHolder(v, a)
  BY WpHolder DEF SameHolder
<1> HIDE DEF a
<1>3. off \in UType
  BY <1>0, <1>1, OffboardType
<1>4. SameHolder(v, off)
  BY <1>0, <1>1, <1>2, OffboardHolder DEF SameHolder
<1> HIDE DEF off
<1>5. /\ [off EXCEPT !.cmd = "Waypoint", !.wp_state = 1] \in UType
      /\ SameHolder(off, [off EXCEPT !.cmd = "Waypoint", !.wp_state = 1])
  BY <1>0, <1>3 DEF UType, SameHolder
<1>6. b \in UType
  BY <1>1, <1>5
<1>7. SameHolder(v, b)
  BY <1>2, <1>4, <1>5 DEF SameHolder
<1> HIDE DEF b
<1>8. SameHolder(v, arming)
  BY <1>6, <1>7 DEF UType, SameHolder
<1> HIDE DEF arming
<1>9. SameHolder(v, SetDesiredFromHover(b))
  BY <1>6, <1>7, HoverHolder DEF SameHolder
<1>10. WpLaunch(v) \in {arming, SetDesiredFromHover(b), b}
  BY DEF WpLaunch, arming, b, off, a
<1> QED
  BY <1>7, <1>8, <1>9, <1>10

LEMMA WpFlyHolder ==
  ASSUME NEW v \in UType, NEW near, mission \in MissionType
  PROVE  SameHolder(v, WpFly(v, near))
<1> DEFINE next == [v EXCEPT !.wp_index = @ + 1,
                     !.wp_state = IF v.wp_index + 1 >= mission.num THEN 4 ELSE 3]
           landing == [Stamp(v, "Land") EXCEPT !.wp_state = 6]
           done == [v EXCEPT !.wp_state = 6]
           aims == {[v EXCEPT !.target = "WpTakeoff", !.mask = "POS"],
                    [v EXCEPT !.target = "WpPoint", !.mask = "XY_VEL_Z_POS_YAW"],
                    [v EXCEPT !.target = "WpReturn", !.mask = "XY_VEL_Z_POS_YAW"],
                    [v EXCEPT !.target = "WpHome", !.mask = "POS_YAW"]}
           states == {[v EXCEPT !.wp_state = 3], [v EXCEPT !.wp_state = 5], v}
<1>1. v.wp_state \in 0 .. 6 /\ mission.end \in {1, 2, 3}
  BY DEF UType, MissionType
<1>2. \A w \in aims : SameHolder(v, w)
  <2>1. /\ SameHolder(v, [v EXCEPT !.target = "WpTakeoff", !.mask = "POS"])
        /\ SameHolder(v, [v EXCEPT !.target = "WpPoint", !.mask = "XY_VEL_Z_POS_YAW"])
        /\ SameHolder(v, [v EXCEPT !.target = "WpReturn", !.mask = "XY_VEL_Z_POS_YAW"])
        /\ SameHolder(v, [v EXCEPT !.target = "WpHome", !.mask = "POS_YAW"])
    BY DEF UType, SameHolder
  <2> QED
    BY <2>1
<1>3. \A w \in states : SameHolder(v, w)
  <2>1. /\ SameHolder(v, [v EXCEPT !.wp_state = 3])
        /\ SameHolder(v, [v EXCEPT !.wp_state = 5])
        /\ SameHolder(v, v)
    BY DEF UType, SameHolder
  <2> QED
    BY <2>1
<1>4. SameHolder(v, next)
  BY DEF UType, SameHolder
<1>5. SameHolder(v, landing)
  <2>1. Stamp(v, "Land") \in UType /\ SameHolder(v, Stamp(v, "Land"))
    BY StampType, StampHolder DEF StoredCmds
  <2> QED
    BY <2>1 DEF UType, SameHolder
<1>6. SameHolder(v, SetDesiredFromHover(done))
  <2>1. done \in UType /\ SameHolder(v, done)
    BY DEF UType, SameHolder
  <2> QED
    BY <2>1, HoverHolder DEF SameHolder
<1> HIDE DEF next, landing, done
<1>7. WpFly(v, near) \in aims \union states \union {next, landing, SetDesiredFromHover(done)}
  <2>1. CASE v.wp_state \in {0, 1, 6}
    BY <2>1 DEF WpFly
  <2>2. CASE v.wp_state = 2
    BY <2>2 DEF WpFly
  <2>3. CASE v.wp_state = 3
    BY <2>3 DEF WpFly, LastPoint, next
  <2>4. CASE v.wp_state = 4
    BY <1>1, <2>4 DEF WpFly
  <2>5. CASE v.wp_state = 5
    BY <1>1, <2>5 DEF WpFly, landing, done
  <2> QED
    BY <1>1, <2>1, <2>2, <2>3, <2>4, <2>5
<1> QED
  BY <1>2, <1>3, <1>4, <1>5, <1>6, <1>7

LEMMA WaypointHolder ==
  ASSUME NEW v \in UType, NEW near \in BOOLEAN, mission \in MissionType,
         v.control_mode = "CMD_CONTROL"
  PROVE  SameHolder(v, WaypointMission(v, near))
<1> DEFINE w == WpEnter(v)
<1>1. w \in UType /\ SameHolder(v, w)
  BY WpEnterType, WpEnterHolder
<1> HIDE DEF w
<1>2. /\ SameHolder(v, SetDesiredFromHover(v))
      /\ SameHolder(v, SetDesiredFromHover(w))
  BY <1>1, HoverHolder DEF SameHolder
<1>3. SameHolder(v, WpFly(WpLaunch(w), near))
  <2>1. WpLaunch(w) \in UType /\ SameHolder(v, WpLaunch(w))
    BY <1>1, WpLaunchType, WpLaunchHolder DEF SameHolder
  <2> QED
    BY <2>1, WpFlyHolder DEF SameHolder
<1>4. SameHolder(v, WpFly(WpUnderWay(w), near))
  <2>1. WpUnderWay(w) \in UType /\ SameHolder(v, WpUnderWay(w))
    BY <1>1, WpUnderWayType, WpUnderWayHolder DEF SameHolder
  <2> QED
    BY <2>1, WpFlyHolder DEF SameHolder
<1>5. WaypointMission(v, near) \in {SetDesiredFromHover(v), SetDesiredFromHover(w),
                                   WpFly(WpLaunch(w), near), WpFly(WpUnderWay(w), near)}
  BY DEF WaypointMission, w
<1> QED
  BY <1>2, <1>3, <1>4, <1>5

\* What an iteration in CMD_CONTROL does to the holder.
Commanded(w) == /\ w.control_mode \in {"CMD_CONTROL", "LAND_CONTROL", "INIT"}
                /\ CutGivesBack(w)
                /\ w.kill /\ px4.armed => last_control_mode = "LAND_CONTROL"

LEMMA ExecuteHolder ==
  ASSUME NEW v \in UType, NEW near \in BOOLEAN, mission \in MissionType,
         v.control_mode = "CMD_CONTROL", ~v.kill
  PROVE  Commanded(Execute(v, near))
<1> DEFINE based == [v EXCEPT !.target = "Base", !.mask = "BASE"]
           global == [v EXCEPT !.mask = "GLOBAL",
                               !.pub = [kind |-> "Global", mask |-> "GLOBAL"]]
           attitude == [v EXCEPT !.pub = [kind |-> "Attitude", mask |-> v.mask]]
           flown == {SetTakeoff(v), SetLand(v), SetDesiredFromHover(v),
                     WaypointMission(v, near), ReturnToHome(v, near), based, v}
<1>1. based \in UType /\ SameHolder(v, based)
  BY AimType, AimHolder DEF Targets, Masks
<1> HIDE DEF based
<1>2. Commanded(global) /\ Commanded(attitude)
  BY DEF UType, Commanded, CutGivesBack
<1> HIDE DEF global, attitude
<1>3. flown \subseteq UType
  BY <1>1, TakeoffType, SetLandType, HoverType, WaypointType, ReturnType
<1>4. \A w \in flown : Commanded(w)
  <2>1. \A w : SameHolder(v, w) => Commanded(w)
    BY DEF SameHolder, Commanded, CutGivesBack
  <2>2. SameHolder(v, v)
    BY DEF SameHolder
  <2>3. Commanded(SetLand(v))
    BY SetLandHolder DEF Commanded
  <2> QED
    BY <1>1, <2>1, <2>2, <2>3, TakeoffHolder, HoverHolder, WaypointHolder, ReturnHolder
<1>5. \A w \in flown : Commanded(SetpointLocalPub(w))
  BY <1>3, <1>4, PubHolder DEF SameHolder, Commanded, CutGivesBack
<1>6. v.cmd \in StoredCmds /\ v.new_cmd \in BOOLEAN
  BY DEF UType
<1>7. Execute(v, near) \in {SetpointLocalPub(SetTakeoff(v)), SetpointLocalPub(SetLand(v)),
                           SetpointLocalPub(SetDesiredFromHover(v)),
                           SetpointLocalPub(WaypointMission(v, near)),
                           SetpointLocalPub(ReturnToHome(v, near)),
                           SetpointLocalPub(based), SetpointLocalPub(v), global, attitude}
  BY <1>6 DEF Execute, StoredCmds, based, global, attitude
<1> QED
  BY <1>2, <1>5, <1>7

LEMMA HandleCmdHolder ==
  ASSUME NEW v \in UType, NEW near \in BOOLEAN, mission \in MissionType,
         v.control_mode = "CMD_CONTROL", ~v.kill
  PROVE  Commanded(HandleCmdControl(v, near))
<1>1. \A w \in UType : SameHolder(w, Processed(w))
  BY DEF Processed, SameHolder, UType
<1>2. Commanded(SetDesiredFromHover(Stamp(v, "Hover")))
  <2>1. Stamp(v, "Hover") \in UType /\ SameHolder(v, Stamp(v, "Hover"))
    BY StampType, StampHolder DEF StoredCmds
  <2> QED
    BY <2>1, HoverHolder DEF SameHolder, Commanded, CutGivesBack
<1>3. Commanded([(IF v.new_cmd THEN Processed(v) ELSE v) EXCEPT !.control_mode = "INIT"])
  <2> DEFINE w == IF v.new_cmd THEN Processed(v) ELSE v
  <2>1. w \in UType /\ ~w.kill
    BY <1>1, ProcessedType DEF SameHolder
  <2> HIDE DEF w
  <2>2. Commanded([w EXCEPT !.control_mode = "INIT"])
    BY <2>1 DEF UType, Commanded, CutGivesBack
  <2> QED
    BY <2>2 DEF w
<1>4. Commanded(Processed(Execute(v, near)))
  BY <1>1, ExecuteType, ExecuteHolder DEF SameHolder, Commanded, CutGivesBack
<1> QED
  BY <1>2, <1>3, <1>4 DEF HandleCmdControl

-----------------------------------------------------------------------------
(***************************************************************************)
(* One step of the node is a step of ControlAuthority, or none.            *)
(***************************************************************************)

LEMMA BeginHolder ==
  ASSUME u \in UType
  PROVE  /\ ~Begin.kill /\ Begin.pub = NoPub
         /\ Begin.control_mode = u.control_mode /\ Begin.land_timer = u.land_timer
         /\ Begin.cmd = u.cmd /\ Begin.new_cmd = u.new_cmd
  BY DEF Begin, UType

\* check_state leaves commands the vehicle only on a trusted view.
LEMMA CheckedHolder ==
  ASSUME TypeOK
  PROVE  /\ ~Checked.kill /\ Checked.pub = NoPub
         /\ Checked.control_mode \in {u.control_mode, "LAND_CONTROL"}
         /\ Checked.land_timer = u.land_timer
         /\ Checked.control_mode \in {"RC_CONTROL", "CMD_CONTROL"} => Trusted
<1>1. u \in UType /\ Begin \in UType
  BY BeginType DEF TypeOK
<1>2. SafetyCheck \in {0, 1, 2}
  BY DEF SafetyCheck, TypeOK, Px4Type
<1> QED
  BY <1>1, <1>2, BeginHolder DEF Checked, CheckState, Trusted, UType

LEMMA FinishHolder ==
  ASSUME NEW v \in UType, Finish(v)
  PROVE  /\ u'.control_mode = v.control_mode /\ u'.kill = v.kill
         /\ u'.cmd = v.cmd /\ u'.new_cmd = v.new_cmd
         /\ DoingOf(u') = DoingOf(v)
<1>1. /\ u'.control_mode = v.control_mode /\ u'.kill = v.kill /\ u'.pub = v.pub
      /\ u'.cmd = v.cmd /\ u'.new_cmd = v.new_cmd
  BY DEF Finish, UType
<1> QED
  BY <1>1 DEF DoingOf

LEMMA Doings ==
  ASSUME NEW v \in UType
  PROVE  /\ DoingOf(v) \in {"nothing", "prepare", "follow", "land", "cut"}
         /\ DoingOf(v) = "cut" => v.kill
  BY DEF DoingOf, UType

LEMMA Holders ==
  ASSUME NEW mode \in Modes
  PROVE  /\ HolderOf(mode) \in Authority!Holders
         /\ HolderOf(mode) = "commands" <=> mode \in {"RC_CONTROL", "CMD_CONTROL"}
         /\ HolderOf("INIT") = "pilot"
  BY DEF HolderOf, Authority!Holders, Modes

LEMMA TrustedOnlyByPx4 ==
  ASSUME UNCHANGED px4
  PROVE  UNCHANGED Trusted
  BY DEF Trusted, SafetyCheck

\* A handler that follows no command only decides.
LEMMA DecideStep ==
  ASSUME TypeOK, NEW v \in UType, Finish(v), UNCHANGED px4,
         DoingOf(v) # "follow", CutGivesBack(v)
  PROVE  Authority!Next
<1>1. u'.control_mode = v.control_mode /\ DoingOf(u') = DoingOf(v)
  BY FinishHolder
<1>2. v.control_mode \in Modes
  BY DEF UType
<1>3. HolderOf(v.control_mode) \in Authority!Holders
  BY <1>2, Holders
<1>4. DoingOf(v) \in {"nothing", "prepare", "land", "cut"}
  BY Doings
<1>5. DoingOf(v) = "cut" => HolderOf(v.control_mode) = "pilot"
  BY <1>2, Doings, Holders DEF CutGivesBack
<1> QED
  BY <1>1, <1>3, <1>4, <1>5, TrustedOnlyByPx4 DEF Authority!Next, Authority!Decide

\* A handler that runs for the commands may do both.
LEMMA FollowStep ==
  ASSUME TypeOK, NEW v \in UType, Finish(v), UNCHANGED px4,
         u.control_mode \in {"RC_CONTROL", "CMD_CONTROL"}, Trusted, CutGivesBack(v)
  PROVE  Authority!Next
<1>1. CASE DoingOf(v) # "follow"
  BY <1>1, DecideStep
<1>2. CASE DoingOf(v) = "follow"
  <2>1. u'.control_mode = v.control_mode /\ DoingOf(u') = "follow"
    BY <1>2, FinishHolder
  <2>2. v.control_mode \in Modes /\ u.control_mode \in Modes
    BY DEF UType, TypeOK
  <2>3. HolderOf(v.control_mode) \in Authority!Holders /\ HolderOf(u.control_mode) = "commands"
    BY <2>2, Holders
  <2> QED
    BY <2>1, <2>3, TrustedOnlyByPx4 DEF Authority!Next, Authority!Follow
<1> QED
  BY <1>1, <1>2

\* A step that sends nothing and leaves the mode alone.
LEMMA SenseStep ==
  ASSUME TypeOK, u'.control_mode = u.control_mode, ~u'.kill, u'.pub = NoPub,
         Trusted' \in BOOLEAN
  PROVE  Authority!Next
<1>1. DoingOf(u') = "nothing"
  BY DEF DoingOf, NoPub
<1> QED
  BY <1>1 DEF Authority!Next, Authority!Sense

LEMMA LoopAuthority ==
  ASSUME TypeOK, MainLoop
  PROVE  Authority!Next
<1>1. Checked \in UType /\ mission \in MissionType
  BY CheckedType DEF TypeOK
<1>2. UNCHANGED px4
  BY DEF MainLoop, LoopInit, LoopRc, LoopCmd, LoopLand, LoopWithout, Iterate
<1>3. CASE LoopInit
  <2>1. [Checked EXCEPT !.modes = {"POSCTL"}] \in UType
    BY <1>1 DEF UType, FcModes
  <2>2. /\ HandleInit(Checked) \in UType
        /\ ~HandleInit(Checked).kill /\ HandleInit(Checked).pub = NoPub
    BY <1>1, <2>1, CheckedHolder DEF HandleInit, UType
  <2>3. DoingOf(HandleInit(Checked)) # "follow" /\ CutGivesBack(HandleInit(Checked))
    BY <2>2 DEF DoingOf, NoPub, CutGivesBack
  <2> QED
    BY <1>2, <1>3, <2>2, <2>3, DecideStep DEF LoopInit, Iterate
<1>4. CASE LoopWithout
  <2>1. DoingOf(Checked) # "follow" /\ CutGivesBack(Checked)
    BY CheckedHolder DEF DoingOf, NoPub, CutGivesBack
  <2> QED
    BY <1>1, <1>2, <1>4, <2>1, DecideStep DEF LoopWithout, Iterate
<1>5. CASE LoopRc
  <2>1. u.control_mode = "RC_CONTROL" /\ Trusted
    BY <1>5, CheckedHolder DEF LoopRc, Iterate
  <2>2. HandleRcControl(Checked) \in UType
    BY <1>1, AimType, PubType DEF HandleRcControl, Targets, Masks
  <2>3. ~HandleRcControl(Checked).kill
    BY <1>1, CheckedHolder DEF HandleRcControl, SetpointLocalPub, UType
  <2> QED
    BY <1>2, <1>5, <2>1, <2>2, <2>3, FollowStep DEF LoopRc, Iterate, CutGivesBack
<1>6. CASE LoopCmd
  <2>1. PICK near \in BOOLEAN : Iterate("CMD_CONTROL", HandleCmdControl(Checked, near))
    BY <1>6 DEF LoopCmd
  <2>2. u.control_mode = "CMD_CONTROL" /\ Checked.control_mode = "CMD_CONTROL" /\ Trusted
    BY <2>1, CheckedHolder DEF Iterate
  <2>3. HandleCmdControl(Checked, near) \in UType
    BY <1>1, HandleCmdType
  <2>4. CutGivesBack(HandleCmdControl(Checked, near))
    BY <1>1, <2>2, CheckedHolder, HandleCmdHolder DEF Commanded
  <2> QED
    BY <1>2, <2>1, <2>2, <2>3, <2>4, FollowStep DEF Iterate
<1>7. CASE LoopLand
  <2> DEFINE w == HandleLandControl(Checked)
  <2>1. w \in UType
    BY <1>1, HandleLandType
  <2>2. CutGivesBack(w) /\ (w.kill \/ w.pub = NoPub \/ w.pub.kind \in {"Land", "PushDown"})
    BY <1>1, CheckedHolder, HandleLandHolder
  <2>3. Finish(w)
    BY <1>7 DEF LoopLand, Iterate
  <2> HIDE DEF w
  <2>4. DoingOf(w) # "follow"
    BY <2>2 DEF DoingOf, NoPub
  <2> QED
    BY <1>2, <2>1, <2>2, <2>3, <2>4, DecideStep
<1> QED
  BY <1>3, <1>4, <1>5, <1>6, <1>7 DEF MainLoop

\* What the landing path of a request leaves: it prepared, lands, or cut.
Requested(v) == /\ v.kill \/ v.pub = NoPub \/ v.pub = [kind |-> "Cleared", mask |-> "VEL"]
                   \/ v.pub.kind \in {"Land", "PushDown"}
                /\ CutGivesBack(v)

LEMMA RequestedIsNoFollow ==
  ASSUME NEW v \in UType, Requested(v)
  PROVE  DoingOf(v) # "follow"
  BY DEF Requested, DoingOf, NoPub

LEMMA OffboardRequested ==
  ASSUME NEW v \in UType, ~v.kill, v.pub = NoPub, NEW mode \in Modes, NEW rcSeen
  PROVE  /\ Requested(SetOffboardControl(v, mode, rcSeen))
         /\ ~SetOffboardControl(v, mode, rcSeen).kill
  BY OffboardHolder DEF Requested, CutGivesBack

LEMMA LandRequested ==
  ASSUME NEW v \in UType, ~v.kill, Requested(v)
  PROVE  Requested(SetLand(v))
  BY SetLandHolder DEF Requested

LEMMA RcAuthority ==
  ASSUME TypeOK, NEW rc \in RcMsgs, RcStateCallback(rc)
  PROVE  Authority!Next
<1> DEFINE armed == [Begin EXCEPT !.arm = CASE rc.arm = "ARM" -> {TRUE}
                                            [] rc.arm = "DISARM" -> {FALSE}
                                            [] rc.arm = "none" -> {}]
           moded == CASE rc.mode = "none" -> armed
                      [] rc.mode = "INIT" -> [armed EXCEPT !.control_mode = "INIT"]
                      [] rc.mode \in {"RC_CONTROL", "CMD_CONTROL"} ->
                           SetOffboardControl(armed, rc.mode, TRUE)
           landed == IF rc.land THEN SetLand(moded) ELSE moded
           sent == IF rc.kill THEN EmergencyStop(landed) ELSE landed
<1>1. rc \in RcMsgType /\ Begin \in UType
  BY ConstantsAssumption, BeginType DEF ConstantsAssumption, TypeOK
<1>2. armed \in UType /\ ~armed.kill /\ armed.pub = NoPub
  <2>1. (CASE rc.arm = "ARM" -> {TRUE}
           [] rc.arm = "DISARM" -> {FALSE}
           [] rc.arm = "none" -> {}) \in SUBSET BOOLEAN
    BY <1>1 DEF RcMsgType
  <2> QED
    BY <1>1, <2>1, BeginHolder DEF TypeOK, UType
<1> HIDE DEF armed
<1>3. moded \in UType /\ ~moded.kill /\ Requested(moded)
  <2>1. CASE rc.mode = "none"
    BY <1>2, <2>1 DEF Requested, CutGivesBack
  <2>2. CASE rc.mode = "INIT"
    <3> DEFINE i == [armed EXCEPT !.control_mode = "INIT"]
    <3>1. i \in UType /\ ~i.kill /\ i.pub = NoPub
      BY <1>2 DEF UType, Modes
    <3>2. moded = i
      BY <2>2
    <3> QED
      BY <3>1, <3>2 DEF Requested, CutGivesBack
  <2>3. CASE rc.mode \in {"RC_CONTROL", "CMD_CONTROL"}
    BY <1>2, <2>3, OffboardType, OffboardRequested DEF Modes
  <2> QED
    BY <1>1, <2>1, <2>2, <2>3 DEF RcMsgType
<1> HIDE DEF moded
<1>4. landed \in UType /\ Requested(landed)
  BY <1>3, SetLandType, LandRequested
<1> HIDE DEF landed
<1>5. sent \in UType /\ Requested(sent)
  BY <1>4, StopType DEF EmergencyStop, Requested, CutGivesBack, UType
<1>6. Finish(sent) /\ UNCHANGED px4
  BY DEF RcStateCallback, sent, landed, moded, armed
<1> HIDE DEF sent
<1> QED
  BY <1>5, <1>6, RequestedIsNoFollow, DecideStep DEF Requested

LEMMA SetupAuthority ==
  ASSUME TypeOK, NEW req \in Setups, UavSetupCallback(req)
  PROVE  Authority!Next
<1> DEFINE sent == CASE req.cmd = "ARM"            -> [Begin EXCEPT !.arm = {TRUE}]
                     [] req.cmd = "DISARM"         -> [Begin EXCEPT !.arm = {FALSE}]
                     [] req.cmd = "SET_PX4_MODE"   -> [Begin EXCEPT !.modes = {req.px4_mode}]
                     [] req.cmd = "REBOOT_PX4"     -> Begin
                     [] req.cmd = "EMERGENCY_KILL" -> EmergencyStop(Begin)
                     [] req.cmd = "SET_CONTROL_MODE" -> SetControlMode(req.control_mode)
           Good(v) == v \in UType /\ Requested(v)
<1>1. req \in SetupType /\ Begin \in UType /\ ~Begin.kill /\ Begin.pub = NoPub
  BY ConstantsAssumption, BeginType, BeginHolder DEF ConstantsAssumption, TypeOK
<1>2. /\ Good([Begin EXCEPT !.arm = {TRUE}])
      /\ Good([Begin EXCEPT !.arm = {FALSE}])
      /\ Good(Begin)
      /\ \A m \in Modes : Good([Begin EXCEPT !.control_mode = m])
  BY <1>1 DEF UType, Requested, CutGivesBack
<1>3. Good(EmergencyStop(Begin))
  BY <1>1, StopType DEF EmergencyStop, Requested, CutGivesBack, UType
<1>4. ASSUME req.cmd = "SET_PX4_MODE"
      PROVE  Good([Begin EXCEPT !.modes = {req.px4_mode}])
  <2>1. req.px4_mode \in FcModes
    BY <1>1, <1>4 DEF SetupType
  <2> QED
    BY <1>1, <2>1 DEF UType, Requested, CutGivesBack
<1>5. ASSUME req.cmd = "SET_CONTROL_MODE"
      PROVE  Good(SetControlMode(req.control_mode))
  <2>1. req.control_mode \in Modes
    BY <1>1, <1>5 DEF SetupType
  <2>2. Good(SetLand(Begin))
    BY <1>1, <1>2, SetLandType, LandRequested
  <2>3. \A m \in Modes : Good(SetOffboardControl(Begin, m, get_rc_signal))
    BY <1>1, OffboardType, OffboardRequested
  <2> HIDE DEF Good
  <2> QED
    BY <1>2, <2>1, <2>2, <2>3 DEF SetControlMode, Modes
<1>6. Good(sent)
  <2> HIDE DEF Good
  <2> QED
    BY <1>1, <1>2, <1>3, <1>4, <1>5 DEF SetupType
<1>7. Finish(sent) /\ UNCHANGED px4
  BY DEF UavSetupCallback
<1> HIDE DEF sent
<1> QED
  BY <1>6, <1>7, RequestedIsNoFollow, DecideStep DEF Requested

LEMMA CmdAuthority ==
  ASSUME TypeOK, NEW c \in Cmds, ControlCmdCallback(c)
  PROVE  Authority!Next
<1>1. Begin \in UType /\ Begin.pub = NoPub /\ ~Begin.kill /\ Begin.control_mode = u.control_mode
  BY BeginType, BeginHolder DEF TypeOK
<1>2. /\ u'.control_mode \in {u.control_mode, "CMD_CONTROL"}
      /\ ~u'.kill /\ u'.pub = NoPub
  BY <1>1 DEF ControlCmdCallback, Stamp, UType
<1>3. UNCHANGED Trusted
  BY TrustedOnlyByPx4 DEF ControlCmdCallback
<1>4. DoingOf(u') = "nothing"
  BY <1>2 DEF DoingOf, NoPub
<1>5. HolderOf(u'.control_mode) \in Authority!Holders
  BY <1>2, Holders DEF TypeOK, UType, Modes
<1> QED
  BY <1>3, <1>4, <1>5 DEF Authority!Next, Authority!Decide

LEMMA EnvironmentAuthority ==
  ASSUME TypeOK, Environment
  PROVE  Authority!Next
<1>1. Begin \in UType /\ Begin.pub = NoPub /\ ~Begin.kill /\ Begin.control_mode = u.control_mode
  BY BeginType, BeginHolder DEF TypeOK
<1>2. \/ u' = Begin
      \/ u' = [Begin EXCEPT !.land_timer = "expired"]
      \/ u' = [Begin EXCEPT !.cmd_old = TRUE]
      \/ u' = [Begin EXCEPT !.wp_late = TRUE]
  BY DEF Environment, RcSilence, LandTimerExpires, CmdExpires, WpExpires, FcArming,
         FcMode, Descend, Move, FcChanges, OdomChanges
<1>3. u'.control_mode = u.control_mode /\ ~u'.kill /\ u'.pub = NoPub
  BY <1>1, <1>2 DEF UType
<1> QED
  BY <1>3, SenseStep DEF Trusted

LEMMA NextAuthority ==
  ASSUME TypeOK, [Next]_vars
  PROVE  [Authority!Next]_(Authority!avars)
<1>1. Begin.pub = NoPub /\ ~Begin.kill /\ Begin.control_mode = u.control_mode
  BY BeginHolder DEF TypeOK
<1>2. Trusted' \in BOOLEAN
  BY DEF Trusted
<1>3. CASE Px4StateCallback \/ \E m \in Missions : WaypointCallback(m)
  BY <1>1, <1>2, <1>3, SenseStep DEF Px4StateCallback, WaypointCallback
<1>4. CASE \E rc \in RcMsgs : RcStateCallback(rc)
  BY <1>4, RcAuthority
<1>5. CASE \E c \in Cmds : ControlCmdCallback(c)
  BY <1>5, CmdAuthority
<1>6. CASE \E req \in Setups : UavSetupCallback(req)
  BY <1>6, SetupAuthority
<1>7. CASE MainLoop
  BY <1>7, LoopAuthority
<1>8. CASE Environment
  BY <1>8, EnvironmentAuthority
<1>9. CASE UNCHANGED vars
  <2>1. UNCHANGED u /\ UNCHANGED Trusted
    BY <1>9, TrustedOnlyByPx4 DEF vars
  <2> QED
    BY <2>1 DEF Authority!avars, HolderOf, DoingOf
<1> QED
  BY <1>3, <1>4, <1>5, <1>6, <1>7, <1>8, <1>9 DEF Next

\* Whatever the constants, the node implements ControlAuthority: no reachable
\* step follows a command of a mode that does not hold the vehicle, or on a
\* view outside the fence or without odometry, and every cut gives the vehicle
\* back.
THEOREM AuthorityImplemented == Spec => ImplementsAuthority
<1>1. Init => Authority!Init
  BY DEF Init, Authority!Init, HolderOf, DoingOf, NoPub, Trusted
<1> QED
  BY <1>1, NextAuthority, TypeCorrect, PTL DEF Spec, ImplementsAuthority, Authority!Spec

-----------------------------------------------------------------------------
(***************************************************************************)
(* How a mode is entered, and when the motors are cut.                     *)
(***************************************************************************)

LEMMA LoopModes ==
  ASSUME TypeOK, MainLoop
  PROVE  /\ u'.control_mode \in {u.control_mode, "LAND_CONTROL", "INIT"}
         /\ px4.armed /\ u'.kill => last_control_mode = "LAND_CONTROL"
<1>1. Checked \in UType /\ mission \in MissionType
  BY CheckedType DEF TypeOK
<1>2. CASE LoopInit \/ LoopWithout
  <2>1. [Checked EXCEPT !.modes = {"POSCTL"}] \in UType
    BY <1>1 DEF UType, FcModes
  <2>2. /\ HandleInit(Checked) \in UType
        /\ SameHolder(Checked, HandleInit(Checked))
    BY <1>1, <2>1 DEF HandleInit, SameHolder, UType
  <2> QED
    BY <1>1, <1>2, <2>2, CheckedHolder, FinishHolder
    DEF LoopInit, LoopWithout, Iterate, SameHolder
<1>3. CASE LoopRc
  <2>1. HandleRcControl(Checked) \in UType
    BY <1>1, AimType, PubType DEF HandleRcControl, Targets, Masks
  <2>2. SameHolder(Checked, HandleRcControl(Checked))
    BY <1>1 DEF HandleRcControl, SetpointLocalPub, SameHolder, UType
  <2> QED
    BY <1>3, <2>1, <2>2, CheckedHolder, FinishHolder DEF LoopRc, Iterate, SameHolder
<1>4. CASE LoopCmd
  <2>1. PICK near \in BOOLEAN : Iterate("CMD_CONTROL", HandleCmdControl(Checked, near))
    BY <1>4 DEF LoopCmd
  <2>2. u.control_mode = "CMD_CONTROL" /\ Checked.control_mode = "CMD_CONTROL"
    BY <2>1, CheckedHolder DEF Iterate
  <2>3. HandleCmdControl(Checked, near) \in UType
    BY <1>1, HandleCmdType
  <2>4. Commanded(HandleCmdControl(Checked, near))
    BY <1>1, <2>2, CheckedHolder, HandleCmdHolder
  <2> QED
    BY <2>1, <2>2, <2>3, <2>4, FinishHolder DEF Iterate, Commanded
<1>5. CASE LoopLand
  <2> DEFINE w == HandleLandControl(Checked)
  <2>1. w \in UType /\ Finish(w) /\ Checked.control_mode = "LAND_CONTROL"
    BY <1>1, <1>5, HandleLandType DEF LoopLand, Iterate
  <2>2. /\ w.control_mode \in {"LAND_CONTROL", "INIT"}
        /\ w.kill /\ px4.armed => ~NewLanding(Checked)
    BY <1>1, <2>1, CheckedHolder, HandleLandHolder
  <2>3. ~NewLanding(Checked) => last_control_mode = "LAND_CONTROL"
    BY <2>1 DEF NewLanding
  <2> HIDE DEF w
  <2> QED
    BY <2>1, <2>2, <2>3, FinishHolder
<1> QED
  BY <1>2, <1>3, <1>4, <1>5 DEF MainLoop

\* RC_CONTROL is entered with a receiver only, CMD_CONTROL with a new Hover or
\* Waypoint only; seen is get_rc_signal when the handler runs.
EntersWell(v, seen) ==
  /\ v.control_mode = "RC_CONTROL" => u.control_mode = "RC_CONTROL" \/ (UseRC /\ seen)
  /\ v.control_mode = "CMD_CONTROL"
       => u.control_mode = "CMD_CONTROL" \/ (v.cmd \in {"Hover", "Waypoint"} /\ v.new_cmd)

LEMMA OffboardEntersWell ==
  ASSUME NEW v \in UType, NEW seen, EntersWell(v, seen),
         NEW mode \in {"RC_CONTROL", "CMD_CONTROL"}
  PROVE  EntersWell(SetOffboardControl(v, mode, seen), seen)
<1>1. mode \in Modes
  BY DEF Modes
<1> QED
  BY <1>1, OffboardHolder DEF EntersWell

LEMMA LandEntersWell ==
  ASSUME NEW v \in UType, NEW seen, EntersWell(v, seen), ~v.kill
  PROVE  EntersWell(SetLand(v), seen)
  BY SetLandHolder DEF EntersWell

LEMMA BeginEntersWell ==
  ASSUME TypeOK, NEW seen
  PROVE  EntersWell(Begin, seen)
  BY BeginHolder DEF EntersWell, TypeOK

LEMMA RcEntersWell ==
  ASSUME TypeOK, NEW rc \in RcMsgs, RcStateCallback(rc)
  PROVE  EntersWell(u', TRUE)
<1> DEFINE armed == [Begin EXCEPT !.arm = CASE rc.arm = "ARM" -> {TRUE}
                                            [] rc.arm = "DISARM" -> {FALSE}
                                            [] rc.arm = "none" -> {}]
           moded == CASE rc.mode = "none" -> armed
                      [] rc.mode = "INIT" -> [armed EXCEPT !.control_mode = "INIT"]
                      [] rc.mode \in {"RC_CONTROL", "CMD_CONTROL"} ->
                           SetOffboardControl(armed, rc.mode, TRUE)
           landed == IF rc.land THEN SetLand(moded) ELSE moded
           sent == IF rc.kill THEN EmergencyStop(landed) ELSE landed
<1>1. rc \in RcMsgType /\ Begin \in UType
  BY ConstantsAssumption, BeginType DEF ConstantsAssumption, TypeOK
<1>2. armed \in UType /\ ~armed.kill /\ armed.pub = NoPub /\ EntersWell(armed, TRUE)
  <2>1. (CASE rc.arm = "ARM" -> {TRUE}
           [] rc.arm = "DISARM" -> {FALSE}
           [] rc.arm = "none" -> {}) \in SUBSET BOOLEAN
    BY <1>1 DEF RcMsgType
  <2>2. armed \in UType /\ ~armed.kill /\ armed.pub = NoPub
    BY <1>1, <2>1, BeginHolder DEF TypeOK, UType
  <2>3. armed.control_mode = u.control_mode
    BY <1>1, BeginHolder DEF TypeOK, UType
  <2> QED
    BY <2>2, <2>3 DEF EntersWell
<1> HIDE DEF armed
<1>3. moded \in UType /\ ~moded.kill /\ EntersWell(moded, TRUE)
  <2>1. CASE rc.mode = "none"
    BY <1>2, <2>1
  <2>2. CASE rc.mode = "INIT"
    <3> DEFINE i == [armed EXCEPT !.control_mode = "INIT"]
    <3>1. i \in UType /\ ~i.kill /\ i.control_mode = "INIT"
      BY <1>2 DEF UType, Modes
    <3>2. moded = i
      BY <2>2
    <3> QED
      BY <3>1, <3>2 DEF EntersWell
  <2>3. CASE rc.mode \in {"RC_CONTROL", "CMD_CONTROL"}
    BY <1>2, <2>3, OffboardType, OffboardRequested, OffboardEntersWell DEF Modes
  <2> QED
    BY <1>1, <2>1, <2>2, <2>3 DEF RcMsgType
<1> HIDE DEF moded
<1>4. landed \in UType /\ EntersWell(landed, TRUE)
  BY <1>3, SetLandType, LandEntersWell
<1> HIDE DEF landed
<1>5. sent \in UType /\ EntersWell(sent, TRUE)
  BY <1>4, StopType DEF EmergencyStop, EntersWell, UType
<1>6. Finish(sent)
  BY DEF RcStateCallback, sent, landed, moded, armed
<1> HIDE DEF sent
<1> QED
  BY <1>5, <1>6, FinishHolder DEF EntersWell

LEMMA SetupEntersWell ==
  ASSUME TypeOK, NEW req \in Setups, UavSetupCallback(req)
  PROVE  EntersWell(u', get_rc_signal)
<1> DEFINE sent == CASE req.cmd = "ARM"            -> [Begin EXCEPT !.arm = {TRUE}]
                     [] req.cmd = "DISARM"         -> [Begin EXCEPT !.arm = {FALSE}]
                     [] req.cmd = "SET_PX4_MODE"   -> [Begin EXCEPT !.modes = {req.px4_mode}]
                     [] req.cmd = "REBOOT_PX4"     -> Begin
                     [] req.cmd = "EMERGENCY_KILL" -> EmergencyStop(Begin)
                     [] req.cmd = "SET_CONTROL_MODE" -> SetControlMode(req.control_mode)
           Good(v) == v \in UType /\ EntersWell(v, get_rc_signal)
<1>1. /\ req \in SetupType /\ Begin \in UType /\ ~Begin.kill /\ Begin.pub = NoPub
      /\ Begin.control_mode = u.control_mode
  BY ConstantsAssumption, BeginType, BeginHolder DEF ConstantsAssumption, TypeOK
<1>2. /\ Good([Begin EXCEPT !.arm = {TRUE}])
      /\ Good([Begin EXCEPT !.arm = {FALSE}])
      /\ Good(Begin)
      /\ \A m \in {"INIT", "WITHOUT_CONTROL"} : Good([Begin EXCEPT !.control_mode = m])
  BY <1>1 DEF UType, EntersWell, Modes
<1>3. Good(EmergencyStop(Begin))
  BY <1>1, StopType DEF EmergencyStop, EntersWell, UType
<1>4. ASSUME req.cmd = "SET_PX4_MODE"
      PROVE  Good([Begin EXCEPT !.modes = {req.px4_mode}])
  <2>1. req.px4_mode \in FcModes
    BY <1>1, <1>4 DEF SetupType
  <2> QED
    BY <1>1, <2>1 DEF UType, EntersWell
<1>5. ASSUME req.cmd = "SET_CONTROL_MODE"
      PROVE  Good(SetControlMode(req.control_mode))
  <2>1. req.control_mode \in Modes
    BY <1>1, <1>5 DEF SetupType
  <2>2. Good(SetLand(Begin))
    BY <1>1, <1>2, SetLandType, LandEntersWell
  <2>3. \A m \in {"RC_CONTROL", "CMD_CONTROL"} : Good(SetOffboardControl(Begin, m, get_rc_signal))
    BY <1>1, <1>2, OffboardType, OffboardEntersWell DEF Modes
  <2> HIDE DEF Good
  <2> QED
    BY <1>2, <2>1, <2>2, <2>3 DEF SetControlMode, Modes
<1>6. Good(sent)
  <2> HIDE DEF Good
  <2> QED
    BY <1>1, <1>2, <1>3, <1>4, <1>5 DEF SetupType
<1>7. Finish(sent)
  BY DEF UavSetupCallback
<1> HIDE DEF sent
<1> QED
  BY <1>6, <1>7, FinishHolder DEF EntersWell

\* Every step enters its mode well, with the signal seen when it ends.
LEMMA NextEntersWell ==
  ASSUME TypeOK, [Next]_vars
  PROVE  EntersWell(u', get_rc_signal') /\ (get_rc_signal => get_rc_signal')
<1>1. Begin \in UType /\ Begin.control_mode = u.control_mode
  BY BeginType, BeginHolder DEF TypeOK
<1>2. ASSUME u'.control_mode \in {u.control_mode, "LAND_CONTROL", "INIT"}
      PROVE  EntersWell(u', get_rc_signal')
  BY <1>2 DEF EntersWell
<1>3. CASE Px4StateCallback \/ \E m \in Missions : WaypointCallback(m)
  BY <1>1, <1>2, <1>3 DEF Px4StateCallback, WaypointCallback
<1>4. CASE \E rc \in RcMsgs : RcStateCallback(rc)
  BY <1>4, RcEntersWell DEF RcStateCallback, EntersWell
<1>5. CASE \E c \in Cmds : ControlCmdCallback(c)
  <2>1. PICK c \in Cmds : ControlCmdCallback(c)
    BY <1>5
  <2>2. CASE c = "Waypoint"
    BY <1>1, <2>1, <2>2 DEF ControlCmdCallback, Stamp, EntersWell, UType
  <2>3. CASE c # "Waypoint"
    <3>1. u'.control_mode = u.control_mode
      BY <1>1, <2>1, <2>3 DEF ControlCmdCallback, Stamp, UType
    <3> QED
      BY <1>2, <2>1, <3>1 DEF ControlCmdCallback
  <2> QED
    BY <2>1, <2>2, <2>3 DEF ControlCmdCallback
<1>6. CASE \E req \in Setups : UavSetupCallback(req)
  <2>1. EntersWell(u', get_rc_signal) /\ get_rc_signal' = get_rc_signal
    BY <1>6, SetupEntersWell DEF UavSetupCallback
  <2> QED
    BY <2>1 DEF EntersWell
<1>7. CASE MainLoop
  <2>1. UNCHANGED get_rc_signal
    BY <1>7 DEF MainLoop, LoopInit, LoopRc, LoopCmd, LoopLand, LoopWithout, Iterate
  <2> QED
    BY <1>2, <1>7, <2>1, LoopModes
<1>8. CASE Environment
  <2>1. /\ u' \in {Begin, [Begin EXCEPT !.land_timer = "expired"],
                   [Begin EXCEPT !.cmd_old = TRUE], [Begin EXCEPT !.wp_late = TRUE]}
        /\ UNCHANGED get_rc_signal
    BY <1>8 DEF Environment, RcSilence, LandTimerExpires, CmdExpires, WpExpires, FcArming,
                FcMode, Descend, Move, FcChanges, OdomChanges, nodeVars
  <2>2. u'.control_mode = u.control_mode
    BY <1>1, <2>1 DEF UType
  <2> QED
    BY <1>2, <2>1, <2>2
<1>9. CASE UNCHANGED vars
  BY <1>2, <1>9 DEF vars
<1> QED
  BY <1>3, <1>4, <1>5, <1>6, <1>7, <1>8, <1>9 DEF Next

\* In every reachable state RC_CONTROL has a receiver behind it.
THEOREM RcSafe == Spec => []RcOnlyWithSignal
<1>1. Init => RcOnlyWithSignal
  BY DEF Init, RcOnlyWithSignal
<1>2. TypeOK /\ RcOnlyWithSignal /\ [Next]_vars => RcOnlyWithSignal'
  BY NextEntersWell DEF RcOnlyWithSignal, EntersWell
<1> QED
  BY <1>1, <1>2, TypeCorrect, PTL DEF Spec

\* No step enters CMD_CONTROL with a command from before.
THEOREM EntryForgets == Spec => EntryForgetsOldCommand
<1>1. TypeOK /\ [Next]_vars
      => [u.control_mode # "CMD_CONTROL" /\ u'.control_mode = "CMD_CONTROL"
            => u'.cmd \in {"Hover", "Waypoint"} /\ u'.new_cmd]_vars
  BY NextEntersWell DEF EntersWell
<1> QED
  BY <1>1, TypeCorrect, PTL DEF Spec, EntryForgetsOldCommand

\* No iteration of mainLoop gives the vehicle to the sticks or the commands.
THEOREM LoopTakesAway == Spec => LoopOnlyTakesAway
<1>1. TypeOK /\ [Next]_vars
      => [MainLoop => u'.control_mode \in {u.control_mode, "LAND_CONTROL", "INIT"}]_vars
  BY LoopModes
<1> QED
  BY <1>1, TypeCorrect, PTL DEF Spec, LoopOnlyTakesAway

\* No landing cuts the motors of an armed vehicle in its first iteration.
THEOREM NoCutSafe == Spec => NoCutOnLandingEntry
<1>1. TypeOK /\ [Next]_vars
      => [MainLoop /\ px4.armed /\ u'.kill => last_control_mode = "LAND_CONTROL"]_vars
  BY LoopModes
<1> QED
  BY <1>1, TypeCorrect, PTL DEF Spec, NoCutOnLandingEntry
=============================================================================
