---------------------- MODULE UAVControlMissionProofs ----------------------
(***************************************************************************)
(* Missions: where they may end with a Land, and when the loop may arm the *)
(* vehicle, followed through the handlers of uav_control.                  *)
(***************************************************************************)
EXTENDS UAVControlProofs

\* The handler that made w of v left the mission where it is, and asked to arm nothing.
SameMission(v, w) == /\ w.wp_index = v.wp_index /\ w.wp_state = v.wp_state
                     /\ w.arm = v.arm

\* Past its points, a mission has been through all of them.
PointsFlown(v) == v.wp_state \in 4 .. 6 => mission.init /\ v.wp_index >= mission.num

\* What the loop may ask to arm for.
Launching(v) == /\ v.cmd = "Waypoint" /\ v.wp_state = 1
                /\ mission.init /\ mission.takeoff

\* What a command of CMD_CONTROL, from v to w, may do to the mission.
Advanced(v, w) == /\ PointsFlown(v) => PointsFlown(w)
                  /\ v.cmd = "Waypoint" /\ w.cmd = "Land" => v.wp_state = 5
                  /\ TRUE \in w.arm => Launching(w)

-----------------------------------------------------------------------------
(***************************************************************************)
(* Handlers that leave the mission alone.                                  *)
(***************************************************************************)

LEMMA StampMission ==
  ASSUME NEW v \in UType, NEW c
  PROVE  SameMission(v, Stamp(v, c)) /\ Stamp(v, c).cmd = c
  BY DEF SameMission, Stamp, UType

LEMMA PubMission ==
  ASSUME NEW v \in UType
  PROVE  SameMission(v, SetpointLocalPub(v)) /\ SetpointLocalPub(v).cmd = v.cmd
  BY DEF SameMission, SetpointLocalPub, UType

LEMMA AimMission ==
  ASSUME NEW v \in UType, NEW t, NEW m
  PROVE  /\ SameMission(v, [v EXCEPT !.target = t, !.mask = m])
         /\ [v EXCEPT !.target = t, !.mask = m].cmd = v.cmd
  BY DEF SameMission, UType

\* set_desired_from_hover leaves Hover as the command.
LEMMA HoverMission ==
  ASSUME NEW v \in UType
  PROVE  SameMission(v, SetDesiredFromHover(v)) /\ SetDesiredFromHover(v).cmd = "Hover"
<1> DEFINE latched == IF (v.new_cmd /\ v.last_cmd # "Hover") \/ v.cmd # "Hover"
                      THEN Stamp(v, "Hover") ELSE v
<1>1. latched \in UType /\ SameMission(v, latched) /\ latched.cmd = "Hover"
  BY StampType, StampMission DEF StoredCmds, SameMission
<1> HIDE DEF latched
<1>2. SetDesiredFromHover(v) = [latched EXCEPT !.target = "Hover", !.mask = "POS_YAW"]
  BY DEF SetDesiredFromHover, latched
<1> QED
  BY <1>1, <1>2, AimMission DEF SameMission

LEMMA OffboardMission ==
  ASSUME NEW v \in UType, NEW mode, NEW rcSeen
  PROVE  SameMission(v, SetOffboardControl(v, mode, rcSeen))
<1> DEFINE stamped == Stamp(v, "Hover")
           entered == [stamped EXCEPT !.control_mode = mode]
           prepared == [entered EXCEPT !.target = "Cleared",
                           !.pub = [kind |-> "Cleared", mask |-> "VEL"],
                           !.modes = @ \union {"OFFBOARD"}]
<1>1. stamped \in UType /\ SameMission(v, stamped)
  BY StampType, StampMission DEF StoredCmds
<1> HIDE DEF stamped
<1>2. SameMission(v, entered) /\ SameMission(v, prepared)
  BY <1>1 DEF SameMission, UType
<1> HIDE DEF entered, prepared
<1>3. SetOffboardControl(v, mode, rcSeen) \in {v, entered, prepared}
  BY DEF SetOffboardControl, entered, prepared, stamped
<1> QED
  BY <1>2, <1>3 DEF SameMission

LEMMA LandMission ==
  ASSUME NEW v \in UType
  PROVE  /\ SameMission(v, LandStep(v)) /\ LandStep(v).cmd = v.cmd
         /\ SameMission(v, HandleLandControl(v)) /\ HandleLandControl(v).cmd = v.cmd
         /\ SameMission(v, SetLand(v)) /\ SetLand(v).cmd = v.cmd
<1>1. ASSUME NEW x \in UType
      PROVE  SameMission(x, LandStep(x)) /\ LandStep(x).cmd = x.cmd
  <2> DEFINE timer == IF NewLanding(x) THEN "zero" ELSE x.land_timer
             down == [x EXCEPT !.land_timer = timer, !.target = "Land", !.mask = "POS_VEL_YAW"]
             push == [x EXCEPT !.land_timer = "running", !.target = "PushDown", !.mask = "VEL_YAW"]
             cleared == [x EXCEPT !.target = "Cleared", !.mask = "POS_VEL_YAW"]
             cut == [cleared EXCEPT !.kill = TRUE, !.control_mode = "INIT"]
  <2>1. \A w \in {down, push, cut} : SameMission(x, w) /\ w.cmd = x.cmd
    BY DEF SameMission, UType
  <2>2. LandStep(x) \in {down, push, cut}
    BY DEF LandStep, EmergencyStop
  <2> QED
    BY <2>1, <2>2
<1>2. ASSUME NEW x \in UType
      PROVE  SameMission(x, HandleLandControl(x)) /\ HandleLandControl(x).cmd = x.cmd
  <2> DEFINE w == IF px4.armed THEN x ELSE [x EXCEPT !.control_mode = "INIT"]
             asked == [w EXCEPT !.modes = @ \union {"AUTO.LAND"}]
  <2>1. w \in UType /\ SameMission(x, w) /\ w.cmd = x.cmd
    BY ModeType DEF Modes, SameMission, UType
  <2> HIDE DEF w
  <2>2. asked \in UType /\ SameMission(x, asked) /\ asked.cmd = x.cmd
    BY <2>1, AskModeType DEF FcModes, SameMission, UType
  <2> HIDE DEF asked
  <2>3. \A y \in {w, asked} : /\ SameMission(y, SetpointLocalPub(LandStep(y)))
                              /\ SetpointLocalPub(LandStep(y)).cmd = y.cmd
    BY <1>1, <2>1, <2>2, LandStepType, PubMission DEF SameMission
  <2>4. HandleLandControl(x) \in {w, SetpointLocalPub(LandStep(w)), SetpointLocalPub(LandStep(asked))}
    BY ConstantsAssumption DEF ConstantsAssumption, HandleLandControl, w, asked
  <2> QED
    BY <2>1, <2>2, <2>3, <2>4 DEF SameMission
<1>3. SameMission(v, SetLand(v)) /\ SetLand(v).cmd = v.cmd
  <2> DEFINE w == [v EXCEPT !.control_mode = "LAND_CONTROL"]
  <2>1. w \in UType /\ SameMission(v, w) /\ w.cmd = v.cmd
    BY ModeType DEF Modes, SameMission, UType
  <2> HIDE DEF w
  <2>2. SetLand(v) \in {v, HandleLandControl(w)}
    BY DEF SetLand, w
  <2> QED
    BY <1>2, <2>1, <2>2 DEF SameMission
<1> QED
  BY <1>1, <1>2, <1>3

LEMMA TakeoffMission ==
  ASSUME NEW v \in UType
  PROVE  SameMission(v, SetTakeoff(v))
<1>1. SetTakeoff(v) \in {SetDesiredFromHover(v), v,
                         [v EXCEPT !.target = "Takeoff", !.mask = "POS_YAW"]}
  BY DEF SetTakeoff
<1>2. SameMission(v, v) /\ SameMission(v, [v EXCEPT !.target = "Takeoff", !.mask = "POS_YAW"])
  BY DEF SameMission, UType
<1> QED
  BY <1>1, <1>2, HoverMission

LEMMA ReturnMission ==
  ASSUME NEW v \in UType, NEW near \in BOOLEAN
  PROVE  SameMission(v, ReturnToHome(v, near))
<1> DEFINE headed == IF v.new_cmd THEN [v EXCEPT !.target = "Home", !.mask = "POS_YAW"] ELSE v
<1>1. headed \in UType /\ SameMission(v, headed)
  <2>1. headed \in UType
    BY AimType DEF Targets, Masks
  <2>2. SameMission(v, headed)
    BY DEF SameMission, UType
  <2> QED
    BY <2>1, <2>2
<1> HIDE DEF headed
<1>2. SameMission(v, Stamp(headed, "Land"))
  BY <1>1, StampMission DEF SameMission
<1>3. ReturnToHome(v, near) \in {SetDesiredFromHover(v), Stamp(headed, "Land"), headed}
  BY DEF ReturnToHome, headed
<1> QED
  BY <1>1, <1>2, <1>3, HoverMission

-----------------------------------------------------------------------------
(***************************************************************************)
(* The mission's own handlers.                                             *)
(***************************************************************************)

\* Entering resets the mission, or leaves it alone.
LEMMA WpEnterMission ==
  ASSUME NEW v \in UType
  PROVE  LET w == WpEnter(v) IN
         /\ w.cmd = v.cmd /\ w.arm = v.arm
         /\ w.wp_state = 0 \/ (w.wp_state = v.wp_state /\ w.wp_index = v.wp_index)
  BY DEF WpEnter, UType

LEMMA WpUnderWayMission ==
  ASSUME NEW v \in UType
  PROVE  LET w == WpUnderWay(v) IN
         /\ w.cmd = v.cmd /\ w.arm = v.arm /\ w.wp_index = v.wp_index
         /\ w.wp_state \in {3, v.wp_state}
  BY DEF WpUnderWay, UType

\* The launch asks to arm only in state 1, which it enters with the request for OFFBOARD.
LEMMA WpLaunchMission ==
  ASSUME NEW v \in UType, v.cmd = "Waypoint", v.wp_state \in {0, 1}, v.arm = {}
  PROVE  LET w == WpLaunch(v) IN
         /\ w.wp_state \in {0, 1, 2} /\ w.cmd \in {"Waypoint", "Hover"}
         /\ TRUE \in w.arm => w.wp_state = 1 /\ w.cmd = "Waypoint"
<1> DEFINE a == IF px4.mode = "OFFBOARD" /\ px4.armed THEN [v EXCEPT !.wp_state = 2] ELSE v
           off == SetOffboardControl(a, "CMD_CONTROL", get_rc_signal)
           b == IF px4.mode # "OFFBOARD" /\ a.wp_state = 0
                THEN [off EXCEPT !.cmd = "Waypoint", !.wp_state = 1]
                ELSE a
           arming == [b EXCEPT !.arm = {TRUE}]
           Launched(x) == /\ x \in UType /\ x.arm = {} /\ x.cmd = "Waypoint"
                          /\ x.wp_state \in {0, 1, 2}
<1>0. 1 \in 0 .. 6 /\ 2 \in 0 .. 6 /\ "Waypoint" \in StoredCmds
  BY DEF StoredCmds
<1>1. Launched(a)
  BY <1>0 DEF UType
<1> HIDE DEF a
<1>2. off \in UType /\ off.arm = {}
  BY <1>1, OffboardType, OffboardMission DEF Modes, SameMission
<1> HIDE DEF off
<1>3. Launched(b)
  BY <1>0, <1>1, <1>2 DEF UType
<1> HIDE DEF b
<1>4. ArmNext(b) => b.wp_state = 1
  BY DEF ArmNext
<1>5. /\ arming.wp_state = b.wp_state /\ arming.cmd = "Waypoint"
      /\ SameMission(b, SetDesiredFromHover(b)) /\ SetDesiredFromHover(b).cmd = "Hover"
  BY <1>3, HoverMission DEF UType
<1>6. \/ ArmNext(b) /\ WpLaunch(v) = arming
      \/ WpLaunch(v) \in {SetDesiredFromHover(b), b}
  BY DEF WpLaunch, arming, b, off, a
<1> HIDE DEF arming
<1> QED
  BY <1>3, <1>4, <1>5, <1>6 DEF SameMission

\* From point to point: past them only when there is none left, and to Land only from
\* state 5; the launch is left alone.
LEMMA WpFlyMission ==
  ASSUME NEW v \in UType, NEW near \in BOOLEAN, mission \in MissionType, mission.init
  PROVE  LET w == WpFly(v, near) IN
         /\ PointsFlown(v) => PointsFlown(w)
         /\ v.wp_state \in {0, 1, 6} => w = v
         /\ w.arm = v.arm
         /\ w.cmd = "Land" => v.cmd = "Land" \/ v.wp_state = 5
<1>1. v.wp_state \in 0 .. 6 /\ v.wp_index \in Nat /\ mission.num \in Nat /\ mission.end \in {1, 2, 3}
  BY DEF UType, MissionType
<1>2. CASE v.wp_state \in {0, 1, 6}
  BY <1>2 DEF WpFly
<1>3. CASE v.wp_state = 2
  <2>1. WpFly(v, near) \in {[v EXCEPT !.target = "WpTakeoff", !.mask = "POS"],
                            [v EXCEPT !.wp_state = 3]}
    BY <1>1, <1>3 DEF WpFly
  <2>2. \A w \in {[v EXCEPT !.target = "WpTakeoff", !.mask = "POS"], [v EXCEPT !.wp_state = 3]} :
          w.wp_state \in {2, 3} /\ w.arm = v.arm /\ w.cmd = v.cmd
    BY <1>3 DEF UType
  <2>3. /\ WpFly(v, near).wp_state \in {2, 3} /\ WpFly(v, near).arm = v.arm
        /\ WpFly(v, near).cmd = v.cmd
    BY <2>1, <2>2
  <2> QED
    BY <1>3, <2>3 DEF PointsFlown
<1>4. CASE v.wp_state = 3
  <2> DEFINE s == IF LastPoint(v) THEN 4 ELSE 3
             aimed == [v EXCEPT !.target = "WpPoint", !.mask = "XY_VEL_Z_POS_YAW"]
             next == [v EXCEPT !.wp_index = v.wp_index + 1, !.wp_state = s]
  <2>1. WpFly(v, near) \in {aimed, next}
    BY <1>4 DEF WpFly
  <2>2. aimed.wp_state = 3 /\ aimed.arm = v.arm /\ aimed.cmd = v.cmd
    BY <1>4 DEF UType
  <2>3. /\ next.wp_state = s /\ next.wp_index = v.wp_index + 1
        /\ next.arm = v.arm /\ next.cmd = v.cmd
    BY DEF UType
  <2>4. s \in {3, 4} /\ (s = 4 => v.wp_index + 1 >= mission.num)
    BY DEF LastPoint
  <2> HIDE DEF aimed, next, s
  <2>5. PointsFlown(aimed) /\ PointsFlown(next)
    BY <2>2, <2>3, <2>4 DEF PointsFlown
  <2> QED
    BY <1>4, <2>1, <2>2, <2>3, <2>5
<1>5. CASE v.wp_state = 4
  <2>1. WpFly(v, near) \in {[v EXCEPT !.target = "WpReturn", !.mask = "XY_VEL_Z_POS_YAW"],
                            [v EXCEPT !.wp_state = 5]}
    BY <1>1, <1>5 DEF WpFly
  <2>2. \A w \in {[v EXCEPT !.target = "WpReturn", !.mask = "XY_VEL_Z_POS_YAW"],
                  [v EXCEPT !.wp_state = 5]} :
          /\ w.wp_state \in {4, 5} /\ w.wp_index = v.wp_index
          /\ w.arm = v.arm /\ w.cmd = v.cmd
    BY <1>5 DEF UType
  <2>3. /\ WpFly(v, near).wp_index = v.wp_index /\ WpFly(v, near).arm = v.arm
        /\ WpFly(v, near).cmd = v.cmd
    BY <2>1, <2>2
  <2> QED
    BY <1>5, <2>3 DEF PointsFlown
<1>6. CASE v.wp_state = 5
  <2> DEFINE ended == [v EXCEPT !.wp_state = 6]
  <2>0. 6 \in 0 .. 6 /\ "Land" \in StoredCmds
    BY DEF StoredCmds
  <2>1. ended \in UType /\ ended.wp_state = 6 /\ ended.wp_index = v.wp_index /\ ended.arm = v.arm
    BY <2>0 DEF UType
  <2>2. SameMission(ended, SetDesiredFromHover(ended))
    BY <2>1, HoverMission
  <2> DEFINE aimed == [v EXCEPT !.target = "WpHome", !.mask = "POS_YAW"]
             landing == [Stamp(v, "Land") EXCEPT !.wp_state = 6]
  <2>3. /\ SameMission(v, aimed)
        /\ landing.wp_index = v.wp_index /\ landing.arm = v.arm
    <3>1. Stamp(v, "Land") \in UType /\ SameMission(v, Stamp(v, "Land"))
      BY <2>0, StampType, StampMission
    <3>2. landing.wp_index = v.wp_index /\ landing.arm = v.arm
      BY <3>1 DEF UType, SameMission
    <3> QED
      BY <3>2, AimMission
  <2>4. WpFly(v, near) \in {aimed, landing, SetDesiredFromHover(ended)}
    BY <1>1, <1>6 DEF WpFly
  <2> HIDE DEF ended, aimed, landing
  <2>5. WpFly(v, near).wp_index = v.wp_index /\ WpFly(v, near).arm = v.arm
    BY <2>1, <2>2, <2>3, <2>4 DEF SameMission
  <2> QED
    BY <1>6, <2>5 DEF PointsFlown
<1> QED
  BY <1>1, <1>2, <1>3, <1>4, <1>5, <1>6

\* waypoint_mission, from the Waypoint command on.
LEMMA WaypointAdvances ==
  ASSUME NEW v \in UType, NEW near \in BOOLEAN, mission \in MissionType,
         v.cmd = "Waypoint", v.arm = {}
  PROVE  Advanced(v, WaypointMission(v, near))
<1> DEFINE w == WpEnter(v)
           launching == mission.takeoff /\ w.wp_state \in {0, 1}
<1>1. /\ w \in UType /\ w.cmd = "Waypoint" /\ w.arm = {} /\ (PointsFlown(v) => PointsFlown(w))
      /\ w.wp_state = 5 => v.wp_state = 5
  BY WpEnterType, WpEnterMission DEF PointsFlown
<1> HIDE DEF w
<1>2. ASSUME NEW x \in {v, w}
      PROVE  Advanced(v, SetDesiredFromHover(x))
  BY <1>1, <1>2, HoverMission DEF SameMission, Advanced, PointsFlown
<1>3. ASSUME mission.init, launching
      PROVE  Advanced(v, WpFly(WpLaunch(w), near))
  <2> DEFINE l == WpLaunch(w)
  <2>1. /\ l \in UType /\ l.wp_state \in {0, 1, 2} /\ l.cmd \in {"Waypoint", "Hover"}
        /\ TRUE \in l.arm => l.wp_state = 1 /\ l.cmd = "Waypoint"
    BY <1>1, <1>3, WpLaunchType, WpLaunchMission
  <2>2. PointsFlown(l)
    BY <2>1 DEF PointsFlown
  <2> HIDE DEF l
  <2>3. /\ PointsFlown(WpFly(l, near)) /\ WpFly(l, near).arm = l.arm
        /\ WpFly(l, near).cmd # "Land"
        /\ l.wp_state = 1 => WpFly(l, near) = l
    BY <1>3, <2>1, <2>2, WpFlyMission
  <2> QED
    BY <1>3, <2>1, <2>3 DEF Advanced, Launching, l
<1>4. ASSUME mission.init
      PROVE  Advanced(v, WpFly(WpUnderWay(w), near))
  <2> DEFINE l == WpUnderWay(w)
  <2>1. /\ l \in UType /\ l.cmd = "Waypoint" /\ l.arm = {}
        /\ l.wp_index = w.wp_index /\ l.wp_state \in {3, w.wp_state}
    BY <1>1, WpUnderWayType, WpUnderWayMission
  <2>2. (PointsFlown(v) => PointsFlown(l)) /\ (l.wp_state = 5 => v.wp_state = 5)
    BY <1>1, <2>1 DEF PointsFlown
  <2> HIDE DEF l
  <2>3. /\ PointsFlown(l) => PointsFlown(WpFly(l, near))
        /\ WpFly(l, near).arm = {}
        /\ WpFly(l, near).cmd = "Land" => l.wp_state = 5
    BY <1>4, <2>1, <2>2, WpFlyMission
  <2> QED
    BY <2>2, <2>3 DEF Advanced, l
<1>5. \/ WaypointMission(v, near) \in {SetDesiredFromHover(v), SetDesiredFromHover(w)}
      \/ mission.init /\ launching /\ WaypointMission(v, near) = WpFly(WpLaunch(w), near)
      \/ mission.init /\ WaypointMission(v, near) = WpFly(WpUnderWay(w), near)
  BY DEF WaypointMission, w
<1> QED
  BY <1>2, <1>3, <1>4, <1>5

\* A handler that leaves the mission alone advances nothing.
LEMMA SameAdvances ==
  ASSUME NEW v \in UType, NEW w, v.cmd # "Waypoint" \/ w.cmd # "Land", v.arm = {},
         SameMission(v, w)
  PROVE  Advanced(v, w)
  BY DEF SameMission, Advanced, PointsFlown

LEMMA ExecuteAdvances ==
  ASSUME NEW v \in UType, NEW near \in BOOLEAN, mission \in MissionType,
         v.arm = {}
  PROVE  Advanced(v, Execute(v, near))
<1> DEFINE based == [v EXCEPT !.target = "Base", !.mask = "BASE"]
           global == [v EXCEPT !.mask = "GLOBAL",
                               !.pub = [kind |-> "Global", mask |-> "GLOBAL"]]
           attitude == [v EXCEPT !.pub = [kind |-> "Attitude", mask |-> v.mask]]
           flown == {SetTakeoff(v), SetLand(v), SetDesiredFromHover(v),
                     ReturnToHome(v, near), based, v}
<1>1. \A w \in {based, global, attitude, v} : SameMission(v, w)
  BY DEF SameMission, UType
<1>2. flown \subseteq UType /\ WaypointMission(v, near) \in UType
  BY AimType, TakeoffType, SetLandType, HoverType, WaypointType, ReturnType DEF Targets, Masks
<1> HIDE DEF based, global, attitude
<1>3. \A w \in flown : SameMission(v, w)
  BY <1>1, TakeoffMission, LandMission, HoverMission, ReturnMission
<1>4. \A w \in flown : SameMission(v, SetpointLocalPub(w))
  BY <1>2, <1>3, PubMission DEF SameMission
<1>5. CASE v.cmd = "Waypoint"
  <2>1. Execute(v, near) = SetpointLocalPub(WaypointMission(v, near))
    BY <1>5 DEF Execute
  <2>2. Advanced(v, WaypointMission(v, near))
    BY <1>5, WaypointAdvances
  <2> QED
    BY <1>2, <2>1, <2>2, PubMission DEF Advanced, SameMission, PointsFlown, Launching
<1>6. CASE v.cmd # "Waypoint"
  <2>1. v.cmd \in StoredCmds /\ v.new_cmd \in BOOLEAN
    BY DEF UType
  <2>2. Execute(v, near) \in {SetpointLocalPub(SetTakeoff(v)), SetpointLocalPub(SetLand(v)),
                             SetpointLocalPub(SetDesiredFromHover(v)),
                             SetpointLocalPub(ReturnToHome(v, near)),
                             SetpointLocalPub(based), SetpointLocalPub(v), global, attitude}
    BY <1>6, <2>1 DEF Execute, StoredCmds, based, global, attitude
  <2>3. SameMission(v, Execute(v, near))
    BY <1>1, <1>4, <2>2
  <2> QED
    BY <1>6, <2>3, SameAdvances
<1> QED
  BY <1>5, <1>6

LEMMA HandleCmdAdvances ==
  ASSUME NEW v \in UType, NEW near \in BOOLEAN, mission \in MissionType,
         v.arm = {}
  PROVE  Advanced(v, HandleCmdControl(v, near))
<1>1. ASSUME NEW w \in UType
      PROVE  SameMission(w, Processed(w)) /\ Processed(w).cmd = w.cmd
  BY DEF Processed, SameMission, UType
<1>2. Advanced(v, SetDesiredFromHover(Stamp(v, "Hover")))
  <2>1. Stamp(v, "Hover") \in UType /\ SameMission(v, Stamp(v, "Hover"))
    BY StampType, StampMission DEF StoredCmds
  <2>2. SameMission(v, SetDesiredFromHover(Stamp(v, "Hover")))
        /\ SetDesiredFromHover(Stamp(v, "Hover")).cmd = "Hover"
    BY <2>1, HoverMission DEF SameMission
  <2> QED
    BY <2>2, SameAdvances
<1>3. Advanced(v, [(IF v.new_cmd THEN Processed(v) ELSE v) EXCEPT !.control_mode = "INIT"])
  <2> DEFINE w == IF v.new_cmd THEN Processed(v) ELSE v
             lost == [w EXCEPT !.control_mode = "INIT"]
  <2>1. w \in UType /\ SameMission(v, w) /\ w.cmd = v.cmd
    BY <1>1, ProcessedType DEF SameMission
  <2> HIDE DEF w
  <2>2. SameMission(v, lost) /\ lost.cmd = v.cmd
    BY <2>1 DEF UType, SameMission
  <2> HIDE DEF lost
  <2>3. Advanced(v, lost)
    BY <2>2, SameAdvances
  <2> QED
    BY <2>3 DEF lost, w
<1>4. Advanced(v, Processed(Execute(v, near)))
  <2>1. Execute(v, near) \in UType /\ Advanced(v, Execute(v, near))
    BY ExecuteType, ExecuteAdvances
  <2> QED
    BY <1>1, <2>1 DEF Advanced, SameMission, PointsFlown, Launching
<1> QED
  BY <1>2, <1>3, <1>4 DEF HandleCmdControl

-----------------------------------------------------------------------------
(***************************************************************************)
(* One step of the node.                                                   *)
(***************************************************************************)

LEMMA BeginMission ==
  ASSUME u \in UType
  PROVE  /\ Begin.wp_index = u.wp_index /\ Begin.wp_state = u.wp_state
         /\ Begin.arm = {} /\ Begin.cmd = u.cmd /\ Begin.control_mode = u.control_mode
  BY DEF Begin, UType

LEMMA CheckedMission ==
  ASSUME u \in UType
  PROVE  /\ SameMission(Begin, Checked) /\ Checked.cmd = u.cmd
         /\ Checked.control_mode = "CMD_CONTROL" => u.control_mode = "CMD_CONTROL"
  BY BeginType, BeginMission DEF Checked, CheckState, SameMission, UType

\* A handler's end: the mission as it left it; armed only if it asked to.
LEMMA FinishMission ==
  ASSUME NEW v \in UType, Finish(v)
  PROVE  /\ u'.wp_index = v.wp_index /\ u'.wp_state = v.wp_state /\ u'.cmd = v.cmd
         /\ fc \in [armed: BOOLEAN, mode: FcModes, pos: Pos] =>
              (~fc.armed /\ fc'.armed => TRUE \in v.arm)
<1>1. u'.wp_index = v.wp_index /\ u'.wp_state = v.wp_state /\ u'.cmd = v.cmd
  BY DEF Finish, UType
<1>2. ASSUME fc \in [armed: BOOLEAN, mode: FcModes, pos: Pos], ~fc.armed, fc'.armed
      PROVE  TRUE \in v.arm
  <2>1. PICK a \in (IF v.kill THEN {FALSE} ELSE {fc.armed} \union v.arm),
             m \in {fc.mode} \union v.modes : fc' = [fc EXCEPT !.armed = a, !.mode = m]
    BY DEF Finish
  <2>2. a = fc'.armed
    BY <1>2, <2>1
  <2>3. a \in BOOLEAN /\ a # FALSE
    BY <1>2, <2>1, <2>2 DEF UType
  <2> QED
    BY <1>2, <2>1, <2>3
<1> QED
  BY <1>1, <1>2

\* Only an upload changes the mission itself.
LEMMA MissionKept ==
  ASSUME [Next]_vars, \A m \in Missions : ~WaypointCallback(m)
  PROVE  mission' = mission
<1>1. CASE MainLoop
  BY <1>1 DEF MainLoop, LoopInit, LoopWithout, LoopRc, LoopLand, LoopCmd, Iterate
<1>2. CASE Environment
  BY <1>2 DEF Environment, nodeVars, RcSilence, LandTimerExpires, CmdExpires, WpExpires,
              FcArming, FcMode, Descend, Move, FcChanges, OdomChanges
<1>3. CASE Px4StateCallback \/ UNCHANGED vars
  BY <1>3 DEF Px4StateCallback, vars
<1>4. ASSUME NEW rc \in RcMsgs, RcStateCallback(rc)
      PROVE  mission' = mission
  BY <1>4 DEF RcStateCallback
<1>5. ASSUME NEW c \in Cmds, ControlCmdCallback(c)
      PROVE  mission' = mission
  BY <1>5 DEF ControlCmdCallback
<1>6. ASSUME NEW req \in Setups, UavSetupCallback(req)
      PROVE  mission' = mission
  BY <1>6 DEF UavSetupCallback
<1> QED
  BY <1>1, <1>2, <1>3, <1>4, <1>5, <1>6 DEF Next

\* What an iteration of mainLoop does to the mission, and when it arms.
LEMMA LoopMission ==
  ASSUME TypeOK, MainLoop
  PROVE  /\ PointsFlown(u) => PointsFlown(u)'
         /\ u.cmd = "Waypoint" /\ u'.cmd = "Land" => u.wp_state = 5
         /\ ~fc.armed /\ fc'.armed => u.control_mode = "CMD_CONTROL" /\ Launching(u')
<1>0. mission' = mission
  BY DEF MainLoop, LoopInit, LoopWithout, LoopRc, LoopLand, LoopCmd, Iterate
<1>1. /\ Checked \in UType /\ mission \in MissionType
      /\ PointsFlown(u) => PointsFlown(Checked)
      /\ Checked.arm = {} /\ Checked.cmd = u.cmd /\ Checked.wp_state = u.wp_state
      /\ fc \in [armed: BOOLEAN, mode: FcModes, pos: Pos]
  BY CheckedType, BeginMission, CheckedMission DEF TypeOK, SameMission, PointsFlown
<1>2. ASSUME NEW w \in UType, SameMission(Checked, w), w.cmd = u.cmd, Finish(w)
      PROVE  /\ PointsFlown(u) => PointsFlown(u)'
             /\ ~(u.cmd = "Waypoint" /\ u'.cmd = "Land") /\ ~(~fc.armed /\ fc'.armed)
  BY <1>0, <1>1, <1>2, FinishMission DEF SameMission, PointsFlown
<1>3. CASE LoopInit \/ LoopWithout
  <2>1. [Checked EXCEPT !.modes = {"POSCTL"}] \in UType
    BY <1>1 DEF UType, FcModes
  <2>2. /\ HandleInit(Checked) \in UType /\ HandleInit(Checked).cmd = u.cmd
        /\ SameMission(Checked, HandleInit(Checked)) /\ SameMission(Checked, Checked)
    BY <1>1, <2>1 DEF HandleInit, SameMission, UType
  <2> QED
    BY <1>1, <1>2, <1>3, <2>2 DEF LoopInit, LoopWithout, Iterate
<1>4. CASE LoopRc
  <2>1. HandleRcControl(Checked) \in UType
    BY <1>1, AimType, PubType DEF HandleRcControl, Targets, Masks
  <2>2. SameMission(Checked, HandleRcControl(Checked)) /\ HandleRcControl(Checked).cmd = u.cmd
    BY <1>1 DEF HandleRcControl, SetpointLocalPub, SameMission, UType
  <2> QED
    BY <1>2, <1>4, <2>1, <2>2 DEF LoopRc, Iterate
<1>5. CASE LoopLand
  BY <1>1, <1>2, <1>5, HandleLandType, LandMission DEF LoopLand, Iterate
<1>6. CASE LoopCmd
  <2>1. PICK near \in BOOLEAN : Iterate("CMD_CONTROL", HandleCmdControl(Checked, near))
    BY <1>6 DEF LoopCmd
  <2> DEFINE w == HandleCmdControl(Checked, near)
  <2>2. w \in UType /\ Advanced(Checked, w)
    BY <1>1, HandleCmdType, HandleCmdAdvances
  <2>3. Finish(w) /\ u.control_mode = "CMD_CONTROL"
    BY <2>1, CheckedMission DEF Iterate, TypeOK
  <2> HIDE DEF w
  <2>4. /\ u'.wp_index = w.wp_index /\ u'.wp_state = w.wp_state /\ u'.cmd = w.cmd
        /\ ~fc.armed /\ fc'.armed => TRUE \in w.arm
    BY <1>1, <2>2, <2>3, FinishMission
  <2> QED
    BY <1>0, <1>1, <2>2, <2>3, <2>4 DEF Advanced, PointsFlown, Launching
<1> QED
  BY <1>3, <1>4, <1>5, <1>6 DEF MainLoop

\* The other steps of the node, and its environment, leave the mission where it is.
LEMMA OthersLeaveMission ==
  ASSUME TypeOK, [Next]_vars, ~MainLoop
  PROVE  u'.wp_index = u.wp_index /\ u'.wp_state = u.wp_state
<1>1. Begin \in UType /\ Begin.wp_index = u.wp_index /\ Begin.wp_state = u.wp_state
  BY BeginType, BeginMission DEF TypeOK
<1>2. CASE Px4StateCallback \/ \E m \in Missions : WaypointCallback(m)
  BY <1>1, <1>2 DEF Px4StateCallback, WaypointCallback
<1>3. ASSUME NEW rc \in RcMsgs, RcStateCallback(rc)
      PROVE  u'.wp_index = u.wp_index /\ u'.wp_state = u.wp_state
  <2> DEFINE armed == [Begin EXCEPT !.arm = CASE rc.arm = "ARM" -> {TRUE}
                                              [] rc.arm = "DISARM" -> {FALSE}
                                              [] rc.arm = "none" -> {}]
             moded == CASE rc.mode = "none" -> armed
                        [] rc.mode = "INIT" -> [armed EXCEPT !.control_mode = "INIT"]
                        [] rc.mode \in {"RC_CONTROL", "CMD_CONTROL"} ->
                             SetOffboardControl(armed, rc.mode, TRUE)
             landed == IF rc.land THEN SetLand(moded) ELSE moded
             sent == IF rc.kill THEN EmergencyStop(landed) ELSE landed
             Kept(v) == v \in UType /\ v.wp_index = u.wp_index /\ v.wp_state = u.wp_state
  <2>1. rc \in RcMsgType
    BY ConstantsAssumption DEF ConstantsAssumption
  <2>2. Kept(armed)
    <3>1. (CASE rc.arm = "ARM" -> {TRUE}
             [] rc.arm = "DISARM" -> {FALSE}
             [] rc.arm = "none" -> {}) \in SUBSET BOOLEAN
      BY <2>1 DEF RcMsgType
    <3> QED
      BY <1>1, <3>1 DEF UType
  <2> HIDE DEF armed
  <2>3. Kept(moded)
    <3>1. Kept([armed EXCEPT !.control_mode = "INIT"])
      BY <2>2 DEF UType, Modes
    <3>2. \A mode \in {"RC_CONTROL", "CMD_CONTROL"} : Kept(SetOffboardControl(armed, mode, TRUE))
      BY <2>2, OffboardType, OffboardMission DEF Modes, SameMission
    <3> HIDE DEF Kept
    <3> QED
      BY <2>1, <2>2, <3>1, <3>2 DEF RcMsgType
  <2> HIDE DEF moded
  <2>4. Kept(landed)
    BY <2>3, SetLandType, LandMission DEF SameMission
  <2> HIDE DEF landed
  <2>5. Kept(sent)
    BY <2>4, StopType DEF EmergencyStop, UType
  <2>6. Finish(sent)
    BY <1>3 DEF RcStateCallback, sent, landed, moded, armed
  <2> HIDE DEF sent
  <2> QED
    BY <2>5, <2>6, FinishMission
<1>4. ASSUME NEW c \in Cmds, ControlCmdCallback(c)
      PROVE  u'.wp_index = u.wp_index /\ u'.wp_state = u.wp_state
  BY <1>1, <1>4 DEF ControlCmdCallback, Stamp, UType
<1>5. ASSUME NEW req \in Setups, UavSetupCallback(req)
      PROVE  u'.wp_index = u.wp_index /\ u'.wp_state = u.wp_state
  <2> DEFINE sent == CASE req.cmd = "ARM"            -> [Begin EXCEPT !.arm = {TRUE}]
                       [] req.cmd = "DISARM"         -> [Begin EXCEPT !.arm = {FALSE}]
                       [] req.cmd = "SET_PX4_MODE"   -> [Begin EXCEPT !.modes = {req.px4_mode}]
                       [] req.cmd = "REBOOT_PX4"     -> Begin
                       [] req.cmd = "EMERGENCY_KILL" -> EmergencyStop(Begin)
                       [] req.cmd = "SET_CONTROL_MODE" -> SetControlMode(req.control_mode)
             Kept(v) == v \in UType /\ v.wp_index = u.wp_index /\ v.wp_state = u.wp_state
  <2>1. req \in SetupType
    BY ConstantsAssumption DEF ConstantsAssumption
  <2>2. /\ Kept(Begin) /\ Kept([Begin EXCEPT !.arm = {TRUE}])
        /\ Kept([Begin EXCEPT !.arm = {FALSE}])
        /\ \A m \in Modes : Kept([Begin EXCEPT !.control_mode = m])
    BY <1>1 DEF UType
  <2>3. Kept(EmergencyStop(Begin))
    BY <1>1, StopType DEF EmergencyStop, UType
  <2>4. ASSUME req.cmd = "SET_PX4_MODE"
        PROVE  Kept([Begin EXCEPT !.modes = {req.px4_mode}])
    <3>1. req.px4_mode \in FcModes
      BY <2>1, <2>4 DEF SetupType
    <3> QED
      BY <1>1, <3>1 DEF UType
  <2>5. ASSUME req.cmd = "SET_CONTROL_MODE"
        PROVE  Kept(SetControlMode(req.control_mode))
    <3>1. req.control_mode \in Modes
      BY <2>1, <2>5 DEF SetupType
    <3>2. Kept(SetLand(Begin))
      BY <1>1, SetLandType, LandMission DEF SameMission
    <3>3. \A m \in Modes : Kept(SetOffboardControl(Begin, m, get_rc_signal))
      BY <1>1, OffboardType, OffboardMission DEF SameMission
    <3> HIDE DEF Kept
    <3> QED
      BY <2>2, <3>1, <3>2, <3>3 DEF SetControlMode, Modes
  <2>6. Kept(sent)
    <3> HIDE DEF Kept
    <3> QED
      BY <2>1, <2>2, <2>3, <2>4, <2>5 DEF SetupType
  <2>7. Finish(sent)
    BY <1>5 DEF UavSetupCallback
  <2> HIDE DEF sent
  <2> QED
    BY <2>6, <2>7, FinishMission
<1>6. CASE Environment
  <2>1. u' \in {Begin, [Begin EXCEPT !.land_timer = "expired"],
                [Begin EXCEPT !.cmd_old = TRUE], [Begin EXCEPT !.wp_late = TRUE]}
    BY <1>6 DEF Environment, RcSilence, LandTimerExpires, CmdExpires, WpExpires, FcArming,
                FcMode, Descend, Move, FcChanges, OdomChanges
  <2> QED
    BY <1>1, <2>1 DEF UType
<1>7. CASE UNCHANGED vars
  BY <1>7 DEF vars
<1> QED
  BY <1>2, <1>3, <1>4, <1>5, <1>6, <1>7 DEF Next

\* The missions the ground station uploads have the same number of points.  With a
\* second upload of another length the properties below are false: WaypointCallback
\* replaces the mission and keeps how far the last one came.
MissionsAlike == \A a, b \in Missions : a.num = b.num

MissionInv == /\ PointsFlown(u)
              /\ mission = NoMission \/ mission \in Missions

\* The loop arms the vehicle on its own only in the launch of a mission with a takeoff,
\* in CMD_CONTROL, once OFFBOARD has been asked for.
THEOREM ArmsToLaunch == Spec => ArmsOnlyToLaunch
<1>1. TypeOK /\ [Next]_vars => [MainLoop /\ ~fc.armed /\ fc'.armed
       => /\ u.control_mode = "CMD_CONTROL" /\ u'.cmd = "Waypoint"
          /\ mission.init /\ mission.takeoff /\ u'.wp_state = 1]_vars
  BY LoopMission DEF Launching
<1> QED
  BY <1>1, TypeCorrect, PTL DEF Spec, ArmsOnlyToLaunch

\* What is known of a mission under way: past its points, waypoint_mission has counted all
\* of them.
THEOREM MissionInvariant == ASSUME MissionsAlike PROVE Spec => []MissionInv
<1>1. Init => MissionInv
  BY DEF Init, MissionInv, PointsFlown
<1>2. TypeOK /\ MissionInv /\ [Next]_vars => MissionInv'
  <2> SUFFICES ASSUME TypeOK, MissionInv, [Next]_vars
               PROVE  MissionInv'
    OBVIOUS
  <2>1. CASE MainLoop
    <3>1. mission' = mission
      BY <2>1 DEF MainLoop, LoopInit, LoopWithout, LoopRc, LoopLand, LoopCmd, Iterate
    <3> QED
      BY <2>1, <3>1, LoopMission DEF MissionInv
  <2>2. ASSUME NEW m \in Missions, WaypointCallback(m), ~MainLoop
        PROVE  MissionInv'
    <3>1. mission' = m /\ u'.wp_index = u.wp_index /\ u'.wp_state = u.wp_state
      BY <2>2, OthersLeaveMission DEF WaypointCallback, Next
    <3>2. m.init
      BY ConstantsAssumption DEF ConstantsAssumption
    <3>3. PointsFlown(u)'
      BY <3>1, <3>2 DEF MissionInv, PointsFlown, MissionsAlike, NoMission
    <3> QED
      BY <3>1, <3>3 DEF MissionInv
  <2>3. CASE ~MainLoop /\ ~(\E m \in Missions : WaypointCallback(m))
    <3>1. u'.wp_index = u.wp_index /\ u'.wp_state = u.wp_state
      BY <2>3, OthersLeaveMission
    <3>2. mission' = mission
      BY <2>3, MissionKept
    <3> QED
      BY <3>1, <3>2 DEF MissionInv, PointsFlown
  <2> QED
    BY <2>1, <2>2, <2>3
<1> QED
  BY <1>1, <1>2, TypeCorrect, PTL DEF Spec

\* A mission asks to land only after its last waypoint.
THEOREM MissionSafe == ASSUME MissionsAlike PROVE Spec => MissionLandsAfterLastPoint
<1>1. TypeOK /\ MissionInv /\ [Next]_vars
        => [MainLoop /\ u.cmd = "Waypoint" /\ u'.cmd = "Land" => u.wp_index >= mission.num]_vars
  BY LoopMission DEF MissionInv, PointsFlown
<1> QED
  BY <1>1, TypeCorrect, MissionInvariant, PTL DEF Spec, MissionLandsAfterLastPoint
=============================================================================
