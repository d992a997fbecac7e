-------------------------- MODULE FormationControl --------------------------
(***************************************************************************)
(* One vehicle's formation node (formation_control.cpp): orders from the   *)
(* terminal or the ground station, goals published to the vehicle's ORCA   *)
(* node, and ORCA's commands forwarded to the vehicle's controller.  A     *)
(* place is a pair of a name and an index.                                 *)
(***************************************************************************)
EXTENDS Naturals, Sequences, SequencesExt

CONSTANTS
  Agents,         \* the launch parameters explored: [type, id], 0 a UAV and 1 a UGV
  LeaderId,       \* leader_id: above 100 the leader is a UGV
  Orders,         \* the orders and formation types sent
  UserGoals,      \* the places a user sends on /goal_<id>
  DynamicType,    \* dynamic_type: 0 reads a path, 1 computes it
  Static,         \* this vehicle's place in the static formation
  Path, Waypoints, \* the points of a path and of the leader's round
  InitIdx,        \* init_idx: where this vehicle joins a path that is read
  LeaderPlaces,   \* the names of the places the leader stands at
  NoOrcaCmd, Origin

ASSUME FormationAssumption ==
  /\ Path \in Seq(ToSet(Path)) /\ Waypoints \in Seq(ToSet(Waypoints))
  /\ Path # <<>> /\ Waypoints # <<>> /\ InitIdx \in 0 .. Len(Path) - 1
  /\ DynamicType \in {0, 1} /\ LeaderId \in Nat

VARIABLES
  me,                                     \* agent_type and agent_id
  state, formation_type, now_idx, first_dynamic,
  home_set, home_pose,
  orca_setup, setup_pending,              \* the last goal published, and whether ORCA has it
  arrived_at,                             \* orca_cmd: where ORCA reports to be, or Origin
  orca_age,                               \* checks since orca_cmd_time, up to 2
  takeoff_time,                           \* periods of 5 s since mode_takeoff_time, up to 4
  uav_cmd,                                \* the last command to the controller
  in_cmd, armed,                          \* uav_state: in CMD_CONTROL, armed
  leader_pose

orders == <<state, formation_type, now_idx, first_dynamic, takeoff_time>>
homes == <<home_set, home_pose>>
uav_state == <<in_cmd, armed>>
setups == <<orca_setup, setup_pending>>
formationVars == <<me, orders, homes, setups, arrived_at, orca_age, uav_cmd, uav_state, leader_pose>>

States == {"INIT", "TAKEOFF", "LAND", "HOVER", "FORMATION"}
Types == {"GOAL", "STATIC", "DYNAMIC", "LEADER"}

At(points, i) == points[1 + (i % Len(points))]
Home(i) == <<"home", i>>

FormationInit ==
  /\ me \in Agents
  /\ state = "INIT" /\ formation_type = "GOAL" /\ now_idx = 0 /\ first_dynamic = FALSE
  /\ takeoff_time = 0 /\ home_set = FALSE /\ home_pose = Origin
  /\ orca_setup = [cmd |-> "GOAL", goal |-> Origin] /\ setup_pending = FALSE
  /\ arrived_at = Origin /\ orca_age = 0
  /\ uav_cmd = [kind |-> "none", goal |-> Origin]
  /\ in_cmd \in BOOLEAN /\ armed = in_cmd
  /\ leader_pose = Origin[1]

\* ORCA's queue holds one setup: an older one is replaced.
Publish(cmd, goal) == orca_setup' = [cmd |-> cmd, goal |-> goal] /\ setup_pending' = TRUE
Fly(kind, goal) == uav_cmd' = [kind |-> kind, goal |-> goal]
Send(kind) == Fly(kind, Origin)

set_home(at) == home_set' = TRUE /\ home_pose' = at

----------------------------------------------------------------------------
\* FORMATION with a type; a type that is none of the three resumes the last.
FormationOrder(type) ==
  /\ state' = "FORMATION"
  /\ formation_type' = IF type = "GOAL" THEN formation_type ELSE type
  /\ IF type = "STATIC" THEN Publish("GOAL_RUN", Static) ELSE UNCHANGED setups
  /\ now_idx' = (CASE type = "DYNAMIC" -> IF DynamicType = 1 THEN 0 ELSE InitIdx
                   [] type = "LEADER" -> 0
                   [] OTHER -> now_idx)
  /\ first_dynamic' = (first_dynamic \/ type = "DYNAMIC")
  /\ UNCHANGED <<takeoff_time, homes>>

formation_cmd_callback(order, at) ==
  /\ \/ order \in Types /\ FormationOrder(order)
     \/ /\ order \in {"TAKEOFF", "LAND", "HOVER"}
        /\ state' = order /\ takeoff_time' = 0
        /\ UNCHANGED <<formation_type, now_idx, first_dynamic, homes, setups>>
     \/ order = "SET_HOME" /\ set_home(at) /\ UNCHANGED <<orders, setups>>
     \/ /\ order = "RETURN_HOME" /\ home_set
        /\ state' = "FORMATION" /\ formation_type' = "GOAL"
        /\ Publish("GOAL_RUN", home_pose)
        /\ UNCHANGED <<now_idx, first_dynamic, takeoff_time, homes>>
  /\ UNCHANGED <<me, arrived_at, orca_age, uav_cmd, uav_state, leader_pose>>

goal_callback(place) ==
  /\ state' = "FORMATION" /\ formation_type' = "GOAL"
  /\ Publish("GOAL_RUN", place)
  /\ UNCHANGED <<me, now_idx, first_dynamic, takeoff_time, homes, arrived_at, orca_age,
                 uav_cmd, uav_state, leader_pose>>

uav_leader_callback(place) ==
  /\ leader_pose' = place
  /\ UNCHANGED <<me, orders, homes, setups, arrived_at, orca_age, uav_cmd, uav_state>>

\* ORCA's velocity towards the goal, its position once arrived; nothing while INIT.  Of
\* orca_cmd what is kept is the place an arrival is at.
orca_cmd_callback(msg) ==
  /\ arrived_at' = (IF msg.state = "ARRIVED" THEN msg.goal ELSE Origin) /\ orca_age' = 0
  /\ \/ state = "FORMATION" /\ msg.state = "RUN" /\ Fly("velocity", msg.goal)
     \/ state = "FORMATION" /\ msg.state = "ARRIVED" /\ Fly("position", msg.goal)
     \/ (state # "FORMATION" \/ msg.state = "INIT") /\ UNCHANGED uav_cmd
  /\ UNCHANGED <<me, orders, homes, setups, uav_state, leader_pose>>

----------------------------------------------------------------------------
(* The 10 Hz timer.                                                        *)

\* The ready point is published until 10 s have passed.  Indices are kept modulo the
\* path, which is how both kinds of path use them.
DynamicPub ==
  \E waited \in IF first_dynamic THEN BOOLEAN ELSE {FALSE} :
    LET ready == IF DynamicType = 1 THEN 0 ELSE InitIdx
        idx == IF waited THEN ready ELSE now_idx
        first == first_dynamic /\ ~waited
    IN  /\ formation_type = "DYNAMIC"
        /\ Publish("GOAL_RUN", At(Path, idx))
        /\ first_dynamic' = first
        /\ now_idx' = IF first THEN idx ELSE (idx + 1) % Len(Path)

IsLeader == \/ me.type = 0 /\ me.id = LeaderId
            \/ me.type = 1 /\ me.id + 100 = LeaderId

\* Mutant of LeaderPub: the arrival is not compared with the waypoint.
LeaderPubAnyArrival ==
  /\ formation_type = "LEADER" /\ IsLeader
  /\ Publish("GOAL_RUN", At(Waypoints, now_idx))
  /\ now_idx' = IF arrived_at # Origin THEN (now_idx + 1) % Len(Waypoints) ELSE now_idx
  /\ UNCHANGED first_dynamic

LeaderPub ==
  /\ formation_type = "LEADER" /\ IsLeader
  /\ Publish("GOAL_RUN", At(Waypoints, now_idx))
  /\ now_idx' = IF arrived_at = At(Waypoints, now_idx)
                THEN (now_idx + 1) % Len(Waypoints) ELSE now_idx
  /\ UNCHANGED first_dynamic

\* The second test of "agent_id > leader_id" was meant for the smaller ids: they fall
\* through to 0.
FollowerIndex ==
  CASE LeaderId > 100 /\ (me.type = 0 \/ me.id + 100 < LeaderId) -> me.id
    [] LeaderId > 100 -> me.id - 1
    [] LeaderId <= 100 /\ me.type = 1 -> me.id
    [] LeaderId <= 100 /\ me.type = 0 /\ me.id > LeaderId -> me.id - 1
    [] OTHER -> 0

\* Eight places around the leader; any other index is the leader's own.
calculateFollowerPosition(i) == <<leader_pose, IF i \in 1 .. 8 THEN i ELSE 0>>

FollowerPub ==
  /\ formation_type = "LEADER" /\ ~IsLeader
  /\ Publish("GOAL_RUN", calculateFollowerPosition(FollowerIndex))
  /\ UNCHANGED <<now_idx, first_dynamic>>

timer_dynamic_formation ==
  /\ state = "FORMATION"
  /\ DynamicPub \/ LeaderPub \/ FollowerPub
  /\ UNCHANGED <<me, state, formation_type, takeoff_time, homes, arrived_at, orca_age,
                 uav_cmd, uav_state, leader_pose>>

----------------------------------------------------------------------------
(* The 1 Hz check (agent_mode_check).                                      *)

\* More than 1.5 s since orca_cmd_time: open at the second check after it.
OrcaLost == CASE orca_age = 0 -> {FALSE} [] orca_age = 1 -> BOOLEAN [] OTHER -> {TRUE}

GiveUp == state' = "INIT" /\ UNCHANGED <<uav_cmd, uav_state, setups, homes>>

\* What the controller is asked for it does or refuses (external).
Asked(in, arm) ==
  /\ in_cmd' \in {in_cmd, in} /\ armed' \in {armed, arm}
  /\ UNCHANGED <<uav_cmd, setups, homes>>

\* Switch to CMD_CONTROL, arm, take off and tell ORCA where that was, each in its 5 s.
ModeTakeoff(at) ==
  /\ state = "TAKEOFF" /\ me.type = 0
  /\ \/ takeoff_time = 0 /\ ~in_cmd /\ Asked(TRUE, armed) /\ UNCHANGED state
     \/ takeoff_time = 1 /\ ~armed /\ ~in_cmd /\ GiveUp
     \/ takeoff_time = 1 /\ ~armed /\ in_cmd /\ Asked(in_cmd, TRUE) /\ UNCHANGED state
     \/ takeoff_time = 2 /\ ~armed /\ GiveUp
     \/ /\ takeoff_time = 2 /\ armed
        /\ Send("takeoff") /\ UNCHANGED <<state, uav_state, setups, homes>>
     \/ /\ takeoff_time = 3 /\ in_cmd /\ armed
        /\ set_home(at) /\ Publish("GOAL", at)
        /\ state' = "INIT" /\ UNCHANGED <<uav_cmd, uav_state>>
     \/ /\ \/ takeoff_time = 0 /\ in_cmd
           \/ takeoff_time = 1 /\ armed
           \/ takeoff_time = 3 /\ ~(in_cmd /\ armed)
           \/ takeoff_time = 4
        /\ UNCHANGED <<state, uav_cmd, uav_state, setups, homes>>

ModeLand ==
  /\ state = "LAND" /\ me.type = 0
  /\ Asked(FALSE, FALSE) /\ state' = "INIT"

\* Mutant of ModeHover: only the state changes.
HoverUnsent(lost) ==
  /\ state = "HOVER" \/ (state = "FORMATION" /\ lost)
  /\ state' = "INIT"
  /\ UNCHANGED <<uav_cmd, uav_state, setups, homes>>

\* A silent ORCA turns FORMATION into HOVER, which is carried out at once.
ModeHover(lost) ==
  /\ state = "HOVER" \/ (state = "FORMATION" /\ lost)
  /\ Send("hover") /\ state' = "INIT"
  /\ UNCHANGED <<uav_state, setups, homes>>

ModeNothing(lost) ==
  /\ \/ state = "INIT" \/ (state = "FORMATION" /\ ~lost)
     \/ state \in {"TAKEOFF", "LAND"} /\ me.type = 1
  /\ UNCHANGED <<state, uav_cmd, uav_state, setups, homes>>

\* orca_heard: a message has come since the last check.
agent_mode_check(at, orca_heard) ==
  /\ \E lost \in OrcaLost :
       ModeTakeoff(at) \/ ModeLand \/ ModeHover(lost) \/ ModeNothing(lost)
  /\ orca_age' = (IF orca_heard THEN 0 ELSE IF orca_age = 2 THEN 2 ELSE orca_age + 1)
  /\ takeoff_time' \in IF state # "TAKEOFF" THEN {0} ELSE {takeoff_time, IF takeoff_time = 4 THEN 4 ELSE takeoff_time + 1}
  /\ UNCHANGED <<me, formation_type, now_idx, first_dynamic, arrived_at, leader_pose>>
=============================================================================
