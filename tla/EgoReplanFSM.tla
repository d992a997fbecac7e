---------------------------- MODULE EgoReplanFSM ----------------------------
(***************************************************************************)
(* The EGO planner's state machine (ego_replan_fsm.cpp): the 10 ms exec    *)
(* timer, the 50 ms safety timer and the subscriptions, all callbacks of   *)
(* one thread.  A new goal that finds no trajectory being flown waits in a *)
(* loop that spins: the callbacks nest.  Geometry is abstracted: a plan is *)
(* known by the goal it leads to, time by its position in the trajectory   *)
(* and the optimiser by whether it succeeds.  What only shapes its first   *)
(* guess (have_new_target_, continously_called_times_) is left out.        *)
(***************************************************************************)
EXTENDS Naturals, Sequences, SequencesExt

CONSTANTS
  Goals,        \* places to fly to
  UserGoals,    \* those a user may send
  Presets,      \* the waypoint lists of the parameters; <<>> for MANUAL_TARGET
  RealWorld,    \* flag_realworld_experiment_
  Follower,     \* pp_.drone_id >= 1
  Unset,        \* an uninitialized position
  OnTheWay,     \* a local target short of the goal
  QueueSize,    \* of planning/bspline: 10 in the code
  MaxWaits      \* bound: nested waits explored

ASSUME EgoAssumption ==
  /\ QueueSize \in Nat \ {0}
  /\ {RealWorld, Follower} \subseteq BOOLEAN /\ MaxWaits \in Nat
  /\ UserGoals \subseteq Goals /\ Presets \subseteq Seq(Goals) /\ {Unset, OnTheWay} \cap Goals = {}

VARIABLES
  exec_state_, have_odom_, have_target_, have_trigger_, have_recv_pre_agent_,
  flag_escape_emergency_, enable_fail_safe_, wp_id_, end_pt_, local_target_pt_,
  slow,           \* odom_vel_ is below 0.1
  depth_lost,     \* flag_depth_odom_timeout_ of the map
  local_data_,    \* the last trajectory: a plan or a stop
  local_t,        \* where now is in it
  wps_,           \* the waypoints, <<>> for MANUAL_TARGET
  waits,          \* loops of planNextWaypoint on the stack
  bspline         \* planning/bspline: trajectories the server has not taken

inputs == <<wps_, have_odom_, have_recv_pre_agent_, slow, depth_lost>>
wants == <<have_target_, have_trigger_, wp_id_, end_pt_>>
trajectory == <<local_data_, local_t, local_target_pt_, bspline>>
emergency == <<flag_escape_emergency_, enable_fail_safe_>>
egoVars == <<exec_state_, inputs, wants, trajectory, emergency, waits>>

PRESET_TARGET == wps_ # <<>>
States == {"INIT", "WAIT_TARGET", "GEN_NEW_TRAJ", "REPLAN_TRAJ", "EXEC_TRAJ", "EMERGENCY_STOP", "SEQUENTIAL_START"}
Points == Goals \union {Unset}
NoTraj == [kind |-> "none", to |-> Unset]
Trajs == [kind : {"plan", "stop"}, to : Points]

\* "fresh" is up to replan_thresh_, "over" from 10 ms before the end.
Times == {"fresh", "due", "over"}

EgoTypeOK ==
  /\ exec_state_ \in States
  /\ {have_odom_, have_target_, have_trigger_, have_recv_pre_agent_, slow, depth_lost,
      flag_escape_emergency_, enable_fail_safe_} \subseteq BOOLEAN
  /\ wps_ \in Presets /\ wp_id_ \in 0 .. Len(wps_)
  /\ end_pt_ \in Points /\ local_target_pt_ \in Points \union {OnTheWay}
  /\ local_data_ \in Trajs \union {NoTraj} /\ local_t \in Times
  /\ waits \in 0 .. MaxWaits
  /\ bspline \in Seq(Trajs) /\ Len(bspline) <= QueueSize

\* flag_escape_emergency_ is uninitialized.
EgoInit ==
  /\ exec_state_ = "INIT" /\ flag_escape_emergency_ \in BOOLEAN
  /\ have_odom_ = FALSE /\ have_target_ = FALSE /\ have_trigger_ = ~RealWorld
  /\ have_recv_pre_agent_ = FALSE /\ enable_fail_safe_ = TRUE
  /\ wps_ \in Presets /\ wp_id_ = 0 /\ end_pt_ = Unset /\ local_target_pt_ = Unset
  /\ slow = TRUE /\ depth_lost = FALSE
  /\ local_data_ = NoTraj /\ local_t = "over"
  /\ waits = 0 /\ bspline = <<>>

(***************************************************************************)
(* Planning.                                                               *)
(***************************************************************************)

\* publish: a full queue loses its oldest message.
Publish(t) ==
  bspline' = Append(IF Len(bspline) = QueueSize THEN Tail(bspline) ELSE bspline, t)

\* updateTrajInfo.
NewTraj(kind) ==
  /\ local_data_' = [kind |-> kind, to |-> end_pt_]
  /\ local_t' = "fresh"

\* The optimiser: a new plan, or nothing.
reboundReplan(ok) == IF ok THEN NewTraj("plan") ELSE UNCHANGED <<local_data_, local_t>>

getLocalTarget == local_target_pt_' \in {end_pt_, OnTheWay}

\* callReboundReplan, tried until it succeeds or the trials are used up
\* (planFromGlobalTraj, planFromCurrentTraj).
callReboundReplan(ok) ==
  /\ getLocalTarget /\ reboundReplan(ok)
  /\ IF ok THEN Publish(local_data_') ELSE UNCHANGED bspline

\* Mutant of callEmergencyStop: the stop is kept and not published.
StopUnpublished ==
  NewTraj("stop") /\ UNCHANGED <<local_target_pt_, bspline>>

callEmergencyStop ==
  /\ NewTraj("stop") /\ Publish(local_data_')
  /\ UNCHANGED local_target_pt_

\* Mutant of planNextWaypoint: a goal in WAIT_TARGET waits as well.
AlwaysWaits(p) ==
  /\ end_pt_' = p /\ have_target_' = TRUE
  /\ IF exec_state_ = "EXEC_TRAJ"
     THEN exec_state_' = "REPLAN_TRAJ" /\ UNCHANGED waits
     ELSE waits < MaxWaits /\ waits' = waits + 1 /\ UNCHANGED exec_state_

\* planNextWaypoint, from the state it is called in: the last conjunct is its loop,
\* entered unless a trajectory is being flown.
planNextWaypoint(p) ==
  /\ end_pt_' = p /\ have_target_' = TRUE
  /\ CASE exec_state_ = "WAIT_TARGET" -> exec_state_' = "GEN_NEW_TRAJ" /\ UNCHANGED waits
       [] exec_state_ = "EXEC_TRAJ"   -> exec_state_' = "REPLAN_TRAJ" /\ UNCHANGED waits
       [] OTHER -> waits < MaxWaits /\ waits' = waits + 1 /\ UNCHANGED exec_state_

\* The loop sees EXEC_TRAJ after a spin.
LoopEnds ==
  /\ waits > 0 /\ exec_state_ = "EXEC_TRAJ"
  /\ waits' = waits - 1 /\ exec_state_' = "REPLAN_TRAJ"
  /\ UNCHANGED <<inputs, wants, trajectory, emergency>>

(***************************************************************************)
(* Subscriptions.                                                          *)
(***************************************************************************)

\* A goal above -0.1 m; its height is the odometry's, whatever that is before the first
\* message.
waypointCallback(g) ==
  /\ ~PRESET_TARGET
  /\ planNextWaypoint(IF have_odom_ THEN g ELSE Unset)
  /\ UNCHANGED <<inputs, have_trigger_, wp_id_, trajectory, emergency>>

triggerCallback ==
  /\ PRESET_TARGET /\ have_trigger_' = TRUE
  /\ UNCHANGED <<exec_state_, inputs, have_target_, wp_id_, end_pt_, trajectory, emergency, waits>>

\* The end of init for preset targets.
readGivenWps ==
  /\ PRESET_TARGET /\ wp_id_ = 0 /\ have_odom_ /\ have_trigger_
  /\ wp_id_' = 1 /\ planNextWaypoint(wps_[1])
  /\ UNCHANGED <<inputs, have_trigger_, trajectory, emergency>>

odometryCallback(s) ==
  /\ have_odom_' = TRUE /\ slow' = s
  /\ UNCHANGED <<exec_state_, wps_, have_recv_pre_agent_, depth_lost, wants, trajectory, emergency, waits>>

swarmTrajsCallback ==
  /\ Follower /\ have_odom_ /\ have_recv_pre_agent_' = TRUE
  /\ UNCHANGED <<exec_state_, wps_, have_odom_, slow, depth_lost, wants, trajectory, emergency, waits>>

\* Mutant of BroadcastBsplineCallback: another vehicle's plan is looked at before the first own plan.
BroadcastAnyTime(collide) ==
  /\ collide /\ exec_state_' = "REPLAN_TRAJ"
  /\ UNCHANGED <<inputs, wants, trajectory, emergency, waits>>

\* Another vehicle's trajectory: collide is checkCollision's answer, FALSE before the
\* first plan.
BroadcastBsplineCallback(collide) ==
  /\ local_data_ # NoTraj /\ collide
  /\ exec_state_' = "REPLAN_TRAJ"
  /\ UNCHANGED <<inputs, wants, trajectory, emergency, waits>>

\* The map has had no depth image for a second; the flag is never cleared.
updateOccupancyCallback ==
  /\ depth_lost' = TRUE
  /\ UNCHANGED <<exec_state_, wps_, have_odom_, have_recv_pre_agent_, slow, wants, trajectory, emergency, waits>>

(***************************************************************************)
(* execFSMCallback, by state.                                              *)
(***************************************************************************)
ExecInit ==
  /\ exec_state_ = "INIT" /\ have_odom_
  /\ exec_state_' = "WAIT_TARGET"
  /\ UNCHANGED <<inputs, wants, trajectory, emergency, waits>>

ExecWaitTarget ==
  /\ exec_state_ = "WAIT_TARGET" /\ have_target_ /\ have_trigger_
  /\ exec_state_' = "SEQUENTIAL_START"
  /\ UNCHANGED <<inputs, wants, trajectory, emergency, waits>>

ExecSequentialStart(ok) ==
  /\ exec_state_ = "SEQUENTIAL_START"
  /\ Follower => have_recv_pre_agent_
  /\ have_odom_ /\ have_target_ /\ have_trigger_
  /\ callReboundReplan(ok)
  /\ exec_state_' = (IF ok THEN "EXEC_TRAJ" ELSE "SEQUENTIAL_START")
  /\ UNCHANGED <<inputs, wants, emergency, waits>>

ExecGenNewTraj(ok) ==
  /\ exec_state_ = "GEN_NEW_TRAJ"
  /\ callReboundReplan(ok)
  /\ exec_state_' = (IF ok THEN "EXEC_TRAJ" ELSE "GEN_NEW_TRAJ")
  /\ flag_escape_emergency_' = (ok \/ flag_escape_emergency_)
  /\ UNCHANGED <<inputs, wants, enable_fail_safe_, waits>>

ExecReplanTraj(ok) ==
  /\ exec_state_ = "REPLAN_TRAJ"
  /\ callReboundReplan(ok)
  /\ exec_state_' = (IF ok THEN "EXEC_TRAJ" ELSE "REPLAN_TRAJ")
  /\ UNCHANGED <<inputs, wants, emergency, waits>>

\* Near enough to a preset waypoint that has a successor.
NextWaypoint ==
  /\ exec_state_ = "EXEC_TRAJ" /\ wp_id_ < Len(wps_)
  /\ wp_id_' = wp_id_ + 1 /\ planNextWaypoint(wps_[wp_id_ + 1])
  /\ UNCHANGED <<inputs, have_trigger_, trajectory, emergency>>

\* Mutant of Reached: the time is not looked at.
ReachedEarly ==
  /\ exec_state_ = "EXEC_TRAJ" /\ local_target_pt_ = end_pt_
  /\ have_trigger_' = FALSE /\ exec_state_' = "WAIT_TARGET"
  /\ IF PRESET_TARGET
     THEN have_target_' = TRUE /\ wp_id_' = 1 /\ end_pt_' = wps_[1]
     ELSE have_target_' = FALSE /\ UNCHANGED <<wp_id_, end_pt_>>
  /\ UNCHANGED <<inputs, trajectory, emergency, waits>>

\* The end of the last trajectory: with preset waypoints the round begins again at the
\* next trigger.
Reached ==
  /\ exec_state_ = "EXEC_TRAJ"
  /\ local_target_pt_ = end_pt_ /\ local_t = "over"
  /\ have_trigger_' = FALSE /\ exec_state_' = "WAIT_TARGET"
  /\ IF PRESET_TARGET
     THEN have_target_' = TRUE /\ wp_id_' = 1 /\ end_pt_' = wps_[1]
     ELSE have_target_' = FALSE /\ UNCHANGED <<wp_id_, end_pt_>>
  /\ UNCHANGED <<inputs, trajectory, emergency, waits>>

\* A replan is due; towards the last local target only while the goal is far.
TimeToReplan ==
  /\ exec_state_ = "EXEC_TRAJ" /\ local_t # "fresh"
  /\ local_target_pt_ = end_pt_ => local_t # "over"
  /\ exec_state_' = "REPLAN_TRAJ"
  /\ UNCHANGED <<inputs, wants, trajectory, emergency, waits>>

\* Mutant of ExecEmergencyStop: the stop is repeated.
StopRepeated ==
  /\ exec_state_ = "EMERGENCY_STOP"
  /\ \/ flag_escape_emergency_ /\ callEmergencyStop /\ UNCHANGED exec_state_
     \/ /\ ~flag_escape_emergency_ /\ UNCHANGED trajectory
        /\ exec_state_' = (IF enable_fail_safe_ /\ slow THEN "GEN_NEW_TRAJ" ELSE "EMERGENCY_STOP")
  /\ UNCHANGED <<inputs, wants, emergency, waits>>

\* EMERGENCY_STOP: the stop once, then a new plan when the vehicle stands.
ExecEmergencyStop ==
  /\ exec_state_ = "EMERGENCY_STOP"
  /\ flag_escape_emergency_' = FALSE
  /\ \/ flag_escape_emergency_ /\ callEmergencyStop /\ UNCHANGED exec_state_
     \/ /\ ~flag_escape_emergency_ /\ UNCHANGED trajectory
        /\ exec_state_' = (IF enable_fail_safe_ /\ slow THEN "GEN_NEW_TRAJ" ELSE "EMERGENCY_STOP")
  /\ UNCHANGED <<inputs, wants, enable_fail_safe_, waits>>

(***************************************************************************)
(* checkCollisionCallback.  hit is where it finds the rest of the          *)
(* trajectory blocked; ok is planFromCurrentTraj's answer.                 *)
(***************************************************************************)
Hits == {"none", "soon", "later"}

\* Mutant of checkCollisionCallback: the map is checked before the first plan too.
CheckWithoutPlan(hit, ok) ==
  /\ exec_state_ # "WAIT_TARGET" /\ hit = "none" /\ ~ok
  /\ enable_fail_safe_' = (enable_fail_safe_ /\ ~depth_lost)
  /\ exec_state_' = (IF depth_lost THEN "EMERGENCY_STOP" ELSE exec_state_)
  /\ UNCHANGED <<inputs, wants, flag_escape_emergency_, waits, trajectory>>

checkCollisionCallback(hit, ok) ==
  /\ exec_state_ # "WAIT_TARGET" /\ local_data_ # NoTraj
  /\ hit # "none" => local_t # "over"
  /\ hit = "later" => local_data_.kind = "plan"
  /\ enable_fail_safe_' = (enable_fail_safe_ /\ ~depth_lost)
  /\ IF hit = "none"
     THEN /\ exec_state_' = (IF depth_lost THEN "EMERGENCY_STOP" ELSE exec_state_)
          /\ UNCHANGED trajectory
     ELSE /\ callReboundReplan(ok)
          /\ exec_state_' = (CASE ok -> "EXEC_TRAJ"
                               [] ~ok /\ hit = "soon" -> "EMERGENCY_STOP"
                               [] ~ok /\ hit = "later" -> "REPLAN_TRAJ")
  /\ UNCHANGED <<inputs, wants, flag_escape_emergency_, waits>>
=============================================================================
