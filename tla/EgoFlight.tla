----------------------------- MODULE EgoFlight ------------------------------
(***************************************************************************)
(* The EGO planner, its trajectory server and the vehicle that follows it. *)
(***************************************************************************)
EXTENDS EgoReplanFSM

CONSTANT DepthFails      \* whether the depth camera may go silent

VARIABLES traj_, t_cur, pos_cmd

Server == INSTANCE TrajServer WITH NoTrajectory <- NoTraj

server == <<traj_, t_cur, pos_cmd>>
flightVars == <<egoVars, server>>

FlightInit == EgoInit /\ Server!ServerInit

\* Both nodes read one clock, and the newest trajectory is the planner's.
Later == [fresh |-> "due", due |-> "over", over |-> "over"]
Now(t) == IF t = "over" THEN "over" ELSE "within"
TimePasses ==
  /\ local_t' = Later[local_t]
  /\ IF bspline = <<>> THEN t_cur' = Now(local_t') ELSE t_cur' \in {t_cur, "over"}
  /\ UNCHANGED <<exec_state_, inputs, wants, emergency, waits,
                 local_data_, local_target_pt_, bspline, traj_, pos_cmd>>

ServerTakes ==
  /\ bspline # <<>>
  /\ \E t \in IF Len(bspline) = 1 THEN {Now(local_t)} ELSE {"within", "over"} :
       Server!bsplineCallback(Head(bspline), t)
  /\ bspline' = Tail(bspline)
  /\ UNCHANGED <<exec_state_, inputs, wants, emergency, waits,
                 local_data_, local_t, local_target_pt_>>

ServerSends == Server!cmdCallback /\ UNCHANGED egoVars

\* The vehicle follows the commands: it moves along a plan, and stands at the end of it
\* and in a stop.
moving == pos_cmd = "moving"
Odometry == odometryCallback(~moving) /\ UNCHANGED server

Exec ==
  \/ ExecInit \/ ExecWaitTarget \/ ExecEmergencyStop
  \/ NextWaypoint \/ Reached \/ TimeToReplan
  \/ \E ok \in BOOLEAN : \/ ExecSequentialStart(ok)
                         \/ ExecGenNewTraj(ok)
                         \/ ExecReplanTraj(ok)

Safety == \E hit \in Hits, ok \in BOOLEAN : checkCollisionCallback(hit, ok)

Planner ==
  \/ Exec \/ Safety \/ LoopEnds
  \/ \E g \in UserGoals : waypointCallback(g)
  \/ triggerCallback \/ readGivenWps \/ swarmTrajsCallback
  \/ BroadcastBsplineCallback(TRUE)
  \/ DepthFails /\ have_odom_ /\ updateOccupancyCallback

FlightNext ==
  \/ Planner /\ UNCHANGED server
  \/ Odometry \/ TimePasses \/ ServerTakes \/ ServerSends

FlightSpec == FlightInit /\ [][FlightNext]_flightVars

\* The timers and the subscriptions run, and the optimiser does not fail for ever.
PlanSucceeds == \/ ExecSequentialStart(TRUE) \/ ExecGenNewTraj(TRUE) \/ ExecReplanTraj(TRUE)
FairFlightSpec ==
  /\ FlightSpec
  /\ WF_flightVars(TimePasses) /\ WF_flightVars(ServerTakes) /\ WF_flightVars(ServerSends)
  /\ WF_flightVars(Odometry) /\ WF_flightVars(Exec /\ UNCHANGED server)
  /\ SF_flightVars(PlanSucceeds /\ UNCHANGED server)

(***************************************************************************)
(* Properties.                                                             *)
(***************************************************************************)
FlightTypeOK ==
  /\ EgoTypeOK
  /\ traj_ \in Trajs \union {NoTraj} /\ t_cur \in {"within", "over"}
  /\ pos_cmd \in {"none", "moving", "rest"}

\* The states that evaluate the last trajectory (execFSMCallback, planFromCurrentTraj) are
\* entered only when there is one, from whichever of the four callbacks.
PlanInHand ==
  exec_state_ \in {"REPLAN_TRAJ", "EXEC_TRAJ", "EMERGENCY_STOP"} => local_data_ # NoTraj

\* What the planner checks for collisions is what the server flies: the newest
\* trajectory that is published is the planner's own (callReboundReplan,
\* callEmergencyStop, bsplineCallback), even when the queue has lost some.
ServerFollowsPlan ==
  IF bspline = <<>> THEN traj_ = local_data_ ELSE Last(bspline) = local_data_

\* The safety check skips WAIT_TARGET (checkCollisionCallback): by then the trajectory
\* has been flown to its end.
UnwatchedAtRest == exec_state_ = "WAIT_TARGET" => local_t = "over"

\* A goal is planned for, or replaced, in whatever state and under however many nested
\* waits it arrives (waypointCallback, planNextWaypoint), once the predecessor's
\* trajectories are there and unless the depth camera is lost.
GoalIsPlanned ==
  \A g \in UserGoals :
    (/\ end_pt_ = g /\ have_target_
     /\ Follower => have_recv_pre_agent_
     /\ PRESET_TARGET /\ exec_state_ = "WAIT_TARGET" => have_trigger_)
      ~> (local_data_.to = g /\ local_data_.kind = "plan") \/ end_pt_ # g \/ ~enable_fail_safe_

\* An emergency with the fail-safe on ends: the vehicle comes to rest and the planner
\* notices (execFSMCallback, EMERGENCY_STOP).
EmergencyEnds ==
  exec_state_ = "EMERGENCY_STOP"
    ~> exec_state_ # "EMERGENCY_STOP" \/ ~enable_fail_safe_

(***************************************************************************)
(* What the source says of itself and does not do.                         *)
(***************************************************************************)

\* "Depth Lost! EMERGENCY_STOP" (checkCollisionCallback): no plan is published after it.
DepthLossStops ==
  [][~enable_fail_safe_ /\ exec_state_ = "EMERGENCY_STOP"
       => ~(local_data_' # local_data_ /\ local_data_'.kind = "plan")]_flightVars

\* "Suddenly discovered obstacles. emergency stop!" (checkCollisionCallback): in
\* EMERGENCY_STOP a plan that is being flown is replaced by a stop.
EmergencyStops ==
  [][ExecEmergencyStop /\ local_data_.kind = "plan" => local_data_'.kind = "stop"]_flightVars
=============================================================================
