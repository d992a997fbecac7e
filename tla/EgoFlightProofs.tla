--------------------------- MODULE EgoFlightProofs ---------------------------
(***************************************************************************)
(* The planner and its trajectory server are safe for any goals, waypoint  *)
(* lists, queue size and number of nested waits.                           *)
(***************************************************************************)
EXTENDS EgoFlight, TLAPS

\* Before the first odometry there is no trajectory.
NoPlanBefore == exec_state_ = "INIT" => local_data_ = NoTraj /\ local_t = "over"

\* The inductive invariant.
FlightInv ==
  FlightTypeOK /\ PlanInHand /\ ServerFollowsPlan /\ UnwatchedAtRest /\ NoPlanBefore

-----------------------------------------------------------------------------
(***************************************************************************)
(* What planning does to the trajectory and the queue.                     *)
(***************************************************************************)

LEMMA PublishType ==
  ASSUME EgoTypeOK, NEW t \in Trajs, Publish(t)
  PROVE  /\ bspline' \in Seq(Trajs) /\ Len(bspline') <= QueueSize
         /\ bspline' # <<>> /\ Last(bspline') = t
<1> DEFINE s == IF Len(bspline) = QueueSize THEN Tail(bspline) ELSE bspline
<1>1. QueueSize \in Nat \ {0}
  BY EgoAssumption
<1>2. s \in Seq(Trajs) /\ Len(s) < QueueSize
  BY <1>1 DEF EgoTypeOK
<1>3. bspline' = Append(s, t)
  BY DEF Publish
<1> HIDE DEF s
<1>4. QED
  BY <1>1, <1>2, <1>3 DEF Last

\* A new trajectory is published at once.
LEMMA NewTrajPublished ==
  ASSUME EgoTypeOK, NEW kind \in {"plan", "stop"}, NewTraj(kind), Publish(local_data_')
  PROVE  /\ local_data_' \in Trajs /\ local_data_'.kind = kind /\ local_data_' # NoTraj
         /\ local_t' \in Times
         /\ bspline' \in Seq(Trajs) /\ Len(bspline') <= QueueSize
         /\ bspline' # <<>> /\ Last(bspline') = local_data_'
<1>1. local_data_' = [kind |-> kind, to |-> end_pt_] /\ end_pt_ \in Points
  BY DEF NewTraj, EgoTypeOK
<1>2. local_data_' \in Trajs
  BY <1>1 DEF Trajs
<1>3. local_data_'.kind = kind
  BY <1>1
<1>4. local_data_' # NoTraj
  BY <1>3 DEF NoTraj
<1>5. local_t' \in Times
  BY DEF NewTraj, Times
<1>6. QED
  BY <1>2, <1>3, <1>4, <1>5, PublishType

\* A plan that succeeds is in hand and published, one that fails changes nothing.
LEMMA PlanOutcome ==
  ASSUME EgoTypeOK, ServerFollowsPlan, NEW ok \in BOOLEAN, callReboundReplan(ok),
         UNCHANGED traj_
  PROVE  /\ local_data_' \in Trajs \union {NoTraj} /\ local_t' \in Times
         /\ local_target_pt_' \in Points \union {OnTheWay}
         /\ bspline' \in Seq(Trajs) /\ Len(bspline') <= QueueSize
         /\ ok \/ local_data_ # NoTraj => local_data_' # NoTraj
         /\ ServerFollowsPlan'
<1>1. local_target_pt_' \in Points \union {OnTheWay}
  BY DEF callReboundReplan, getLocalTarget, EgoTypeOK
<1>2. CASE ok
  <2>1. NewTraj("plan") /\ Publish(local_data_')
    BY <1>2 DEF callReboundReplan, reboundReplan
  <2>2. QED
    BY <1>1, <2>1, NewTrajPublished DEF ServerFollowsPlan
<1>3. CASE ~ok
  <2>1. UNCHANGED <<local_data_, local_t, bspline>>
    BY <1>3 DEF callReboundReplan, reboundReplan
  <2>2. QED
    BY <1>1, <1>3, <2>1 DEF EgoTypeOK, ServerFollowsPlan
<1>4. QED
  BY <1>2, <1>3

LEMMA StopOutcome ==
  ASSUME EgoTypeOK, callEmergencyStop
  PROVE  /\ local_data_' \in Trajs /\ local_data_' # NoTraj /\ local_t' \in Times
         /\ local_target_pt_' = local_target_pt_
         /\ bspline' \in Seq(Trajs) /\ Len(bspline') <= QueueSize
         /\ ServerFollowsPlan'
<1>1. QED
  BY NewTrajPublished DEF callEmergencyStop, ServerFollowsPlan

\* A new goal: the state it leads to.
LEMMA NextGoal ==
  ASSUME EgoTypeOK, NEW p \in Points, planNextWaypoint(p)
  PROVE  /\ end_pt_' = p /\ have_target_' = TRUE /\ waits' \in 0 .. MaxWaits
         /\ \/ exec_state_ = "WAIT_TARGET" /\ exec_state_' = "GEN_NEW_TRAJ"
            \/ exec_state_ = "EXEC_TRAJ" /\ exec_state_' = "REPLAN_TRAJ"
            \/ exec_state_' = exec_state_
<1>1. MaxWaits \in Nat
  BY EgoAssumption
<1>2. QED
  BY <1>1 DEF planNextWaypoint, EgoTypeOK

-----------------------------------------------------------------------------
(***************************************************************************)
(* The planner's callbacks.                                                *)
(***************************************************************************)

\* A step that leaves the trajectory alone, and what it may do to the state.
LEMMA NoPlanning ==
  ASSUME FlightInv, UNCHANGED trajectory, UNCHANGED server, EgoTypeOK',
         exec_state_' = "INIT" => exec_state_ = "INIT",
         exec_state_' = "WAIT_TARGET" => exec_state_ = "WAIT_TARGET" \/ local_t = "over",
         exec_state_' \in {"REPLAN_TRAJ", "EXEC_TRAJ", "EMERGENCY_STOP"} =>
           local_data_ # NoTraj
  PROVE  FlightInv'
<1> USE DEF FlightInv, trajectory, server
<1>1. FlightTypeOK'
  BY DEF FlightTypeOK
<1>2. PlanInHand' /\ ServerFollowsPlan' /\ UnwatchedAtRest' /\ NoPlanBefore'
  BY DEF PlanInHand, ServerFollowsPlan, UnwatchedAtRest, NoPlanBefore
<1>3. QED
  BY <1>1, <1>2

\* A step that plans, out of INIT and WAIT_TARGET.
LEMMA Planning ==
  ASSUME FlightInv, UNCHANGED server, EgoTypeOK', ServerFollowsPlan',
         exec_state_' \notin {"INIT", "WAIT_TARGET"},
         exec_state_' \in {"REPLAN_TRAJ", "EXEC_TRAJ", "EMERGENCY_STOP"} =>
           local_data_' # NoTraj
  PROVE  FlightInv'
<1> USE DEF FlightInv
<1>1. FlightTypeOK'
  BY DEF FlightTypeOK, server
<1>2. PlanInHand' /\ UnwatchedAtRest' /\ NoPlanBefore'
  BY DEF PlanInHand, UnwatchedAtRest, NoPlanBefore
<1>3. QED
  BY <1>1, <1>2

\* A new goal is flown to through the states that planNextWaypoint knows.
LEMMA NewGoalKeeps ==
  ASSUME FlightInv, NEW p \in Points, planNextWaypoint(p), wp_id_' \in 0 .. Len(wps_),
         have_trigger_' \in BOOLEAN,
         UNCHANGED <<inputs, trajectory, emergency>>, UNCHANGED server
  PROVE  FlightInv'
<1>1. EgoTypeOK
  BY DEF FlightInv, FlightTypeOK
<1>2. /\ end_pt_' = p /\ have_target_' = TRUE /\ waits' \in 0 .. MaxWaits
      /\ \/ exec_state_ = "WAIT_TARGET" /\ exec_state_' = "GEN_NEW_TRAJ"
         \/ exec_state_ = "EXEC_TRAJ" /\ exec_state_' = "REPLAN_TRAJ"
         \/ exec_state_' = exec_state_
  BY <1>1, NextGoal
<1>3. EgoTypeOK'
  BY <1>1, <1>2 DEF EgoTypeOK, States, inputs, trajectory, emergency
<1>4. exec_state_' \in {"REPLAN_TRAJ", "EXEC_TRAJ", "EMERGENCY_STOP"} => local_data_ # NoTraj
  BY <1>2 DEF FlightInv, PlanInHand
<1>5. QED
  BY <1>2, <1>3, <1>4, NoPlanning

LEMMA GoalsAndTriggers ==
  ASSUME FlightInv, UNCHANGED server,
         \/ \E g \in UserGoals : waypointCallback(g)
         \/ readGivenWps \/ NextWaypoint \/ triggerCallback \/ LoopEnds
  PROVE  FlightInv'
<1>1. EgoTypeOK /\ Presets \subseteq Seq(Goals) /\ UserGoals \subseteq Goals
  BY EgoAssumption DEF FlightInv, FlightTypeOK
<1>2. CASE \E g \in UserGoals : waypointCallback(g)
  <2>1. PICK g \in UserGoals : waypointCallback(g)
    BY <1>2
  <2>2. (IF have_odom_ THEN g ELSE Unset) \in Points
    BY <1>1 DEF Points
  <2>3. wp_id_' \in 0 .. Len(wps_) /\ have_trigger_' \in BOOLEAN
    BY <1>1, <2>1 DEF waypointCallback, EgoTypeOK
  <2>4. QED
    BY <2>1, <2>2, <2>3, NewGoalKeeps DEF waypointCallback
<1>3. CASE readGivenWps
  <2>1. wps_ \in Seq(Goals) /\ wps_ # <<>>
    BY <1>1, <1>3 DEF readGivenWps, PRESET_TARGET, EgoTypeOK
  <2>2. wps_[1] \in Points /\ 1 \in 0 .. Len(wps_)
    BY <2>1 DEF Points
  <2>3. have_trigger_' \in BOOLEAN
    BY <1>1, <1>3 DEF readGivenWps, EgoTypeOK
  <2>4. QED
    BY <1>3, <2>2, <2>3, NewGoalKeeps DEF readGivenWps
<1>4. CASE NextWaypoint
  <2>1. wps_ \in Seq(Goals) /\ wp_id_ \in 0 .. Len(wps_) /\ wp_id_ < Len(wps_)
    BY <1>1, <1>4 DEF NextWaypoint, EgoTypeOK
  <2>2. wps_[wp_id_ + 1] \in Points /\ wp_id_ + 1 \in 0 .. Len(wps_)
    BY <2>1 DEF Points
  <2>3. have_trigger_' \in BOOLEAN
    BY <1>1, <1>4 DEF NextWaypoint, EgoTypeOK
  <2>4. QED
    BY <1>4, <2>2, <2>3, NewGoalKeeps DEF NextWaypoint
<1>5. CASE triggerCallback
  <2>1. EgoTypeOK'
    BY <1>1, <1>5 DEF triggerCallback, EgoTypeOK, inputs, trajectory, emergency
  <2>2. QED
    BY <1>5, <2>1, NoPlanning DEF triggerCallback, FlightInv, PlanInHand
<1>6. CASE LoopEnds
  <2>1. exec_state_ = "EXEC_TRAJ" /\ exec_state_' = "REPLAN_TRAJ"
    BY <1>6 DEF LoopEnds
  <2>2. waits' \in 0 .. MaxWaits
    BY <1>1, <1>6, EgoAssumption DEF LoopEnds, EgoTypeOK
  <2>3. EgoTypeOK'
    BY <1>1, <1>6, <2>1, <2>2 DEF LoopEnds, EgoTypeOK, States, inputs, wants, trajectory, emergency
  <2>4. QED
    BY <1>6, <2>1, <2>3, NoPlanning DEF LoopEnds, FlightInv, PlanInHand
<1>7. QED
  BY <1>2, <1>3, <1>4, <1>5, <1>6

\* The subscriptions that change a flag, and a transition of the state machine that
\* does not plan.
LEMMA FlagsAndTransitions ==
  ASSUME FlightInv, UNCHANGED server,
         \/ (\E s \in BOOLEAN : odometryCallback(s)) \/ swarmTrajsCallback
         \/ updateOccupancyCallback \/ BroadcastBsplineCallback(TRUE)
         \/ ExecInit \/ ExecWaitTarget \/ TimeToReplan
  PROVE  FlightInv'
<1> USE DEF inputs, wants, trajectory, emergency
<1>1. EgoTypeOK
  BY DEF FlightInv, FlightTypeOK
<1>2. UNCHANGED trajectory
  BY DEF odometryCallback, swarmTrajsCallback, updateOccupancyCallback,
         BroadcastBsplineCallback, ExecInit, ExecWaitTarget, TimeToReplan
<1>3. EgoTypeOK'
  BY <1>1 DEF EgoTypeOK, States, odometryCallback, swarmTrajsCallback, updateOccupancyCallback,
              BroadcastBsplineCallback, ExecInit, ExecWaitTarget, TimeToReplan
<1>4. \/ exec_state_' = exec_state_ \/ exec_state_' = "SEQUENTIAL_START"
      \/ exec_state_ = "INIT" /\ exec_state_' = "WAIT_TARGET"
      \/ exec_state_' = "REPLAN_TRAJ" /\ local_data_ # NoTraj
  BY DEF odometryCallback, swarmTrajsCallback, updateOccupancyCallback, FlightInv, PlanInHand,
         BroadcastBsplineCallback, ExecInit, ExecWaitTarget, TimeToReplan
<1>5. QED
  BY <1>2, <1>3, <1>4, NoPlanning DEF FlightInv, PlanInHand, NoPlanBefore

LEMMA ReachedKeeps ==
  ASSUME FlightInv, UNCHANGED server, Reached
  PROVE  FlightInv'
<1>1. EgoTypeOK /\ Presets \subseteq Seq(Goals)
  BY EgoAssumption DEF FlightInv, FlightTypeOK
<1>2. PRESET_TARGET => wps_[1] \in Points /\ 1 \in 0 .. Len(wps_)
  BY <1>1 DEF PRESET_TARGET, Points, EgoTypeOK
<1>3. EgoTypeOK'
  BY <1>1, <1>2 DEF Reached, EgoTypeOK, States, inputs, trajectory, emergency
<1>4. QED
  BY <1>3, NoPlanning DEF Reached

LEMMA PlanStatesKeep ==
  ASSUME FlightInv, UNCHANGED server, NEW ok \in BOOLEAN,
         ExecSequentialStart(ok) \/ ExecGenNewTraj(ok) \/ ExecReplanTraj(ok)
  PROVE  FlightInv'
<1> USE DEF ExecSequentialStart, ExecGenNewTraj, ExecReplanTraj
<1>1. EgoTypeOK /\ ServerFollowsPlan /\ PlanInHand
  BY DEF FlightInv, FlightTypeOK
<1>2. callReboundReplan(ok) /\ UNCHANGED traj_
  BY DEF server
<1>3. /\ local_data_' \in Trajs \union {NoTraj} /\ local_t' \in Times
      /\ local_target_pt_' \in Points \union {OnTheWay}
      /\ bspline' \in Seq(Trajs) /\ Len(bspline') <= QueueSize
      /\ ok \/ local_data_ # NoTraj => local_data_' # NoTraj
      /\ ServerFollowsPlan'
  BY <1>1, <1>2, PlanOutcome
<1>4. EgoTypeOK'
  BY <1>1, <1>3 DEF EgoTypeOK, States, inputs, wants, emergency
<1>5. /\ exec_state_' \notin {"INIT", "WAIT_TARGET"}
      /\ exec_state_' \in {"REPLAN_TRAJ", "EXEC_TRAJ", "EMERGENCY_STOP"} => local_data_' # NoTraj
  BY <1>1, <1>3 DEF PlanInHand
<1>6. QED
  BY <1>3, <1>4, <1>5, Planning

LEMMA EmergencyKeeps ==
  ASSUME FlightInv, UNCHANGED server, ExecEmergencyStop
  PROVE  FlightInv'
<1>1. EgoTypeOK /\ local_data_ # NoTraj
  BY DEF FlightInv, FlightTypeOK, PlanInHand, ExecEmergencyStop
<1>2. CASE callEmergencyStop /\ UNCHANGED exec_state_
  <2>1. /\ local_data_' \in Trajs /\ local_data_' # NoTraj /\ local_t' \in Times
        /\ local_target_pt_' = local_target_pt_
        /\ bspline' \in Seq(Trajs) /\ Len(bspline') <= QueueSize
        /\ ServerFollowsPlan'
    BY <1>1, <1>2, StopOutcome
  <2>2. EgoTypeOK'
    BY <1>1, <1>2, <2>1 DEF ExecEmergencyStop, EgoTypeOK, inputs, wants
  <2>3. QED
    BY <1>2, <2>1, <2>2, Planning DEF ExecEmergencyStop
<1>3. CASE UNCHANGED trajectory /\ exec_state_' \in {"GEN_NEW_TRAJ", "EMERGENCY_STOP"}
  <2>1. EgoTypeOK'
    BY <1>1, <1>3 DEF ExecEmergencyStop, EgoTypeOK, States, inputs, wants, trajectory
  <2>2. QED
    BY <1>1, <1>3, <2>1, NoPlanning
<1>4. QED
  BY <1>2, <1>3 DEF ExecEmergencyStop

LEMMA SafetyKeeps ==
  ASSUME FlightInv, UNCHANGED server, NEW hit \in Hits, NEW ok \in BOOLEAN,
         checkCollisionCallback(hit, ok)
  PROVE  FlightInv'
<1>1. EgoTypeOK /\ ServerFollowsPlan /\ local_data_ # NoTraj
  BY DEF FlightInv, FlightTypeOK, checkCollisionCallback
<1>2. CASE hit = "none"
  <2>1. UNCHANGED trajectory /\ exec_state_' \in {exec_state_, "EMERGENCY_STOP"}
    BY <1>2 DEF checkCollisionCallback
  <2>2. EgoTypeOK'
    BY <1>1, <2>1 DEF checkCollisionCallback, EgoTypeOK, States, inputs, wants, trajectory
  <2>3. QED
    BY <1>1, <2>1, <2>2, NoPlanning
<1>3. CASE hit # "none"
  <2>1. callReboundReplan(ok) /\ UNCHANGED traj_
    BY <1>3 DEF checkCollisionCallback, server
  <2>2. /\ local_data_' \in Trajs \union {NoTraj} /\ local_t' \in Times
        /\ local_target_pt_' \in Points \union {OnTheWay}
        /\ bspline' \in Seq(Trajs) /\ Len(bspline') <= QueueSize
        /\ ok \/ local_data_ # NoTraj => local_data_' # NoTraj
        /\ ServerFollowsPlan'
    BY <1>1, <2>1, PlanOutcome
  <2>3. exec_state_' \in {"EXEC_TRAJ", "EMERGENCY_STOP", "REPLAN_TRAJ"}
    BY <1>3 DEF checkCollisionCallback, Hits
  <2>4. EgoTypeOK'
    BY <1>1, <2>2, <2>3 DEF checkCollisionCallback, EgoTypeOK, States, inputs, wants
  <2>5. QED
    BY <1>1, <2>2, <2>3, <2>4, Planning
<1>4. QED
  BY <1>2, <1>3

-----------------------------------------------------------------------------
(***************************************************************************)
(* The server, the clock and the vehicle.                                  *)
(***************************************************************************)

LEMMA ServerTakesKeeps == FlightInv /\ ServerTakes => FlightInv'
<1> SUFFICES ASSUME FlightInv, ServerTakes PROVE FlightInv'
  OBVIOUS
<1>1. FlightTypeOK /\ EgoTypeOK
  BY DEF FlightInv, FlightTypeOK
<1>2. /\ bspline # <<>> /\ bspline' = Tail(bspline) /\ traj_' = Head(bspline)
      /\ t_cur' \in {"within", "over"}
      /\ UNCHANGED <<pos_cmd, exec_state_, inputs, wants, emergency, waits,
                     local_data_, local_t, local_target_pt_>>
  BY DEF ServerTakes, Server!bsplineCallback, Now
<1>3. /\ bspline' \in Seq(Trajs) /\ Len(bspline') <= QueueSize /\ traj_' \in Trajs
      /\ QueueSize \in Nat
  BY <1>1, <1>2, EgoAssumption DEF EgoTypeOK
<1>4. FlightTypeOK'
  BY <1>1, <1>2, <1>3 DEF FlightTypeOK, EgoTypeOK, inputs, wants, emergency
<1>5. ServerFollowsPlan'
  <2>1. bspline \in Seq(Trajs) /\ bspline[Len(bspline)] = local_data_
    BY <1>1, <1>2 DEF FlightInv, ServerFollowsPlan, EgoTypeOK, Last
  <2>2. CASE Len(bspline) = 1
    BY <1>2, <2>1, <2>2 DEF ServerFollowsPlan
  <2>3. CASE Len(bspline) # 1
    <3>1. /\ Len(bspline) \in Nat /\ Len(bspline) > 1
          /\ Len(bspline') = Len(bspline) - 1
      <4>1. Len(bspline) \in Nat \ {0}
        BY <1>2, <2>1
      <4>2. Len(Tail(bspline)) = Len(bspline) - 1
        BY <1>2, <2>1
      <4>3. QED
        BY <1>2, <2>3, <4>1, <4>2
    <3>2. \A i \in 1 .. Len(bspline) - 1 : bspline'[i] = bspline[i + 1]
      BY <1>2, <2>1, <3>1
    <3>3. bspline'[Len(bspline')] = bspline[Len(bspline)]
      BY <3>1, <3>2
    <3>4. bspline' # <<>>
      BY <3>1
    <3>5. QED
      BY <1>2, <2>1, <3>3, <3>4 DEF ServerFollowsPlan, Last
  <2>4. QED
    BY <2>2, <2>3
<1>6. PlanInHand' /\ UnwatchedAtRest' /\ NoPlanBefore'
  BY <1>2 DEF FlightInv, PlanInHand, UnwatchedAtRest, NoPlanBefore
<1>7. QED
  BY <1>4, <1>5, <1>6 DEF FlightInv

LEMMA TimePassesKeeps == FlightInv /\ TimePasses => FlightInv'
<1> SUFFICES ASSUME FlightInv, TimePasses PROVE FlightInv'
  OBVIOUS
<1>1. local_t' \in Times /\ (local_t = "over" => local_t' = "over")
  BY DEF FlightInv, FlightTypeOK, EgoTypeOK, TimePasses, Later, Times
<1>2. t_cur' \in {"within", "over"}
  BY DEF FlightInv, FlightTypeOK, TimePasses, Now
<1>3. FlightTypeOK'
  BY <1>1, <1>2 DEF FlightInv, FlightTypeOK, EgoTypeOK, TimePasses, inputs, wants, emergency
<1>4. PlanInHand' /\ ServerFollowsPlan' /\ UnwatchedAtRest' /\ NoPlanBefore'
  BY <1>1 DEF FlightInv, TimePasses, PlanInHand, ServerFollowsPlan, UnwatchedAtRest, NoPlanBefore
<1>5. QED
  BY <1>3, <1>4 DEF FlightInv

LEMMA ServerSendsKeeps == FlightInv /\ ServerSends => FlightInv'
<1> SUFFICES ASSUME FlightInv, ServerSends PROVE FlightInv'
  OBVIOUS
<1>1. pos_cmd' \in {"none", "moving", "rest"} /\ UNCHANGED <<traj_, t_cur, egoVars>>
  BY DEF FlightInv, FlightTypeOK, ServerSends, Server!cmdCallback
<1>2. FlightTypeOK'
  BY <1>1 DEF FlightInv, FlightTypeOK, EgoTypeOK, egoVars, inputs, wants, trajectory, emergency
<1>3. PlanInHand' /\ ServerFollowsPlan' /\ UnwatchedAtRest' /\ NoPlanBefore'
  BY <1>1 DEF FlightInv, PlanInHand, ServerFollowsPlan, UnwatchedAtRest, NoPlanBefore,
              egoVars, trajectory
<1>4. QED
  BY <1>2, <1>3 DEF FlightInv

-----------------------------------------------------------------------------
(***************************************************************************)
(* The theorems.                                                           *)
(***************************************************************************)

LEMMA FlightInitOK == FlightInit => FlightInv
<1> SUFFICES ASSUME FlightInit PROVE FlightInv
  OBVIOUS
<1>1. EgoInit /\ traj_ = NoTraj /\ t_cur = "over" /\ pos_cmd = "none"
  BY DEF FlightInit, Server!ServerInit
<1>2. /\ MaxWaits \in Nat /\ QueueSize \in Nat \ {0} /\ RealWorld \in BOOLEAN
      /\ Presets \subseteq Seq(Goals)
  BY EgoAssumption
<1>3. EgoTypeOK
  <2>1. bspline \in Seq(Trajs) /\ Len(bspline) <= QueueSize
    BY <1>1, <1>2 DEF EgoInit
  <2>2. wps_ \in Presets /\ wp_id_ \in 0 .. Len(wps_)
    BY <1>1, <1>2 DEF EgoInit
  <2>3. {have_odom_, have_target_, have_trigger_, have_recv_pre_agent_, slow, depth_lost,
         flag_escape_emergency_, enable_fail_safe_} \subseteq BOOLEAN
    BY <1>1, <1>2 DEF EgoInit
  <2>4. exec_state_ \in States /\ end_pt_ \in Points /\ local_target_pt_ \in Points
    BY <1>1 DEF EgoInit, States, Points
  <2>5. local_data_ \in Trajs \union {NoTraj} /\ local_t \in Times /\ waits \in 0 .. MaxWaits
    BY <1>1, <1>2 DEF EgoInit, Times
  <2>6. QED
    BY <2>1, <2>2, <2>3, <2>4, <2>5 DEF EgoTypeOK
<1>4. PlanInHand /\ ServerFollowsPlan /\ UnwatchedAtRest /\ NoPlanBefore
  BY <1>1 DEF EgoInit, PlanInHand, ServerFollowsPlan, UnwatchedAtRest, NoPlanBefore
<1>5. QED
  BY <1>1, <1>3, <1>4 DEF FlightInv, FlightTypeOK

LEMMA FlightStepOK == FlightInv /\ [FlightNext]_flightVars => FlightInv'
<1> SUFFICES ASSUME FlightInv, [FlightNext]_flightVars PROVE FlightInv'
  OBVIOUS
<1>1. CASE Planner /\ UNCHANGED server
  <2>1. CASE Exec
    BY <1>1, <2>1, FlagsAndTransitions, GoalsAndTriggers, ReachedKeeps, EmergencyKeeps,
       PlanStatesKeep DEF Exec
  <2>2. CASE Safety
    BY <1>1, <2>2, SafetyKeeps DEF Safety
  <2>3. CASE LoopEnds \/ (\E g \in UserGoals : waypointCallback(g)) \/ triggerCallback \/ readGivenWps
    BY <1>1, <2>3, GoalsAndTriggers
  <2>4. CASE swarmTrajsCallback \/ BroadcastBsplineCallback(TRUE) \/ updateOccupancyCallback
    BY <1>1, <2>4, FlagsAndTransitions
  <2>5. QED
    BY <1>1, <2>1, <2>2, <2>3, <2>4 DEF Planner
<1>2. CASE Odometry
  <2>1. (~moving) \in BOOLEAN
    BY DEF moving
  <2>2. QED
    BY <1>2, <2>1, FlagsAndTransitions DEF Odometry
<1>3. CASE TimePasses \/ ServerTakes \/ ServerSends
  BY <1>3, TimePassesKeeps, ServerTakesKeeps, ServerSendsKeeps
<1>4. CASE UNCHANGED flightVars
  <2>1. FlightTypeOK'
    BY <1>4 DEF FlightInv, FlightTypeOK, EgoTypeOK, flightVars, egoVars, server, inputs, wants,
                trajectory, emergency
  <2>2. PlanInHand' /\ ServerFollowsPlan' /\ UnwatchedAtRest' /\ NoPlanBefore'
    BY <1>4 DEF FlightInv, PlanInHand, ServerFollowsPlan, UnwatchedAtRest, NoPlanBefore,
                flightVars, egoVars, server, trajectory
  <2>3. QED
    BY <2>1, <2>2 DEF FlightInv
<1>5. QED
  BY <1>1, <1>2, <1>3, <1>4 DEF FlightNext

\* The inductive invariant holds in every behaviour.
THEOREM FlightInvariant == FlightSpec => []FlightInv
<1>1. QED
  BY FlightInitOK, FlightStepOK, PTL DEF FlightSpec

\* Every variable keeps its type, and a waypoint that is flown to is one of the list.
THEOREM FlightTypeCorrect == FlightSpec => []FlightTypeOK
<1>1. FlightInv => FlightTypeOK
  BY DEF FlightInv
<1>2. QED
  BY <1>1, FlightInvariant, PTL

\* The states that evaluate a trajectory have one.
THEOREM PlanSafe == FlightSpec => []PlanInHand
<1>1. FlightInv => PlanInHand
  BY DEF FlightInv
<1>2. QED
  BY <1>1, FlightInvariant, PTL

\* The trajectory that is checked for collisions is the one flown, or the last in the queue.
THEOREM ServerSafe == FlightSpec => []ServerFollowsPlan
<1>1. FlightInv => ServerFollowsPlan
  BY DEF FlightInv
<1>2. QED
  BY <1>1, FlightInvariant, PTL

\* The state without collision checks is entered at the end of a trajectory only.
THEOREM RestSafe == FlightSpec => []UnwatchedAtRest
<1>1. FlightInv => UnwatchedAtRest
  BY DEF FlightInv
<1>2. QED
  BY <1>1, FlightInvariant, PTL
=============================================================================
