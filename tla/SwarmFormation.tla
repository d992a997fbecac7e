--------------------------- MODULE SwarmFormation ---------------------------
(***************************************************************************)
(* A vehicle of a formation: its formation node, its ORCA node, its        *)
(* controller and the other vehicles, whose odometry ORCA needs.  Once a   *)
(* second both nodes' 1 Hz timers run, and what was sent has arrived.      *)
(***************************************************************************)
EXTENDS FormationControl

CONSTANTS
  Faults,     \* of "orca", "neighbour" and "pilot", those that happen
  MaxOrders   \* bound: orders and goals explored

ASSUME MaxOrdersAssumption == MaxOrders \in Nat

VARIABLES
  orca, orca_out,     \* the ORCA node, and its command on its way
  alive,              \* the ORCA node runs
  silent, odom_age,   \* another vehicle's odometry is missing, and for how many checks
  at,                 \* where the vehicle is
  ordered,            \* how many orders and goals have been sent
  met                 \* history: it has been at the last goal since that was first ordered

Ca == INSTANCE Orca
Between == <<"between", 0>>
Homes == {Home(i) : i \in 0 .. 2 * MaxOrders}
Places == {Origin, Static} \union Homes \union UserGoals \union ToSet(Path) \union ToSet(Waypoints)
            \union (LeaderPlaces \union {Origin[1]}) \X (0 .. 8)

traffic == <<silent, odom_age>>
swarmVars == <<formationVars, orca, orca_out, alive, traffic, at, ordered, met>>

SwarmInit ==
  /\ FormationInit /\ orca \in Ca!Started /\ orca_out = NoOrcaCmd
  /\ alive = TRUE /\ silent = FALSE /\ odom_age = 0
  /\ at = Between /\ ordered = 0 /\ met = FALSE

\* A place between the known ones gets a name of its own when it is made home.
Here(i) == IF at = Between THEN Home(i) ELSE at

----------------------------------------------------------------------------
(* The formation node.                                                     *)

Order ==
  /\ ordered < MaxOrders /\ ordered' = ordered + 1
  /\ \/ \E o \in Orders : /\ formation_cmd_callback(o, Here(ordered))
                          /\ at' = IF o = "SET_HOME" THEN Here(ordered) ELSE at
     \/ (\E g \in UserGoals : goal_callback(g)) /\ UNCHANGED at
  /\ UNCHANGED <<orca, orca_out>>
LeaderMoves ==
  /\ ~IsLeader /\ \E p \in LeaderPlaces \ {leader_pose} : uav_leader_callback(p)
  /\ UNCHANGED <<orca, orca_out, at>>
DynamicTimer == timer_dynamic_formation /\ UNCHANGED <<orca, orca_out, at>>
OrcaHeard ==
  /\ orca_out # NoOrcaCmd /\ orca_cmd_callback(orca_out)
  /\ orca_out' = NoOrcaCmd
  /\ UNCHANGED <<orca, at>>

\* A running ORCA is heard every second.  A takeoff that has ended makes a home.
ModeCheck ==
  LET here == Here(MaxOrders + ordered)
  IN  /\ agent_mode_check(here, alive)
      /\ at' = IF state = "TAKEOFF" /\ takeoff_time = 3 /\ state' = "INIT" THEN here ELSE at
      /\ UNCHANGED <<orca, orca_out>>

----------------------------------------------------------------------------
(* The ORCA node, which may stop, and the others' odometry.                *)

\* One turn of the loop: the goal that waits, the check when it is due (a vehicle is
\* older than a second at the second check in silence), and the command, which arrives
\* before the next turn.
OrcaLoop(check) ==
  /\ orca_out = NoOrcaCmd
  /\ LET set == IF setup_pending THEN Ca!setup_cb(orca, orca_setup) ELSE orca
         checked == IF check THEN Ca!checkAgentState(set, odom_age > 0) ELSE set
     IN  orca' = Ca!orca_run(checked, at)
  /\ orca_out' = Ca!OrcaCmd(orca')
  /\ setup_pending' = FALSE
  /\ odom_age' = (CASE ~check -> odom_age [] ~silent -> 0 [] odom_age = 2 -> 2 [] OTHER -> odom_age + 1)

OrcaDies == "orca" \in Faults /\ alive /\ alive' = FALSE /\ UNCHANGED <<formationVars, orca, orca_out, traffic, at>>
Neighbour ==
  /\ "neighbour" \in Faults /\ silent' = ~silent /\ odom_age' = 0
  /\ UNCHANGED <<formationVars, orca, orca_out, alive, at>>

----------------------------------------------------------------------------
(* The vehicle: it flies commands in CMD_CONTROL and stays where it has    *)
(* arrived; the pilot takes over, carries it and gives back.               *)
Follows == in_cmd /\ armed /\ uav_cmd.kind \in {"velocity", "position"} /\ at # uav_cmd.goal
Arrives == Follows /\ at' = uav_cmd.goal /\ UNCHANGED in_cmd
Leaves == Follows /\ at' = Between /\ at # Between /\ UNCHANGED in_cmd
Carried == ~in_cmd /\ at' = Between /\ UNCHANGED in_cmd
Pilot == "pilot" \in Faults /\ in_cmd' = ~in_cmd /\ UNCHANGED at

----------------------------------------------------------------------------
Remember == met' = (at' = orca_setup'.goal \/ (met /\ orca_setup'.goal = orca_setup.goal))
NodeOnly == UNCHANGED <<alive, traffic, ordered>> /\ Remember
OrcaOnly ==
  /\ alive
  /\ UNCHANGED <<me, orders, homes, orca_setup, arrived_at, orca_age, uav_cmd, uav_state,
                 leader_pose, alive, silent, at, ordered>>
  /\ Remember
VehicleOnly ==
  /\ UNCHANGED <<me, orders, homes, setups, arrived_at, orca_age, uav_cmd, armed, leader_pose,
                 orca, orca_out, alive, traffic, ordered>>
  /\ Remember

SwarmNext ==
  \/ Order /\ UNCHANGED <<alive, traffic>> /\ Remember
  \/ (LeaderMoves \/ DynamicTimer \/ OrcaHeard \/ ModeCheck) /\ NodeOnly
  \/ (\E check \in BOOLEAN : OrcaLoop(check)) /\ OrcaOnly
  \/ (Arrives \/ Leaves \/ Carried \/ Pilot) /\ VehicleOnly
  \/ (OrcaDies \/ Neighbour) /\ UNCHANGED ordered /\ Remember

SwarmSpec == SwarmInit /\ [][SwarmNext]_swarmVars

\* Both nodes' timers, queues and loops run (the check again and again among the turns
\* of ORCA's loop, whatever is on its way), and a vehicle with a command gets there:
\* the avoidance does not hold it for ever.
FairSwarmSpec ==
  /\ SwarmSpec
  /\ WF_swarmVars(ModeCheck /\ NodeOnly) /\ WF_swarmVars(DynamicTimer /\ NodeOnly)
  /\ WF_swarmVars(OrcaHeard /\ NodeOnly)
  /\ SF_swarmVars(OrcaLoop(TRUE) /\ OrcaOnly)
  /\ WF_swarmVars(Arrives /\ VehicleOnly)

(***************************************************************************)
(* Properties.                                                             *)
(***************************************************************************)
SwarmTypeOK ==
  /\ me \in Agents /\ state \in States /\ formation_type \in Types
  /\ {first_dynamic, home_set, setup_pending, in_cmd, armed, alive, silent, met} \subseteq BOOLEAN
  /\ {home_pose, orca_setup.goal, arrived_at, uav_cmd.goal} \subseteq Places
  /\ at \in Places \union {Between} /\ leader_pose \in LeaderPlaces \union {Origin[1]}
  /\ orca_setup.cmd \in {"GOAL", "GOAL_RUN"}
  /\ orca \in Ca!Nodes(Places)
  /\ orca_out = NoOrcaCmd \/ orca_out \in [state : Ca!OrcaStates, goal : Places]
  /\ uav_cmd.kind \in {"none", "takeoff", "hover", "velocity", "position"}
  /\ orca_age \in 0 .. 2 /\ odom_age \in 0 .. 2 /\ takeoff_time \in 0 .. 4
  /\ ordered \in 0 .. MaxOrders /\ now_idx \in Nat

\* now_idx indexes the path or the waypoints without a test: it is within those of the
\* formation that is flown, or resumed.
IndexInRange ==
  /\ formation_type = "DYNAMIC" => now_idx < Len(Path)
  /\ formation_type = "LEADER" => now_idx < Len(Waypoints)

Sent(s) == orca_out' # orca_out /\ orca_out' # NoOrcaCmd /\ orca_out'.state = s

\* ORCA steers by every vehicle's position: it sends a velocity only while all of them
\* have been heard of in the last two seconds (checkAgentState, orca_run).
FreshNeighbours == [][Sent("RUN") => odom_age <= 1]_swarmVars

\* A position is flown without avoidance: ORCA reports the goal that was last ordered as
\* reached only if the vehicle has been there since (setup_cb, reachedGoal).
ArrivedIsMet == [][Sent("ARRIVED") /\ ~setup_pending => met]_swarmVars

\* "ORCA node timed out, switching to hover" (agent_mode_check): whatever orders follow,
\* a vehicle left in FORMATION without ORCA is made to hover.
SilenceHovers ==
  ~alive /\ state = "FORMATION"
    ~> uav_cmd.kind = "hover" \/ state \in {"TAKEOFF", "LAND", "HOVER"}

Steady == state = "FORMATION" /\ alive /\ ~silent /\ in_cmd /\ armed

\* While nothing interferes the vehicle gets to the goal it was last given, also after a
\* late start of ORCA or a neighbour that was missed for a while (formation_cmd_callback,
\* setup_cb, orca_run, orca_cmd_callback).
GoalIsReached ==
  Steady /\ formation_type \in {"GOAL", "STATIC"} /\ orca_setup.goal # Origin
    ~> met \/ ~Steady \/ formation_type \in {"DYNAMIC", "LEADER"}

\* The leader flies to every waypoint of its round: the index does not run ahead on an
\* arrival that belongs to another (leader_formation_pub).
WaypointsVisited ==
  \A p \in ToSet(Waypoints) :
    IsLeader /\ Steady /\ formation_type = "LEADER"
      ~> at = p \/ ~Steady \/ formation_type # "LEADER"

(***************************************************************************)
(* What the source says of itself and does not do.                         *)
(***************************************************************************)

\* "Eight followers at most, around the leader" (calculateFollowerPosition): no follower
\* is sent to the leader's own place.
FollowersKeepApart ==
  formation_type = "LEADER" /\ ~IsLeader /\ orca_setup.cmd = "GOAL_RUN"
    => orca_setup.goal # <<leader_pose, 0>>

\* "GOAL sets the position", "GOAL_RUN sets it and switches to RUN" (OrcaSetup.msg): ORCA
\* does not start to run towards a goal that was only set.
GoalWaitsForRun ==
  [][Sent("RUN") /\ orca.orca_state # "RUN" /\ ~setup_pending => orca_setup.cmd # "GOAL"]_swarmVars
=============================================================================
