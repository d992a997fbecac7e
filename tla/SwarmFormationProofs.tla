------------------------ MODULE SwarmFormationProofs ------------------------
(***************************************************************************)
(* What ORCA reports, proved for all places, paths and orders: a velocity  *)
(* only with every neighbour heard of, and an arrival only at the goal     *)
(* that was last ordered.                                                  *)
(***************************************************************************)
EXTENDS SwarmFormation, TLAPS

OrcaNode(g) ==
  [orca_state : Ca!OrcaStates, goal_pos : {g},
   arrived_goal : BOOLEAN, start_flag : BOOLEAN, agent_state_ready : BOOLEAN]

OrcaTyped ==
  orca \in OrcaNode(orca.goal_pos) /\ odom_age \in 0 .. 2 /\ setup_pending \in BOOLEAN

\* The neighbours count as heard of for one check after the last message.
ReadyIsFresh == orca.agent_state_ready => odom_age <= 1

\* ORCA flies to the goal that was ordered last unless that is on its way.  Where it says
\* it has arrived the vehicle has been; so it has where a goal was set without running,
\* which leaves an earlier arrival standing.
GoalIsOrdered ==
  /\ orca_setup.cmd # "GOAL_RUN" /\ (setup_pending \/ orca.start_flag) => met
  /\ orca.start_flag =>
       /\ at = orca_setup.goal => met
       /\ ~setup_pending => orca.goal_pos = orca_setup.goal
       /\ ~setup_pending /\ (orca.arrived_goal \/ orca.orca_state = "ARRIVED") => met

OrcaInv == OrcaTyped /\ ReadyIsFresh /\ GoalIsOrdered

-----------------------------------------------------------------------------
(* ORCA's operators.                                                       *)

LEMMA SetupFacts ==
  ASSUME NEW o, NEW g, NEW s,
         o \in OrcaNode(g)
  PROVE  LET r == Ca!setup_cb(o, s)
         IN  /\ r \in OrcaNode(s.goal)
             /\ r.goal_pos = s.goal /\ r.start_flag /\ ~r.arrived_goal
             /\ r.agent_state_ready = o.agent_state_ready
             /\ r.orca_state = (IF s.cmd = "GOAL_RUN" THEN "RUN" ELSE o.orca_state)
BY DEF Ca!setup_cb, Ca!OrcaStates, OrcaNode

LEMMA CheckFacts ==
  ASSUME NEW o, NEW g, NEW stale \in BOOLEAN,
         o \in OrcaNode(g)
  PROVE  LET r == Ca!checkAgentState(o, stale)
         IN  /\ r \in OrcaNode(g)
             /\ r.goal_pos = o.goal_pos /\ r.start_flag = o.start_flag
             /\ r.arrived_goal = o.arrived_goal /\ (r.agent_state_ready => ~stale)
             /\ r.orca_state = "RUN"
BY DEF Ca!checkAgentState, Ca!OrcaStates, OrcaNode

LEMMA RunFacts ==
  ASSUME NEW o, NEW g, NEW p,
         o \in OrcaNode(g)
  PROVE  LET r == Ca!orca_run(o, p)
         IN  /\ r \in OrcaNode(g)
             /\ r.goal_pos = o.goal_pos /\ r.start_flag = o.start_flag
             /\ r.agent_state_ready = o.agent_state_ready
             /\ r.arrived_goal => o.arrived_goal \/ p = o.goal_pos
             /\ r.orca_state = "RUN" => o.agent_state_ready
             /\ r.orca_state = "ARRIVED"
                  => o.start_flag /\ (o.arrived_goal \/ p = o.goal_pos \/ o.orca_state = "ARRIVED")
<1>1. CASE ~o.start_flag \/ o.orca_state = "INIT" \/ ~o.agent_state_ready
  BY <1>1 DEF Ca!orca_run, Ca!OrcaStates, OrcaNode
<1>2. CASE ~(~o.start_flag \/ o.orca_state = "INIT" \/ ~o.agent_state_ready)
  BY <1>2 DEF Ca!orca_run, Ca!OrcaStates, OrcaNode
<1>3. QED
  BY <1>1, <1>2

-----------------------------------------------------------------------------
(* The steps.                                                              *)

LEMMA OrcaInitially == SwarmInit => OrcaInv
<1> SUFFICES ASSUME SwarmInit PROVE OrcaInv
  OBVIOUS
<1>1. setup_pending = FALSE /\ odom_age = 0 /\ orca \in Ca!Started
  BY DEF SwarmInit, FormationInit
<1>2. PICK arrived \in BOOLEAN :
        orca = [orca_state |-> "INIT", goal_pos |-> Origin, arrived_goal |-> arrived,
                start_flag |-> FALSE, agent_state_ready |-> FALSE]
  BY <1>1 DEF Ca!Started
<1>3. orca \in OrcaNode(orca.goal_pos) /\ ~orca.start_flag /\ ~orca.agent_state_ready
  BY <1>2 DEF Ca!OrcaStates, OrcaNode
<1>4. OrcaTyped
  <2>1. odom_age \in 0 .. 2
    BY <1>1
  <2>2. setup_pending \in BOOLEAN
    BY <1>1
  <2>3. QED
    BY <1>3, <2>1, <2>2 DEF OrcaTyped
<1>5. ReadyIsFresh /\ GoalIsOrdered
  BY <1>1, <1>3 DEF ReadyIsFresh, GoalIsOrdered
<1>6. QED
  BY <1>4, <1>5 DEF OrcaInv

\* What every step does that is not ORCA's: the goal published last stays, or another is on
\* its way, and one that ORCA is not to run for is where the vehicle is.
OutsideOrca ==
  /\ UNCHANGED orca /\ Remember
  /\ odom_age' \in {odom_age, 0} /\ orca_out' \in {orca_out, NoOrcaCmd}
  /\ \/ UNCHANGED setups
     \/ /\ setup_pending' = TRUE
        /\ orca_setup'.cmd # "GOAL_RUN" => at' = orca_setup'.goal

LEMMA OutsideKeeps == OrcaInv /\ OutsideOrca => OrcaInv'
<1> SUFFICES ASSUME OrcaInv, OutsideOrca PROVE OrcaInv'
  OBVIOUS
<1> USE DEF OrcaInv
<1>1. orca' = orca /\ met' = (at' = orca_setup'.goal \/ (met /\ orca_setup'.goal = orca_setup.goal))
  BY DEF OutsideOrca, Remember
<1>2. OrcaTyped'
  <2>1. orca' \in OrcaNode(orca'.goal_pos)
    BY <1>1 DEF OrcaTyped
  <2>2. odom_age' \in 0 .. 2
    BY DEF OutsideOrca, OrcaTyped
  <2>3. setup_pending' \in BOOLEAN
    BY DEF OutsideOrca, OrcaTyped, setups
  <2>4. QED
    BY <2>1, <2>2, <2>3 DEF OrcaTyped
<1>3. ReadyIsFresh'
  BY <1>1 DEF OutsideOrca, OrcaTyped, ReadyIsFresh
<1>4. GoalIsOrdered'
  <2>1. CASE UNCHANGED setups
    BY <1>1, <2>1 DEF GoalIsOrdered, setups
  <2>2. CASE setup_pending' = TRUE /\ (orca_setup'.cmd # "GOAL_RUN" => at' = orca_setup'.goal)
    BY <1>1, <2>2 DEF GoalIsOrdered
  <2>3. QED
    BY <2>1, <2>2 DEF OutsideOrca
<1>5. QED
  BY <1>2, <1>3, <1>4

LEMMA PublishFacts ==
  ASSUME NEW cmd, NEW goal, Publish(cmd, goal)
  PROVE  setup_pending' = TRUE /\ orca_setup'.cmd = cmd /\ orca_setup'.goal = goal
BY DEF Publish

LEMMA OrderOutside == Order /\ UNCHANGED <<alive, traffic>> /\ Remember => OutsideOrca
<1> SUFFICES ASSUME Order, UNCHANGED traffic, Remember PROVE OutsideOrca
  OBVIOUS
<1>1. UNCHANGED <<orca, orca_out, odom_age>>
  BY DEF Order, traffic
<1>2. ASSUME NEW p, goal_callback(p)
      PROVE  setup_pending' = TRUE /\ orca_setup'.cmd = "GOAL_RUN"
  BY <1>2, PublishFacts DEF goal_callback
<1>3. ASSUME NEW o, NEW p, formation_cmd_callback(o, p)
      PROVE  UNCHANGED setups \/ (setup_pending' = TRUE /\ orca_setup'.cmd = "GOAL_RUN")
  BY <1>3, PublishFacts DEF formation_cmd_callback, FormationOrder
<1>4. QED
  BY <1>1, <1>2, <1>3 DEF Order, OutsideOrca

LEMMA NodeOutside ==
  (LeaderMoves \/ DynamicTimer \/ OrcaHeard \/ ModeCheck) /\ NodeOnly => OutsideOrca
<1> SUFFICES ASSUME LeaderMoves \/ DynamicTimer \/ OrcaHeard \/ ModeCheck, NodeOnly
             PROVE  OutsideOrca
  OBVIOUS
<1>1. /\ UNCHANGED orca /\ orca_out' \in {orca_out, NoOrcaCmd}
      /\ UNCHANGED odom_age /\ Remember
  BY DEF LeaderMoves, DynamicTimer, OrcaHeard, ModeCheck, NodeOnly, traffic
<1>2. CASE LeaderMoves \/ OrcaHeard
  <2>1. UNCHANGED setups
    BY <1>2 DEF LeaderMoves, OrcaHeard, uav_leader_callback, orca_cmd_callback
  <2>2. QED
    BY <1>1, <2>1 DEF OutsideOrca
<1>3. CASE DynamicTimer
  <2>1. setup_pending' = TRUE /\ orca_setup'.cmd = "GOAL_RUN"
    BY <1>3, PublishFacts
       DEF DynamicTimer, timer_dynamic_formation, DynamicPub, LeaderPub, FollowerPub
  <2>2. QED
    BY <1>1, <2>1 DEF OutsideOrca
<1>4. CASE ModeCheck
  <2> DEFINE here == Here(MaxOrders + ordered)
  <2>1. agent_mode_check(here, alive)
    BY <1>4 DEF ModeCheck
  <2>2. CASE UNCHANGED setups
    BY <1>1, <2>2 DEF OutsideOrca
  <2>3. CASE /\ state = "TAKEOFF" /\ takeoff_time = 3 /\ state' = "INIT"
             /\ Publish("GOAL", here)
    BY <1>1, <1>4, <2>3, PublishFacts DEF OutsideOrca, ModeCheck
  <2>4. QED
    BY <2>1, <2>2, <2>3
       DEF agent_mode_check, ModeTakeoff, ModeLand, ModeHover, ModeNothing, GiveUp, Asked
<1>5. QED
  BY <1>2, <1>3, <1>4

LEMMA OthersOutside ==
  \/ (Arrives \/ Leaves \/ Carried \/ Pilot) /\ VehicleOnly
  \/ (OrcaDies \/ Neighbour) /\ UNCHANGED ordered /\ Remember
  => OutsideOrca
BY DEF VehicleOnly, OrcaDies, Neighbour, OutsideOrca, traffic, formationVars, setups

\* One turn of ORCA's loop.
LEMMA LoopKeeps ==
  ASSUME OrcaInv, NEW check \in BOOLEAN, OrcaLoop(check), OrcaOnly
  PROVE  OrcaInv' /\ (Sent("RUN") => odom_age <= 1) /\ (Sent("ARRIVED") /\ ~setup_pending => met)
<1> USE DEF OrcaInv
<1> DEFINE set == IF setup_pending THEN Ca!setup_cb(orca, orca_setup) ELSE orca
           checked == IF check THEN Ca!checkAgentState(set, odom_age > 0) ELSE set
<1>1. /\ orca' = Ca!orca_run(checked, at) /\ orca_out' = Ca!OrcaCmd(orca')
      /\ setup_pending' = FALSE
      /\ odom_age' = (CASE ~check -> odom_age [] ~silent -> 0 [] odom_age = 2 -> 2
                        [] OTHER -> odom_age + 1)
  BY DEF OrcaLoop
<1>2. /\ UNCHANGED <<orca_setup, at>>
      /\ met' = (at = orca_setup.goal \/ met)
  BY DEF OrcaOnly, Remember
<1>3. /\ set \in OrcaNode(set.goal_pos)
      /\ set.agent_state_ready = orca.agent_state_ready
      /\ set.start_flag => set.goal_pos = orca_setup.goal
      /\ set.start_flag /\ (set.arrived_goal \/ set.orca_state = "ARRIVED") => met
      /\ orca_setup.cmd # "GOAL_RUN" /\ set.start_flag => met
  <2>1. CASE setup_pending
    <3>1. /\ set \in OrcaNode(orca_setup.goal)
          /\ set.goal_pos = orca_setup.goal /\ set.start_flag /\ ~set.arrived_goal
          /\ set.agent_state_ready = orca.agent_state_ready
          /\ set.orca_state = (IF orca_setup.cmd = "GOAL_RUN" THEN "RUN" ELSE orca.orca_state)
      <4>1. set = Ca!setup_cb(orca, orca_setup) /\ orca \in OrcaNode(orca.goal_pos)
        BY <2>1 DEF OrcaTyped
      <4> HIDE DEF set, checked
      <4>2. QED
        BY <4>1, SetupFacts
    <3> HIDE DEF set
    <3>2. orca_setup.cmd # "GOAL_RUN" => met
      BY <2>1 DEF GoalIsOrdered
    <3>3. QED
      BY <3>1, <3>2
  <2>2. CASE ~setup_pending
    BY <2>2 DEF OrcaTyped, GoalIsOrdered
  <2>3. QED
    BY <2>1, <2>2
<1> HIDE DEF set
<1>4. /\ checked \in OrcaNode(set.goal_pos)
      /\ checked.goal_pos = set.goal_pos /\ checked.start_flag = set.start_flag
      /\ checked.arrived_goal = set.arrived_goal
      /\ checked.orca_state \in {set.orca_state, "RUN"}
      /\ checked.agent_state_ready => IF check THEN ~(odom_age > 0) ELSE set.agent_state_ready
  <2>1. (odom_age > 0) \in BOOLEAN
    BY DEF OrcaTyped
  <2>2. CASE check
    BY <1>3, <2>1, <2>2, CheckFacts
  <2>3. CASE ~check
    BY <1>3, <2>3
  <2>4. QED
    BY <2>2, <2>3
<1> HIDE DEF checked
<1>5. /\ orca' \in OrcaNode(set.goal_pos)
      /\ orca'.goal_pos = checked.goal_pos /\ orca'.start_flag = checked.start_flag
      /\ orca'.agent_state_ready = checked.agent_state_ready
      /\ orca'.arrived_goal => checked.arrived_goal \/ at = checked.goal_pos
      /\ orca'.orca_state = "RUN" => checked.agent_state_ready
      /\ orca'.orca_state = "ARRIVED"
           => checked.start_flag /\ (checked.arrived_goal \/ at = checked.goal_pos
                                       \/ checked.orca_state = "ARRIVED")
  BY <1>1, <1>4, RunFacts
<1>6. checked.agent_state_ready => odom_age <= 1 /\ odom_age' <= 1
  <2>1. odom_age \in 0 .. 2
    BY DEF OrcaTyped
  <2>2. CASE check
    <3>1. odom_age' \in {0, 2, odom_age + 1}
      BY <1>1, <2>1, <2>2
    <3>2. ASSUME odom_age = 0 PROVE odom_age' <= 1
      BY <1>1, <2>2, <3>2
    <3>3. checked.agent_state_ready => odom_age = 0
      BY <1>4, <2>1, <2>2
    <3>4. QED
      BY <3>2, <3>3
  <2>3. CASE ~check
    BY <1>1, <1>3, <1>4, <2>1, <2>3 DEF ReadyIsFresh
  <2>4. QED
    BY <2>2, <2>3
<1>7. orca'.start_flag /\ (orca'.arrived_goal \/ orca'.orca_state = "ARRIVED") => met'
  BY <1>2, <1>3, <1>4, <1>5
<1>8. OrcaTyped'
  <2>1. orca' \in OrcaNode(orca'.goal_pos)
    BY <1>4, <1>5
  <2>2. odom_age' \in 0 .. 2
    BY <1>1 DEF OrcaTyped
  <2>3. QED
    BY <1>1, <2>1, <2>2 DEF OrcaTyped
<1>9. ReadyIsFresh'
  BY <1>5, <1>6 DEF ReadyIsFresh
<1>10. GoalIsOrdered'
  BY <1>1, <1>2, <1>3, <1>4, <1>5, <1>7 DEF GoalIsOrdered
<1>11. ASSUME NEW w, Sent(w) PROVE orca'.orca_state = w
  BY <1>1, <1>11 DEF Sent, Ca!OrcaCmd
<1>12. Sent("RUN") => odom_age <= 1
  BY <1>5, <1>6, <1>11
<1>13. ASSUME Sent("ARRIVED"), ~setup_pending PROVE met
  <2>1. set = orca /\ orca'.orca_state = "ARRIVED"
    BY <1>11, <1>13 DEF set
  <2>2. QED
    BY <1>3, <1>4, <1>5, <2>1 DEF GoalIsOrdered
<1>14. QED
  BY <1>8, <1>9, <1>10, <1>12, <1>13

LEMMA OrcaStep ==
  OrcaInv /\ [SwarmNext]_swarmVars
    => OrcaInv' /\ (Sent("RUN") => odom_age <= 1) /\ (Sent("ARRIVED") /\ ~setup_pending => met)
<1> SUFFICES ASSUME OrcaInv, [SwarmNext]_swarmVars
             PROVE  OrcaInv' /\ (Sent("RUN") => odom_age <= 1)
                      /\ (Sent("ARRIVED") /\ ~setup_pending => met)
  OBVIOUS
<1>1. CASE OutsideOrca
  <2>1. ~Sent("RUN") /\ ~Sent("ARRIVED")
    BY <1>1 DEF OutsideOrca, Sent
  <2>2. QED
    BY <1>1, <2>1, OutsideKeeps
<1>2. CASE (\E check \in BOOLEAN : OrcaLoop(check)) /\ OrcaOnly
  BY <1>2, LoopKeeps
<1>3. CASE UNCHANGED swarmVars
  <2>1. UNCHANGED <<orca, orca_out, setup_pending, orca_setup, odom_age, at, met>>
    BY <1>3 DEF swarmVars, formationVars, setups, traffic
  <2>2. QED
    BY <2>1 DEF OrcaInv, OrcaTyped, ReadyIsFresh, GoalIsOrdered, Sent
<1>4. QED
  BY <1>1, <1>2, <1>3, OrderOutside, NodeOutside, OthersOutside DEF SwarmNext

-----------------------------------------------------------------------------
\* ORCA's view of its neighbours and of its goal, the invariant of both properties.
THEOREM OrcaSafe == SwarmSpec => []OrcaInv
<1>1. QED
  BY OrcaInitially, OrcaStep, PTL DEF SwarmSpec

\* A velocity is sent only while every vehicle has been heard of (checkAgentState).
THEOREM NeighboursFresh == SwarmSpec => FreshNeighbours
<1>1. OrcaInv /\ [SwarmNext]_swarmVars => [Sent("RUN") => odom_age <= 1]_swarmVars
  BY OrcaStep
<1>2. QED
  BY OrcaSafe, <1>1, PTL DEF SwarmSpec, FreshNeighbours

\* An arrival is reported only at the goal that was ordered last (setup_cb, reachedGoal).
THEOREM ArrivalsMet == SwarmSpec => ArrivedIsMet
<1>1. OrcaInv /\ [SwarmNext]_swarmVars => [Sent("ARRIVED") /\ ~setup_pending => met]_swarmVars
  BY OrcaStep
<1>2. QED
  BY OrcaSafe, <1>1, PTL DEF SwarmSpec, ArrivedIsMet

-----------------------------------------------------------------------------
(***************************************************************************)
(* Types, and the index into the path or the waypoints.                    *)
(***************************************************************************)

\* SwarmTypeOK by the part of the code that keeps each variable.
OrdersTyped ==
  /\ state \in States /\ formation_type \in Types /\ first_dynamic \in BOOLEAN
  /\ takeoff_time \in 0 .. 4 /\ now_idx \in Nat /\ IndexInRange
HomesTyped == home_set \in BOOLEAN /\ home_pose \in Places
SetupsTyped == /\ setup_pending \in BOOLEAN
               /\ orca_setup.goal \in Places /\ orca_setup.cmd \in {"GOAL", "GOAL_RUN"}
CmdTyped == /\ uav_cmd.goal \in Places
            /\ uav_cmd.kind \in {"none", "takeoff", "hover", "velocity", "position"}
HeardTyped == /\ arrived_at \in Places /\ orca_age \in 0 .. 2
              /\ leader_pose \in LeaderPlaces \union {Origin[1]}
VehicleTyped == me \in Agents /\ in_cmd \in BOOLEAN /\ armed \in BOOLEAN
NodeTyped == OrdersTyped /\ HomesTyped /\ SetupsTyped /\ CmdTyped /\ HeardTyped /\ VehicleTyped

Message == [state : Ca!OrcaStates, goal : Places]
OutsideTyped ==
  /\ alive \in BOOLEAN /\ silent \in BOOLEAN /\ met \in BOOLEAN /\ odom_age \in 0 .. 2
  /\ at \in Places \union {Between} /\ ordered \in 0 .. MaxOrders
  /\ orca \in Ca!Nodes(Places) /\ (orca_out = NoOrcaCmd \/ orca_out \in Message)

LEMMA TypedInParts == SwarmTypeOK /\ IndexInRange <=> NodeTyped /\ OutsideTyped
BY DEF SwarmTypeOK, NodeTyped, OrdersTyped, HomesTyped, SetupsTyped, CmdTyped, HeardTyped,
       VehicleTyped, OutsideTyped, Message

LEMMA TypedNext == NodeTyped' /\ OutsideTyped' => (SwarmTypeOK /\ IndexInRange)'
BY DEF SwarmTypeOK, NodeTyped, OrdersTyped, HomesTyped, SetupsTyped, CmdTyped, HeardTyped,
       VehicleTyped, OutsideTyped, Message

\* An index is taken modulo the points.
LEMMA PointAt ==
  ASSUME NEW s, s \in Seq(ToSet(s)), s # <<>>, NEW i \in Nat
  PROVE  /\ Len(s) \in Nat \ {0}
         /\ i % Len(s) \in Nat /\ i % Len(s) < Len(s)
         /\ At(s, i) \in ToSet(s)
<1>1. Len(s) \in Nat \ {0} /\ DOMAIN s = 1 .. Len(s)
  OBVIOUS
<1>2. i % Len(s) \in 0 .. Len(s) - 1
  BY <1>1
<1>3. 1 + (i % Len(s)) \in DOMAIN s
  BY <1>1, <1>2
<1>4. QED
  BY <1>1, <1>2, <1>3 DEF At, ToSet

LEMMA PlaceFacts ==
  /\ Origin \in Places /\ Static \in Places /\ UserGoals \subseteq Places
  /\ \A i \in 0 .. 2 * MaxOrders : Home(i) \in Places
  /\ \A i \in Nat : At(Path, i) \in Places /\ At(Waypoints, i) \in Places
  /\ \A n \in LeaderPlaces \union {Origin[1]}, i \in 0 .. 8 : <<n, i>> \in Places
<1>1. \A i \in Nat : At(Path, i) \in ToSet(Path) /\ At(Waypoints, i) \in ToSet(Waypoints)
  BY FormationAssumption, PointAt
<1>2. QED
  BY <1>1 DEF Places, Homes

LEMMA SwarmTypedInitially == SwarmInit => SwarmTypeOK /\ IndexInRange
<1> SUFFICES ASSUME SwarmInit PROVE NodeTyped /\ OutsideTyped
  BY TypedInParts
<1>1. OrdersTyped /\ VehicleTyped
  <2>1. /\ state = "INIT" /\ formation_type = "GOAL" /\ now_idx = 0 /\ takeoff_time = 0
    BY DEF SwarmInit, FormationInit
  <2>2. me \in Agents /\ in_cmd \in BOOLEAN /\ armed \in BOOLEAN /\ first_dynamic \in BOOLEAN
    <3>1. me \in Agents /\ in_cmd \in BOOLEAN /\ armed = in_cmd /\ first_dynamic = FALSE
      BY DEF SwarmInit, FormationInit
    <3>2. QED
      BY <3>1, Zenon
  <2>3. QED
    BY <2>1, <2>2 DEF OrdersTyped, VehicleTyped, IndexInRange, States, Types
<1>2. HomesTyped /\ SetupsTyped /\ CmdTyped /\ HeardTyped
  <2>0. home_set \in BOOLEAN /\ setup_pending \in BOOLEAN
    <3>1. home_set = FALSE /\ setup_pending = FALSE
      BY DEF SwarmInit, FormationInit
    <3>2. QED
      BY <3>1, Zenon
  <2>1. /\ home_pose = Origin
        /\ orca_setup = [cmd |-> "GOAL", goal |-> Origin]
        /\ uav_cmd = [kind |-> "none", goal |-> Origin]
        /\ arrived_at = Origin /\ orca_age = 0 /\ leader_pose = Origin[1]
    BY DEF SwarmInit, FormationInit
  <2>2. QED
    BY <2>0, <2>1, PlaceFacts DEF HomesTyped, SetupsTyped, CmdTyped, HeardTyped
<1>3. orca \in Ca!Nodes(Places)
  <2>1. PICK arrived \in BOOLEAN :
          orca = [orca_state |-> "INIT", goal_pos |-> Origin, arrived_goal |-> arrived,
                  start_flag |-> FALSE, agent_state_ready |-> FALSE]
    BY DEF SwarmInit, Ca!Started
  <2>2. QED
    BY <2>1, PlaceFacts DEF Ca!Nodes, Ca!OrcaStates
<1>4. alive \in BOOLEAN /\ silent \in BOOLEAN /\ met \in BOOLEAN
  <2>1. alive = TRUE /\ silent = FALSE /\ met = FALSE
    BY DEF SwarmInit
  <2>2. QED
    BY <2>1, Zenon
<1>5. OutsideTyped
  <2>1. orca_out = NoOrcaCmd /\ odom_age = 0 /\ ordered = 0 /\ at = Between
    BY DEF SwarmInit
  <2>2. QED
    BY <1>3, <1>4, <2>1, MaxOrdersAssumption DEF OutsideTyped
<1>6. QED
  BY <1>1, <1>2, <1>5 DEF NodeTyped

LEMMA PublishTyped ==
  ASSUME NEW cmd \in {"GOAL", "GOAL_RUN"}, NEW g \in Places, Publish(cmd, g)
  PROVE  SetupsTyped'
BY DEF Publish, SetupsTyped

LEMMA OrderTyped ==
  ASSUME NodeTyped, OutsideTyped, Order
  PROVE  NodeTyped' /\ at' \in Places \union {Between} /\ ordered' \in 0 .. MaxOrders
<1>1. ordered \in 0 .. MaxOrders - 1 /\ ordered' = ordered + 1
  BY MaxOrdersAssumption DEF Order, OutsideTyped
<1>2. Here(ordered) \in Places
  BY <1>1, PlaceFacts, MaxOrdersAssumption DEF Here, OutsideTyped
<1>3. ASSUME NEW g \in UserGoals, goal_callback(g)
      PROVE  NodeTyped'
  <2>1. OrdersTyped' /\ SetupsTyped'
    BY <1>3, PlaceFacts DEF goal_callback, Publish, NodeTyped, OrdersTyped, SetupsTyped,
       IndexInRange, States, Types
  <2>2. QED
    BY <1>3, <2>1 DEF goal_callback, NodeTyped, homes, uav_state, HomesTyped, CmdTyped,
       HeardTyped, VehicleTyped
<1>4. ASSUME NEW o, NEW p \in Places, formation_cmd_callback(o, p)
      PROVE  NodeTyped'
  <2>1. UNCHANGED <<me, arrived_at, orca_age, uav_cmd, uav_state, leader_pose>>
    BY <1>4 DEF formation_cmd_callback
  <2>2. CmdTyped' /\ HeardTyped' /\ VehicleTyped'
    BY <2>1 DEF NodeTyped, CmdTyped, HeardTyped, VehicleTyped, uav_state
  <2>3. CASE o \in Types /\ FormationOrder(o)
    <3>1. OrdersTyped'
      BY <2>3, FormationAssumption, PointAt
         DEF FormationOrder, NodeTyped, OrdersTyped, IndexInRange, States, Types
    <3>2. HomesTyped' /\ SetupsTyped'
      <4>1. HomesTyped'
        BY <2>3 DEF FormationOrder, homes, NodeTyped, HomesTyped
      <4>2. UNCHANGED setups \/ Publish("GOAL_RUN", Static)
        BY <2>3 DEF FormationOrder
      <4>3. ASSUME UNCHANGED setups PROVE SetupsTyped'
        BY <4>3 DEF setups, NodeTyped, SetupsTyped
      <4>4. ASSUME Publish("GOAL_RUN", Static) PROVE SetupsTyped'
        BY <4>4, PlaceFacts, PublishTyped
      <4>5. QED
        BY <4>1, <4>2, <4>3, <4>4
    <3>3. QED
      BY <2>2, <3>1, <3>2 DEF NodeTyped
  <2>4. CASE /\ o \in {"TAKEOFF", "LAND", "HOVER"}
             /\ state' = o /\ takeoff_time' = 0
             /\ UNCHANGED <<formation_type, now_idx, first_dynamic, homes, setups>>
    <3>1. OrdersTyped'
      BY <2>4 DEF NodeTyped, OrdersTyped, IndexInRange, States, Types
    <3>2. HomesTyped' /\ SetupsTyped'
      BY <2>4 DEF setups, homes, NodeTyped, HomesTyped, SetupsTyped
    <3>3. QED
      BY <2>2, <3>1, <3>2 DEF NodeTyped
  <2>5. CASE o = "SET_HOME" /\ set_home(p) /\ UNCHANGED <<orders, setups>>
    <3>1. OrdersTyped'
      BY <2>5 DEF orders, NodeTyped, OrdersTyped, IndexInRange
    <3>2. HomesTyped' /\ SetupsTyped'
      BY <2>5 DEF setups, set_home, NodeTyped, HomesTyped, SetupsTyped
    <3>3. QED
      BY <2>2, <3>1, <3>2 DEF NodeTyped
  <2>6. CASE /\ o = "RETURN_HOME" /\ home_set
             /\ state' = "FORMATION" /\ formation_type' = "GOAL"
             /\ Publish("GOAL_RUN", home_pose)
             /\ UNCHANGED <<now_idx, first_dynamic, takeoff_time, homes>>
    <3>1. OrdersTyped'
      BY <2>6 DEF NodeTyped, OrdersTyped, IndexInRange, States, Types
    <3>2. HomesTyped' /\ SetupsTyped'
      BY <2>6 DEF Publish, homes, NodeTyped, HomesTyped, SetupsTyped
    <3>3. QED
      BY <2>2, <3>1, <3>2 DEF NodeTyped
  <2>7. QED
    BY <1>4, <2>3, <2>4, <2>5, <2>6 DEF formation_cmd_callback
<1>0. ordered' \in 0 .. MaxOrders /\ at \in Places \union {Between}
  BY <1>1, MaxOrdersAssumption DEF OutsideTyped
<1>5. CASE \E o \in Orders : /\ formation_cmd_callback(o, Here(ordered))
                             /\ at' = IF o = "SET_HOME" THEN Here(ordered) ELSE at
  <2>1. NodeTyped' /\ at' \in {Here(ordered), at}
    BY <1>2, <1>4, <1>5
  <2>2. QED
    BY <1>0, <1>2, <2>1
<1>6. CASE (\E g \in UserGoals : goal_callback(g)) /\ UNCHANGED at
  BY <1>0, <1>3, <1>6
<1>7. QED
  BY <1>5, <1>6, Zenon DEF Order

LEMMA HeardKeepsTypes ==
  ASSUME NodeTyped, OutsideTyped, LeaderMoves \/ OrcaHeard
  PROVE  NodeTyped'
<1>1. CASE LeaderMoves
  BY <1>1 DEF LeaderMoves, uav_leader_callback, orders, homes, setups, uav_state, NodeTyped,
     OrdersTyped, IndexInRange, HomesTyped, SetupsTyped, CmdTyped, HeardTyped, VehicleTyped
<1>2. CASE OrcaHeard
  <2>1. orca_out.goal \in Places /\ orca_cmd_callback(orca_out)
    BY <1>2 DEF OrcaHeard, OutsideTyped, Message
  <2>2. CmdTyped' /\ HeardTyped'
    BY <2>1, PlaceFacts DEF orca_cmd_callback, Fly, NodeTyped, CmdTyped, HeardTyped
  <2>3. QED
    BY <2>1, <2>2 DEF orca_cmd_callback, orders, homes, setups, uav_state, NodeTyped,
       OrdersTyped, IndexInRange, HomesTyped, SetupsTyped, VehicleTyped
<1>3. QED
  BY <1>1, <1>2

LEMMA TimerTyped ==
  ASSUME NodeTyped, DynamicTimer
  PROVE  NodeTyped'
<1>1. /\ UNCHANGED <<me, state, formation_type, takeoff_time, homes, arrived_at, orca_age,
                     uav_cmd, uav_state, leader_pose>>
      /\ DynamicPub \/ LeaderPub \/ FollowerPub
  BY DEF DynamicTimer, timer_dynamic_formation
<1>2. HomesTyped' /\ CmdTyped' /\ HeardTyped' /\ VehicleTyped'
  BY <1>1 DEF NodeTyped, HomesTyped, CmdTyped, HeardTyped, VehicleTyped, homes, uav_state
<1>3. ASSUME NEW g \in Places, Publish("GOAL_RUN", g)
      PROVE  SetupsTyped'
  BY <1>3 DEF Publish, SetupsTyped
<1>4. /\ Path \in Seq(ToSet(Path)) /\ Path # <<>> /\ InitIdx \in Nat /\ InitIdx < Len(Path)
      /\ Waypoints \in Seq(ToSet(Waypoints)) /\ Waypoints # <<>>
  BY FormationAssumption, PointAt
<1>5. CASE DynamicPub
  <2> DEFINE ready == IF DynamicType = 1 THEN 0 ELSE InitIdx
  <2>1. PICK waited \in BOOLEAN :
          LET idx == IF waited THEN ready ELSE now_idx
              first == first_dynamic /\ ~waited
          IN  /\ formation_type = "DYNAMIC"
              /\ Publish("GOAL_RUN", At(Path, idx))
              /\ first_dynamic' = first
              /\ now_idx' = IF first THEN idx ELSE (idx + 1) % Len(Path)
    BY <1>5 DEF DynamicPub
  <2> DEFINE idx == IF waited THEN ready ELSE now_idx
  <2>2. idx \in Nat /\ idx < Len(Path)
    BY <1>4, <2>1, PointAt DEF NodeTyped, OrdersTyped, IndexInRange
  <2> HIDE DEF idx
  <2>3. SetupsTyped'
    BY <1>3, <2>1, <2>2, PlaceFacts DEF idx
  <2>4. (idx + 1) % Len(Path) \in Nat /\ (idx + 1) % Len(Path) < Len(Path)
    <3>1. idx + 1 \in Nat
      BY <2>2
    <3>2. QED
      BY <1>4, <3>1, PointAt
  <2>5. now_idx' \in {idx, (idx + 1) % Len(Path)} /\ first_dynamic' \in BOOLEAN
    BY <2>1 DEF idx, NodeTyped, OrdersTyped
  <2>6. OrdersTyped'
    BY <1>1, <2>1, <2>2, <2>4, <2>5 DEF NodeTyped, OrdersTyped, IndexInRange
  <2>7. QED
    BY <1>2, <2>3, <2>6 DEF NodeTyped
<1>6. CASE LeaderPub
  <2>1. /\ now_idx' \in {now_idx, (now_idx + 1) % Len(Waypoints)}
        /\ formation_type = "LEADER" /\ UNCHANGED first_dynamic
        /\ Publish("GOAL_RUN", At(Waypoints, now_idx))
    BY <1>6 DEF LeaderPub
  <2>2. now_idx + 1 \in Nat /\ now_idx \in Nat
    BY DEF NodeTyped, OrdersTyped
  <2>3. (now_idx + 1) % Len(Waypoints) \in Nat /\ (now_idx + 1) % Len(Waypoints) < Len(Waypoints)
    BY <1>4, <2>2, PointAt
  <2>4. SetupsTyped'
    BY <1>3, <2>1, <2>2, PlaceFacts
  <2>5. OrdersTyped'
    BY <1>1, <2>1, <2>3 DEF NodeTyped, OrdersTyped, IndexInRange
  <2>6. QED
    BY <1>2, <2>4, <2>5 DEF NodeTyped
<1>7. CASE FollowerPub
  <2> DEFINE i == IF FollowerIndex \in 1 .. 8 THEN FollowerIndex ELSE 0
  <2>0. i \in 0 .. 8
    OBVIOUS
  <2>1. calculateFollowerPosition(FollowerIndex) \in Places
    BY <2>0, PlaceFacts DEF calculateFollowerPosition, NodeTyped, HeardTyped
  <2>2. SetupsTyped'
    BY <1>3, <1>7, <2>1 DEF FollowerPub
  <2>3. OrdersTyped'
    BY <1>1, <1>7 DEF FollowerPub, NodeTyped, OrdersTyped, IndexInRange
  <2>4. QED
    BY <1>2, <2>2, <2>3 DEF NodeTyped
<1>8. QED
  BY <1>1, <1>5, <1>6, <1>7

LEMMA CheckTyped ==
  ASSUME NodeTyped, OutsideTyped, ModeCheck
  PROVE  NodeTyped' /\ at' \in Places \union {Between}
<1> DEFINE here == Here(MaxOrders + ordered)
<1>1. agent_mode_check(here, alive) /\ at' \in {here, at}
  BY DEF ModeCheck
<1>2. here \in Places
  BY PlaceFacts, MaxOrdersAssumption DEF Here, OutsideTyped
<1> HIDE DEF here
<1>3. orca_age' \in 0 .. 2 /\ takeoff_time' \in 0 .. 4
  BY <1>1 DEF agent_mode_check, NodeTyped, OrdersTyped, HeardTyped
<1>4. UNCHANGED <<me, formation_type, now_idx, first_dynamic, arrived_at, leader_pose>>
  BY <1>1 DEF agent_mode_check
<1>5. PICK lost : ModeTakeoff(here) \/ ModeLand \/ ModeHover(lost) \/ ModeNothing(lost)
  BY <1>1 DEF agent_mode_check
<1>6. state' \in {state, "INIT"}
  BY <1>5 DEF ModeTakeoff, ModeLand, ModeHover, ModeNothing, GiveUp
<1>7. CmdTyped' /\ in_cmd' \in BOOLEAN /\ armed' \in BOOLEAN
  <2>1. \/ UNCHANGED uav_cmd
        \/ \E kind \in {"takeoff", "hover"} : uav_cmd' = [kind |-> kind, goal |-> Origin]
    BY <1>5 DEF ModeTakeoff, ModeLand, ModeHover, ModeNothing, GiveUp, Asked, Send, Fly
  <2>2. CmdTyped'
    <3>1. CASE UNCHANGED uav_cmd
      BY <3>1 DEF NodeTyped, CmdTyped
    <3>2. ASSUME NEW kind \in {"takeoff", "hover"}, uav_cmd' = [kind |-> kind, goal |-> Origin]
          PROVE  CmdTyped'
      BY <3>2, PlaceFacts DEF CmdTyped
    <3>3. QED
      BY <2>1, <3>1, <3>2
  <2>3. in_cmd' \in {in_cmd, TRUE, FALSE} /\ armed' \in {armed, TRUE, FALSE}
    BY <1>5 DEF ModeTakeoff, ModeLand, ModeHover, ModeNothing, GiveUp, Asked, uav_state
  <2>4. QED
    BY <2>2, <2>3 DEF NodeTyped, VehicleTyped
<1>8. HomesTyped' /\ SetupsTyped'
  <2>1. CASE UNCHANGED <<setups, homes>>
    BY <2>1 DEF setups, homes, NodeTyped, HomesTyped, SetupsTyped
  <2>2. CASE set_home(here) /\ Publish("GOAL", here)
    <3>1. home_set' = TRUE /\ home_pose' = here /\ setup_pending' = TRUE
          /\ orca_setup' = [cmd |-> "GOAL", goal |-> here]
      BY <2>2 DEF set_home, Publish
    <3>2. QED
      BY <1>2, <3>1 DEF HomesTyped, SetupsTyped
  <2>3. QED
    BY <1>5, <2>1, <2>2 DEF ModeTakeoff, ModeLand, ModeHover, ModeNothing, GiveUp, Asked
<1>9. OrdersTyped' /\ HeardTyped' /\ VehicleTyped'
  BY <1>3, <1>4, <1>6, <1>7 DEF NodeTyped, OrdersTyped, IndexInRange, HeardTyped, VehicleTyped, States
<1>10. QED
  BY <1>1, <1>2, <1>7, <1>8, <1>9 DEF NodeTyped, OutsideTyped

LEMMA OrcaTurnTyped ==
  ASSUME NodeTyped, OutsideTyped, NEW check \in BOOLEAN, OrcaLoop(check), OrcaOnly
  PROVE  NodeTyped' /\ OutsideTyped'
<1> DEFINE set == IF setup_pending THEN Ca!setup_cb(orca, orca_setup) ELSE orca
           checked == IF check THEN Ca!checkAgentState(set, odom_age > 0) ELSE set
<1>1. /\ orca' = Ca!orca_run(checked, at) /\ orca_out' = Ca!OrcaCmd(orca')
      /\ setup_pending' = FALSE /\ odom_age' \in {odom_age, 0, 2, odom_age + 1}
      /\ odom_age = 2 => odom_age' # odom_age + 1
  BY DEF OrcaLoop, OutsideTyped
<1>2. set \in Ca!Nodes(Places)
  BY DEF OutsideTyped, NodeTyped, SetupsTyped, Ca!setup_cb, Ca!Nodes, Ca!OrcaStates
<1> HIDE DEF set
<1>3. checked \in Ca!Nodes(Places)
  <2>1. (odom_age > 0) \in BOOLEAN
    BY DEF OutsideTyped
  <2>2. QED
    BY <1>2, <2>1 DEF Ca!checkAgentState, Ca!Nodes, Ca!OrcaStates
<1> HIDE DEF checked
<1>4. orca' \in Ca!Nodes(Places)
  <2>1. CASE ~checked.start_flag \/ checked.orca_state = "INIT" \/ ~checked.agent_state_ready
    BY <1>1, <1>3, <2>1 DEF Ca!orca_run, Ca!Nodes, Ca!OrcaStates
  <2>2. CASE ~(~checked.start_flag \/ checked.orca_state = "INIT" \/ ~checked.agent_state_ready)
    BY <1>1, <1>3, <2>2 DEF Ca!orca_run, Ca!Nodes, Ca!OrcaStates
  <2>3. QED
    BY <2>1, <2>2
<1>5. orca_out' \in Message
  BY <1>1, <1>4 DEF Ca!OrcaCmd, Ca!Nodes, Message
<1>6. NodeTyped'
  BY <1>1 DEF OrcaOnly, orders, homes, uav_state, NodeTyped, OrdersTyped, IndexInRange,
     HomesTyped, SetupsTyped, CmdTyped, HeardTyped, VehicleTyped
<1>7. QED
  BY <1>1, <1>4, <1>5, <1>6 DEF OrcaOnly, Remember, OutsideTyped

LEMMA NodeUnchanged == NodeTyped /\ UNCHANGED formationVars => NodeTyped'
BY DEF formationVars, orders, homes, setups, uav_state, NodeTyped, OrdersTyped,
       IndexInRange, HomesTyped, SetupsTyped, CmdTyped, HeardTyped, VehicleTyped

LEMMA SwarmTypedStep ==
  SwarmTypeOK /\ IndexInRange /\ [SwarmNext]_swarmVars => (SwarmTypeOK /\ IndexInRange)'
<1> SUFFICES ASSUME NodeTyped, OutsideTyped, [SwarmNext]_swarmVars
             PROVE  NodeTyped' /\ OutsideTyped'
  BY TypedInParts, TypedNext
<1>1. CASE Order /\ UNCHANGED <<alive, traffic>> /\ Remember
  BY <1>1, OrderTyped DEF Order, Remember, traffic, OutsideTyped
<1>2. CASE (LeaderMoves \/ DynamicTimer \/ OrcaHeard \/ ModeCheck) /\ NodeOnly
  <2>1. NodeTyped' /\ at' \in Places \union {Between}
    BY <1>2, HeardKeepsTypes, TimerTyped, CheckTyped
       DEF LeaderMoves, DynamicTimer, OrcaHeard, OutsideTyped
  <2>2. UNCHANGED orca /\ orca_out' \in {orca_out, NoOrcaCmd}
    BY <1>2 DEF LeaderMoves, DynamicTimer, OrcaHeard, ModeCheck
  <2>3. QED
    BY <1>2, <2>1, <2>2 DEF NodeOnly, Remember, traffic, OutsideTyped
<1>3. CASE (\E check \in BOOLEAN : OrcaLoop(check)) /\ OrcaOnly
  BY <1>3, OrcaTurnTyped
<1>4. CASE (Arrives \/ Leaves \/ Carried \/ Pilot) /\ VehicleOnly
  <2>1. at' \in Places \union {Between} /\ in_cmd' \in BOOLEAN
    BY <1>4 DEF Arrives, Leaves, Carried, Pilot, NodeTyped, CmdTyped, VehicleTyped, OutsideTyped
  <2>2. NodeTyped'
    BY <1>4, <2>1 DEF VehicleOnly, orders, homes, setups, NodeTyped, OrdersTyped, IndexInRange,
       HomesTyped, SetupsTyped, CmdTyped, HeardTyped, VehicleTyped
  <2>3. QED
    BY <1>4, <2>1, <2>2 DEF VehicleOnly, Remember, traffic, OutsideTyped
<1>5. CASE (OrcaDies \/ Neighbour) /\ UNCHANGED ordered /\ Remember
  <2>1. UNCHANGED formationVars
    BY <1>5 DEF OrcaDies, Neighbour
  <2>2. NodeTyped'
    BY <2>1, NodeUnchanged
  <2>3. alive' \in BOOLEAN /\ silent' \in BOOLEAN /\ odom_age' \in {odom_age, 0}
    BY <1>5 DEF OrcaDies, Neighbour, traffic, OutsideTyped
  <2>4. UNCHANGED <<orca, orca_out, at, ordered>> /\ met' \in BOOLEAN
    BY <1>5 DEF OrcaDies, Neighbour, Remember
  <2>5. QED
    BY <2>2, <2>3, <2>4 DEF OutsideTyped
<1>6. CASE UNCHANGED swarmVars
  <2>1. UNCHANGED <<formationVars, orca, orca_out, alive, silent, odom_age, at, ordered, met>>
    BY <1>6 DEF swarmVars, traffic
  <2>2. NodeTyped'
    BY <2>1, NodeUnchanged
  <2>3. QED
    BY <2>1, <2>2 DEF OutsideTyped
<1>7. QED
  BY <1>1, <1>2, <1>3, <1>4, <1>5, <1>6 DEF SwarmNext

\* Every variable of the vehicle keeps its type, and now_idx stays within the path or the
\* waypoints it indexes, whatever orders replace one formation by another: a path and a
\* round of different lengths do not see each other's index.
THEOREM SwarmTypeCorrect == SwarmSpec => [](SwarmTypeOK /\ IndexInRange)
<1>1. QED
  BY SwarmTypedInitially, SwarmTypedStep, PTL DEF SwarmSpec
=============================================================================
