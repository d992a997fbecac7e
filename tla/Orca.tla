-------------------------------- MODULE Orca --------------------------------
(***************************************************************************)
(* One vehicle's collision avoidance node (orca.cpp, orca_node.cpp): a     *)
(* 20 Hz loop that serves its callbacks and turns the goal into a command, *)
(* and among the callbacks a 1 Hz check of every vehicle's odometry.  The  *)
(* velocity itself (RVO) is abstracted.  No node of the repository sends   *)
(* OrcaSetup STOP or RUN: those branches of setup_cb are left out.         *)
(***************************************************************************)
CONSTANT Origin         \* the position (0, 0, 0)

OrcaStates == {"INIT", "RUN", "ARRIVED"}
Nodes(places) ==
  [orca_state : OrcaStates, goal_pos : places,
   arrived_goal : BOOLEAN, start_flag : BOOLEAN, agent_state_ready : BOOLEAN]

\* arrived_goal is uninitialized.
Started ==
  {[orca_state |-> "INIT", goal_pos |-> Origin, arrived_goal |-> arrived,
    start_flag |-> FALSE, agent_state_ready |-> FALSE] : arrived \in BOOLEAN}

\* Mutant of setup_cb: a new goal inherits the arrival at the last.
SetupKeepsArrival(o, s) ==
  [o EXCEPT !.goal_pos = s.goal, !.start_flag = TRUE,
            !.orca_state = IF s.cmd = "GOAL_RUN" THEN "RUN" ELSE @]

setup_cb(o, s) ==
  [o EXCEPT !.goal_pos = s.goal, !.start_flag = TRUE, !.arrived_goal = FALSE,
            !.orca_state = IF s.cmd = "GOAL_RUN" THEN "RUN" ELSE @]

\* Mutants of checkAgentState: the comparison that was meant; a vehicle once heard of
\* is never missed.
CheckCompares(o, stale) == [o EXCEPT !.agent_state_ready = ~stale]
CheckOnce(o, stale) == [o EXCEPT !.agent_state_ready = @ \/ ~stale, !.orca_state = "RUN"]

\* "if (orca_state = RUN)" assigns: every second whatever state becomes RUN.
checkAgentState(o, stale) == [o EXCEPT !.agent_state_ready = ~stale, !.orca_state = "RUN"]

orca_run(o, at) ==
  IF ~o.start_flag \/ o.orca_state = "INIT" \/ ~o.agent_state_ready
  THEN [o EXCEPT !.orca_state = "INIT"]
  ELSE LET arrived == o.arrived_goal \/ at = o.goal_pos
       IN  [o EXCEPT !.arrived_goal = arrived, !.orca_state = IF arrived THEN "ARRIVED" ELSE @]

OrcaCmd(o) == [state |-> o.orca_state, goal |-> o.goal_pos]
=============================================================================
