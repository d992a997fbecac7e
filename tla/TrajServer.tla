----------------------------- MODULE TrajServer -----------------------------
(***************************************************************************)
(* The trajectory server (traj_server.cpp): it keeps the last B-spline and *)
(* a 10 ms timer sends the point of it that is due.                        *)
(***************************************************************************)
CONSTANTS NoTrajectory

VARIABLES
  traj_,          \* the B-spline: NoTrajectory while receive_traj_ is FALSE
  t_cur,          \* now in it: "early" is before its start, "over" its end or later
  pos_cmd         \* the last command: moving along a plan, at rest, or at the origin

serverVars == <<traj_, t_cur, pos_cmd>>

ServerInit == /\ traj_ = NoTrajectory /\ t_cur = "over"
              /\ pos_cmd = "none"

\* Mutant of bsplineCallback: a new trajectory waits for the end of the old one.
bsplineAfterOld(t, now) ==
  /\ IF traj_ = NoTrajectory \/ t_cur = "over"
     THEN traj_' = t /\ t_cur' = now
     ELSE UNCHANGED <<traj_, t_cur>>
  /\ UNCHANGED pos_cmd

bsplineCallback(t, now) == traj_' = t /\ t_cur' = now /\ UNCHANGED pos_cmd

\* Before the start ("invalid time") the position is left at zero.
cmdCallback ==
  /\ traj_ # NoTrajectory
  /\ pos_cmd' = (CASE t_cur = "early" -> "zero"
                   [] t_cur = "within" /\ traj_.kind = "plan" -> "moving"
                   [] OTHER -> "rest")
  /\ UNCHANGED <<traj_, t_cur>>
=============================================================================
