----------------------------- MODULE RouteDemo ------------------------------
(***************************************************************************)
(* The demos that fly a route (square_trajectory.cpp,                      *)
(* hexagon_trajectory.cpp, circle_vel.cpp): the same program but for the   *)
(* shape.  It takes CMD_CONTROL, arms, takes off, flies the route and      *)
(* home, and lands.  Between two looks at uav_state it sleeps, up to four  *)
(* seconds.                                                                *)
(***************************************************************************)
CONSTANTS NoRoute      \* nothing published

VARIABLES
  phase,               \* where main is
  heard,               \* the last uav_state: control mode, armed, on the ground
  demo_cmd,            \* the command published last and not received
  demo_setup           \* the setup request published last and not received

demoRouteVars == <<phase, heard, demo_cmd, demo_setup>>

\* "route": to the start, from point to point of the shape, and home.
RoutePhases == {"set_mode", "arm", "takeoff", "route", "land", "landing", "gone"}
UavState == [mode: {"CMD_CONTROL", "LAND_CONTROL", "WITHOUT_CONTROL", "other"}, armed: BOOLEAN, landed: BOOLEAN]

RouteTypeOK ==
  /\ phase \in RoutePhases
  /\ heard \in UavState
  /\ demo_cmd \in {NoRoute, "Takeoff", "route", "Land"}
  /\ demo_setup \in {NoRoute, "CMD_CONTROL", "ARM"}

\* The demo starts when PX4 is connected.
RouteInit ==
  /\ phase = "set_mode"
  /\ heard \in UavState
  /\ demo_cmd = NoRoute /\ demo_setup = NoRoute

\* spinOnce at the end of a sleep.
UavStateHeard(s) ==
  /\ phase # "gone" /\ heard' = s
  /\ UNCHANGED <<phase, demo_cmd, demo_setup>>

AsksForCmd ==
  /\ phase = "set_mode"
  /\ IF heard.mode = "CMD_CONTROL"
     THEN phase' = "arm" /\ UNCHANGED demo_setup
     ELSE demo_setup' = "CMD_CONTROL" /\ UNCHANGED phase
  /\ UNCHANGED <<heard, demo_cmd>>

\* The vehicle was taken away.
GivesUp ==
  /\ \/ phase = "arm" /\ ~heard.armed /\ heard.mode # "CMD_CONTROL"
     \/ phase \in {"takeoff", "route"}
        /\ (~heard.armed \/ heard.mode # "CMD_CONTROL")
     \/ phase = "land" /\ ~heard.landed /\ heard.mode # "LAND_CONTROL" /\ ~heard.armed
     \/ phase = "landing" /\ ~heard.landed /\ ~heard.armed
  /\ phase' = "gone"
  /\ UNCHANGED <<heard, demo_cmd, demo_setup>>

Arms ==
  /\ phase = "arm"
  /\ \/ heard.armed /\ phase' = "takeoff" /\ UNCHANGED demo_setup
     \/ /\ ~heard.armed /\ heard.mode = "CMD_CONTROL"
        /\ demo_setup' = "ARM" /\ UNCHANGED phase
  /\ UNCHANGED <<heard, demo_cmd>>

Commands(c) == demo_cmd' = c /\ UNCHANGED <<heard, demo_setup>>

\* The height is reached (external, but not by a vehicle on the ground), or Takeoff
\* is sent again.
TakesOff ==
  /\ phase = "takeoff"
  /\ \/ /\ ~heard.landed /\ phase' = "route" /\ UNCHANGED <<heard, demo_cmd, demo_setup>>
     \/ /\ heard.armed /\ heard.mode = "CMD_CONTROL"
        /\ Commands("Takeoff") /\ UNCHANGED phase

\* One point of the route after another, or the circle's velocities.
Flies ==
  /\ phase = "route" /\ heard.armed /\ heard.mode = "CMD_CONTROL"
  /\ Commands("route")
  /\ phase' \in {"route", "land"}

\* Land is sent again until the vehicle lands, whoever has it.
Lands ==
  /\ phase = "land"
  /\ IF heard.mode = "LAND_CONTROL" \/ heard.landed
     THEN phase' = "landing" /\ UNCHANGED <<heard, demo_cmd, demo_setup>>
     ELSE heard.armed /\ Commands("Land") /\ UNCHANGED phase

Landed ==
  /\ phase = "landing" /\ heard.landed
  /\ phase' = "gone"
  /\ UNCHANGED <<heard, demo_cmd, demo_setup>>

RouteStep == AsksForCmd \/ GivesUp \/ Arms \/ TakesOff \/ Flies \/ Lands \/ Landed
=============================================================================
