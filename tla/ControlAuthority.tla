-------------------------- MODULE ControlAuthority --------------------------
(***************************************************************************)
(* What the uav_control node promises the people around the vehicle, with  *)
(* none of its machinery: who holds the vehicle, and what may be sent to   *)
(* PX4 on whose behalf.                                                    *)
(***************************************************************************)

VARIABLES
  holder,    \* "pilot": nobody through this node; "commands": the RC sticks
             \* or the command topic; "landing": the automatic landing
  trusted,   \* by the last message about PX4, may commands be followed?
  doing      \* what the step just made sent: "nothing", "prepare" (zero
             \* velocity while OFFBOARD is requested), "follow", "land", "cut"

avars == <<holder, trusted, doing>>

Holders == {"pilot", "commands", "landing"}

Init == holder = "pilot" /\ trusted \in BOOLEAN /\ doing = "nothing"

\* News about the vehicle: nothing is sent.
Sense == /\ trusted' \in BOOLEAN
         /\ doing' = "nothing"
         /\ UNCHANGED holder

\* A request or a check decides who holds the vehicle.  It may start landing or
\* cut the motors, which gives the vehicle back, but no command is followed.
Decide == /\ holder' \in Holders
          /\ doing' \in {"nothing", "prepare", "land", "cut"}
          /\ doing' = "cut" => holder' = "pilot"
          /\ UNCHANGED trusted

\* Commands are followed only on a trusted view, and only by their holder,
\* which may give the vehicle up with its last setpoint.
Follow == /\ holder = "commands" /\ trusted
          /\ holder' \in Holders
          /\ doing' = "follow"
          /\ UNCHANGED trusted

Next == Sense \/ Decide \/ Follow

Spec == Init /\ [][Next]_avars

\* Commands do not keep the vehicle on an untrusted view.
RevokedEventually ==
  holder = "commands" /\ ~trusted ~> holder # "commands" \/ trusted
=============================================================================
