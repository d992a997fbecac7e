---------------------------- MODULE LandingProofs ----------------------------
(***************************************************************************)
(* The visual landing, proved for all times, tags and ways to run it.      *)
(*                                                                         *)
(* LandSpec, the node alone: its types; that what lowers the vehicle is    *)
(* not left standing after the tag is lost; that the final descent begins  *)
(* on a tag that is seen.  VisualSpec, the node with a demo, the           *)
(* multiplexer and the vehicle: the same invariant; that a paused demo is  *)
(* not heard; that the vehicle is not left out of control.                 *)
(***************************************************************************)
EXTENDS VisualLanding, TLAPS

\* A command that lowers the vehicle stands in the loop only while the tag is fresh, and
\* in the final descent for a time to react and a step; a node in flight has sent it, one
\* that waits for the demo to let go has not.
DescentInv ==
  uav_cmd \in Descending /\ pc # "done" =>
    /\ pc \in {"loop", "final"} /\ takeoff_ok
    /\ land_mode \in {"listen_hover", "route_land"} => engaged
    /\ pc = "loop" => tag_age < Fresh
    /\ tag_age <= React + 2 * Slack

GateOpen(t) == t.n >= 2 /\ t.xy = 0 /\ t.z <= 2

\* Past its warmup, a node that does not follow a route has its gate closed once the tag
\* is no longer fresh.
GateInv ==
  /\ pc = "wait_tag" => landing_point_num = 0
  /\ pc = "loop" /\ land_mode \in {"plain", "home_land"} /\ ~HomeApproach
       /\ landing_point_num > Warmup
     => tag_age < Fresh \/ ~GateOpen(tag)

\* Where the node takes over or descends: it flies, and in the modes that take over from
\* a demo it has.
PlaceInv ==
  /\ pc \in {"leaving", "returning"} => land_mode \in {"listen_hover", "route_land"}
  /\ pc \in {"leaving", "returning", "final"} =>
       takeoff_ok /\ (land_mode \in {"listen_hover", "route_land"} => engaged)
  /\ pc = "leaving" => count <= 3

LandInv == LandTypeOK /\ DescentInv /\ GateInv /\ PlaceInv

-----------------------------------------------------------------------------
(* Helpers.                                                                *)

\* The times, as numbers.
LEMMA Times ==
  /\ Fresh \in Nat /\ React \in Nat /\ Timeout \in Nat /\ Slack \in Nat /\ Warmup \in Nat
  /\ RouteWarmup \in Nat /\ PressTicks \in Nat /\ MaxAge \in Nat
  /\ Slack >= 1 /\ Fresh >= 1 /\ Warmup >= 1 /\ RouteWarmup >= 1 /\ PressTicks >= 1
  /\ Fresh <= Warmup /\ Fresh + Slack <= React /\ React + 2 * Slack < MaxAge
BY LandAssumption DEF MaxAge

\* A sleep of one tick.
LEMMA OneTick ==
  ASSUME tag_age \in 0 .. MaxAge, Sleep(1)
  PROVE  tag_age' \in 0 .. MaxAge /\ tag_age' <= tag_age + Slack
<1>1. PICK d \in 1 .. 1 * Slack : tag_age' = IF tag_age + d > MaxAge THEN MaxAge ELSE tag_age + d
  BY DEF Sleep
<1>2. QED
  BY <1>1, Times

\* A sleep of two ticks.
LEMMA TwoTicks ==
  ASSUME tag_age \in 0 .. MaxAge, Sleep(2)
  PROVE  tag_age' \in 0 .. MaxAge /\ tag_age' <= tag_age + 2 * Slack
<1>1. PICK d \in 2 .. 2 * Slack : tag_age' = IF tag_age + d > MaxAge THEN MaxAge ELSE tag_age + d
  BY DEF Sleep
<1>2. QED
  BY <1>1, Times

\* What a hold and an alignment publish, and that the lock keeps its type.
LEMMA LockTypes ==
  ASSUME lock \in Locks
  PROVE  /\ SendHold => lock' \in Locks /\ uav_cmd' = "hold" /\ wire' = "hold"
         /\ \A c : SendAlign(c) => lock' \in Locks /\ uav_cmd' = c /\ wire' = c
BY DEF SendHold, SendAlign, Publish, Locks

\* A branch of the landing, taken after p iterations of warmup on the tests made on t.
LEMMA LandBranchDoes ==
  ASSUME LandTypeOK, tag_age' \in 0 .. MaxAge, UNCHANGED tag, pc \in {"loop", "returning"},
         NEW p \in 0 .. Warmup + RouteWarmup, NEW t \in TagType, NEW precise \in BOOLEAN,
         LandBranch(p, t, precise)
  PROVE  /\ landing_point_num' \in 0 .. Warmup + RouteWarmup \/ UNCHANGED landing_point_num
         /\ lock' \in Locks /\ precision_align' \in BOOLEAN
         /\ count' = 0 \/ UNCHANGED count
         /\ pc' \in {"loop", "final", "done"}
         /\ uav_cmd' \in LandCmds \union {NoCmd} /\ wire' \in LandCmds \union {NoCmd}
         /\ pc' = "loop" /\ uav_cmd' \in Descending => tag_age' < Fresh
         /\ pc' = "final" => UNCHANGED uav_cmd
         /\ pc' = "loop" /\ landing_point_num' > Warmup =>
              tag_age' < Fresh \/ (p > Warmup /\ ~(precise /\ GateOpen(t)))
         /\ pc' # "loop" =>
              \/ precise /\ p > Warmup /\ GateOpen(t)
              \/ LandOnLostTag /\ tag_age' > Timeout
<1> DEFINE Gate == precise /\ p > Warmup /\ t.n >= 2 /\ t.xy = 0 /\ t.z <= 2
<1>1. tag \in TagType /\ lock \in Locks /\ landing_point_num \in 0 .. Warmup + RouteWarmup
      /\ uav_cmd \in LandCmds \union {NoCmd} /\ wire \in LandCmds \union {NoCmd}
  BY DEF LandTypeOK
<1>2. CASE precision_align' = precise /\ FinalGate(p, t) /\ EnterFinal
  BY <1>1, <1>2 DEF FinalGate, GateOpen, EnterFinal, Publish, PublishNothing, Exit, LandCmds
<1>3. CASE /\ ~Gate /\ UNCHANGED count
           /\ tag_age' >= React /\ precision_align' = FALSE /\ LostTag
  <2>1. CASE LandOnLostTag /\ tag_age' > Timeout
    <3>1. /\ landing_point_num' = 0 /\ uav_cmd' = "Land" /\ wire' = "Land"
          /\ pc' = "done" /\ UNCHANGED <<lock, count>> /\ precision_align' = FALSE
      BY <1>3, <2>1 DEF LostTag, Publish, Exit
    <3>2. 0 \in 0 .. Warmup + RouteWarmup
      BY Times
    <3>3. QED
      BY <1>1, <2>1, <3>1, <3>2 DEF LandCmds
  <2>2. CASE ~(LandOnLostTag /\ tag_age' > Timeout)
    <3>1. SendHold /\ pc' = "loop" /\ landing_point_num' = 0
      BY <1>3, <2>2 DEF LostTag
    <3>2. lock' \in Locks /\ uav_cmd' = "hold" /\ wire' = "hold"
      BY <1>1, <3>1, LockTypes
    <3>3. 0 \in 0 .. Warmup + RouteWarmup /\ ~(0 > Warmup)
      BY Times
    <3>4. QED
      BY <1>3, <3>1, <3>2, <3>3 DEF LandCmds, Descending
  <2>3. QED
    BY <2>1, <2>2
<1>4. CASE /\ ~Gate /\ UNCHANGED count
           /\ tag_age' < Fresh /\ precision_align' = precise /\ AlignStep(p, t)
  <2>1. landing_point_num' \in 0 .. Warmup + RouteWarmup
    BY <1>4, Times DEF AlignStep
  <2>2. lock' \in Locks /\ uav_cmd' \in LandCmds \union {NoCmd}
        /\ wire' \in LandCmds \union {NoCmd}
    BY <1>1, <1>4, LockTypes DEF AlignStep, PublishNothing, LandCmds
  <2>3. QED
    BY <1>4, <2>1, <2>2 DEF AlignStep, GateOpen
<1>5. CASE /\ ~Gate /\ UNCHANGED count
           /\ tag_age' \in Fresh .. React - 1 /\ precision_align' = precise /\ TagGap(p)
  BY <1>1, <1>5, LockTypes, Times DEF TagGap, LandCmds, Descending, GateOpen
<1>6. QED
  BY <1>2, <1>3, <1>4, <1>5 DEF LandBranch

-----------------------------------------------------------------------------
(* The types.                                                              *)

\* What a step of the node may do to each variable; the types it keeps follow.
LEMMA NodeStepTypes ==
  ASSUME LandTypeOK, PlaceInv, NodeStep
  PROVE  LandTypeOK'
<1> USE Times
<1>0. /\ tag \in TagType /\ seen \in TagType /\ NoTag \in TagType /\ tag_age \in 0 .. MaxAge
      /\ lock \in Locks /\ count \in 0 .. PressTicks + 2 * Slack + 3
      /\ landing_point_num \in 0 .. Warmup + RouteWarmup /\ precision_align \in BOOLEAN
  BY DEF LandTypeOK, TagType, NoTag
<1>1. CASE SeesTag
  BY <1>1 DEF SeesTag, LandTypeOK, params
<1>2. CASE WaitTimesOut
  BY <1>2 DEF WaitTimesOut, LandTypeOK, params, Publish, LandCmds
<1>3. CASE Stops
  BY <1>0, <1>3, OneTick DEF Stops, LandTypeOK, rest, params, Publish, PublishNothing, Exit, LandCmds
<1>4. CASE WaitsForTakeoff
  BY <1>0, <1>4, OneTick DEF WaitsForTakeoff, LandTypeOK, rest, params, PublishNothing
<1>5. CASE AglLand
  BY <1>0, <1>5, OneTick DEF AglLand, InFlight, LandTypeOK, rest, params, Publish, Exit, LandCmds
<1>6. CASE HomeTakeover
  BY <1>0, <1>6, OneTick
  DEF HomeTakeover, InFlight, LandTypeOK, homeRest, rest, params, Publish, Precise, LandCmds
<1>7. CASE HomeGoto
  BY <1>0, <1>7, OneTick
  DEF HomeGoto, InFlight, LandTypeOK, homeRest, rest, params, Publish, Precise, LandCmds, Locks
<1>8. CASE HomeDwell
  BY <1>0, <1>8, OneTick
  DEF HomeDwell, InFlight, LandTypeOK, homeRest, rest, params, Publish, Precise, LandCmds
<1>9. CASE HomeDwellEnds
  BY <1>0, <1>9
  DEF HomeDwellEnds, LandTypeOK, homeRest, rest, params, Publish, Precise, LandCmds
<1>10. CASE ListenIdle
  BY <1>0, <1>10, OneTick DEF ListenIdle, InFlight, LandTypeOK, rest, params, Precise, PublishNothing
<1>11. CASE ListenGap
  BY <1>0, <1>11, OneTick, LockTypes DEF ListenGap, InFlight, LandTypeOK, rest, params, Precise, LandCmds
<1>12. CASE ListenAlign
  BY <1>0, <1>12, OneTick, LockTypes
  DEF ListenAlign, InFlight, LandTypeOK, rest, params, Precise, LandCmds
<1>13. CASE RouteIdle
  BY <1>0, <1>13, OneTick DEF RouteIdle, InFlight, LandTypeOK, rest, params, Precise, PublishNothing
<1>14. CASE Engage
  <2>1. setups' \in Seq({"WITHOUT_CONTROL", "CMD_CONTROL"})
    <3>1. setups' = setups \/ setups' = Append(setups, "WITHOUT_CONTROL")
      BY <1>14 DEF Engage
    <3>2. setups \in Seq({"WITHOUT_CONTROL", "CMD_CONTROL"})
      BY DEF LandTypeOK
    <3>3. QED
      BY <3>1, <3>2
  <2>2. pause_demo_active' \in BOOLEAN /\ pc' \in {"leaving", "returning"} /\ count' \in {0, 2}
    BY <1>14 DEF Engage, LandTypeOK
  <2>3. QED
    BY <1>0, <1>14, <2>1, <2>2, OneTick
    DEF Engage, InFlight, LandTypeOK, rest, params, Precise, PublishNothing
<1>15. CASE LeavesCmd
  BY <1>0, <1>15, OneTick DEF LeavesCmd, PlaceInv, LandTypeOK, rest, params, PublishNothing
<1>16. CASE WaitsForCmd
  BY <1>0, <1>16, OneTick DEF WaitsForCmd, LandTypeOK, rest, params, PublishNothing
<1>17. CASE RouteWarm
  BY <1>0, <1>17, OneTick, LockTypes
  DEF RouteWarm, RouteWarms, InFlight, LandTypeOK, rest, params, Precise, LandCmds
<1>18. CASE FinalPress
  BY <1>0, <1>18, TwoTicks DEF FinalPress, LandTypeOK, finalRest, rest, params, Publish, LandCmds
<1>19. CASE FinalDone
  BY <1>0, <1>19 DEF FinalDone, LandTypeOK, finalRest, rest, params, Publish, Exit, LandCmds
<1>20. CASE FinalAbort
  <2>1. CASE tag.z <= 1
    <3>1. /\ uav_cmd' = "Land" /\ wire' = "Land" /\ pc' = "done"
          /\ UNCHANGED <<finalRest, count, tag_age, precision_align, landing_point_num, lock>>
      BY <1>20, <2>1 DEF FinalAbort, Publish, Exit
    <3>2. QED
      BY <1>0, <3>1 DEF LandTypeOK, finalRest, rest, params, LandCmds
  <2>2. CASE ~(tag.z <= 1)
    <3>1. /\ landing_point_num' = 0 /\ precision_align' = FALSE /\ SendHold /\ pc' = "loop"
          /\ UNCHANGED <<finalRest, count, tag_age>>
      BY <1>20, <2>2 DEF FinalAbort
    <3>2. lock' \in Locks /\ uav_cmd' = "hold" /\ wire' = "hold"
      BY <1>0, <3>1, LockTypes
    <3>3. landing_point_num' \in 0 .. Warmup + RouteWarmup /\ uav_cmd' \in LandCmds
          /\ wire' \in LandCmds
      BY <3>1, <3>2 DEF LandCmds
    <3>4. UNCHANGED <<params, stop_flag, tag, agl, control_mode, seen, takeoff_ok, engaged, home_phase,
                      setups, pause_demo_active, count, tag_age>>
      BY <3>1 DEF finalRest, rest
    <3>5. QED
      BY <1>0, <3>1, <3>2, <3>3, <3>4 DEF LandTypeOK, params
  <2>3. QED
    BY <2>1, <2>2
<1>21. CASE TakenOver
  <2>1. tag_age' \in 0 .. MaxAge
    BY <1>0, <1>21, OneTick DEF TakenOver
  <2>2. CASE land_mode = "route_land" /\ tag_age' >= Fresh
    <3>1. LandBranch(Warmup + 1, seen, precision_align) /\ UNCHANGED tag /\ pc = "returning"
      BY <1>21, <2>2 DEF TakenOver, rest
    <3>2. /\ landing_point_num' \in 0 .. Warmup + RouteWarmup
          /\ lock' \in Locks /\ precision_align' \in BOOLEAN
          /\ count' \in 0 .. PressTicks + 2 * Slack + 3
          /\ pc' \in {"loop", "final", "done"}
          /\ uav_cmd' \in LandCmds \union {NoCmd} /\ wire' \in LandCmds \union {NoCmd}
      BY <1>0, <2>1, <3>1, LandBranchDoes
    <3>3. QED
      BY <1>0, <1>21, <2>1, <3>2 DEF TakenOver, LandTypeOK, rest, params
  <2>3. CASE ~(land_mode = "route_land" /\ tag_age' >= Fresh)
    BY <1>0, <1>21, <2>1, <2>3, LockTypes DEF TakenOver, LandTypeOK, rest, params, LandCmds
  <2>4. QED
    BY <2>2, <2>3
<1>22. CASE Landing
  <2>1. tag_age' \in 0 .. MaxAge /\ Precise \in BOOLEAN
    BY <1>0, <1>22, OneTick DEF Landing, InFlight, Precise
  <2>2. PICK p \in {landing_point_num, Warmup + 1} : LandBranch(p, tag, Precise)
    BY <1>22 DEF Landing
  <2>3. p \in 0 .. Warmup + RouteWarmup /\ UNCHANGED tag /\ pc = "loop"
    BY <1>0, <1>22, <2>2 DEF Landing, InFlight, rest
  <2>4. /\ landing_point_num' \in 0 .. Warmup + RouteWarmup
        /\ lock' \in Locks /\ precision_align' \in BOOLEAN
        /\ count' \in 0 .. PressTicks + 2 * Slack + 3
        /\ pc' \in {"loop", "final", "done"}
        /\ uav_cmd' \in LandCmds \union {NoCmd} /\ wire' \in LandCmds \union {NoCmd}
    BY <1>0, <2>1, <2>2, <2>3, LandBranchDoes
  <2>5. QED
    BY <1>0, <1>22, <2>1, <2>4 DEF Landing, InFlight, LandTypeOK, rest, params
<1>23. QED
  BY <1>1, <1>2, <1>3, <1>4, <1>5, <1>6, <1>7, <1>8, <1>9, <1>10, <1>11, <1>12, <1>13, <1>14,
     <1>15, <1>16, <1>17, <1>18, <1>19, <1>20, <1>21, <1>22 DEF NodeStep

-----------------------------------------------------------------------------
(* What stands while the tag is lost.                                      *)

\* Where a step of the node leads.
LEMMA NodeStepPlaces ==
  ASSUME LandTypeOK, PlaceInv, NodeStep
  PROVE  PlaceInv'
<1> USE DEF PlaceInv
<1>1. UNCHANGED land_mode
  BY DEF NodeStep, SeesTag, WaitTimesOut, Stops, WaitsForTakeoff, AglLand, HomeTakeover, HomeGoto,
         HomeDwell, HomeDwellEnds, ListenIdle, ListenGap, ListenAlign, RouteIdle, Engage, LeavesCmd,
         WaitsForCmd, TakenOver, RouteWarm, Landing, FinalPress, FinalDone, FinalAbort,
         homeRest, finalRest, rest, params
<1>2. CASE SeesTag \/ WaitTimesOut \/ Stops \/ WaitsForTakeoff \/ AglLand
  BY <1>2 DEF SeesTag, WaitTimesOut, Stops, WaitsForTakeoff, AglLand, Exit
<1>3. CASE HomeTakeover \/ HomeGoto \/ HomeDwell \/ HomeDwellEnds
  BY <1>3 DEF HomeTakeover, HomeGoto, HomeDwell, HomeDwellEnds, InFlight, homeRest
<1>4. CASE ListenIdle \/ ListenGap \/ ListenAlign \/ RouteIdle \/ RouteWarm
  BY <1>4 DEF ListenIdle, ListenGap, ListenAlign, RouteIdle, RouteWarm, InFlight
<1>5. CASE Engage
  BY <1>1, <1>5 DEF Engage, InFlight
<1>6. CASE LeavesCmd \/ WaitsForCmd
  BY <1>1, <1>6 DEF LeavesCmd, WaitsForCmd, LandTypeOK
<1>7. CASE TakenOver
  <2>1. pc' \in {"loop", "final", "done"}
    BY <1>7 DEF TakenOver, LandBranch, EnterFinal, LostTag, AlignStep, TagGap, Exit
  <2>2. takeoff_ok /\ engaged /\ UNCHANGED <<takeoff_ok, engaged>>
    BY <1>7 DEF TakenOver
  <2>3. QED
    BY <2>1, <2>2
<1>8. CASE Landing
  <2>1. pc' \in {"loop", "final", "done"}
    BY <1>8 DEF Landing, LandBranch, EnterFinal, LostTag, AlignStep, TagGap, Exit
  <2>2. takeoff_ok' /\ UNCHANGED engaged
        /\ (land_mode \in {"listen_hover", "route_land"} => engaged)
    BY <1>8 DEF Landing, InFlight
  <2>3. QED
    BY <1>1, <2>1, <2>2
<1>9. CASE FinalPress \/ FinalDone \/ FinalAbort
  BY <1>1, <1>9 DEF FinalPress, FinalDone, FinalAbort, finalRest, Exit
<1>10. QED
  BY <1>2, <1>3, <1>4, <1>5, <1>6, <1>7, <1>8, <1>9 DEF NodeStep

\* A step of the node keeps what is said of a command that lowers the vehicle.
LEMMA NodeStepDescends ==
  ASSUME LandTypeOK, PlaceInv, DescentInv, NodeStep
  PROVE  DescentInv'
<1> USE Times DEF DescentInv
<1>0. /\ tag \in TagType /\ seen \in TagType /\ tag_age \in 0 .. MaxAge
      /\ landing_point_num \in 0 .. Warmup + RouteWarmup /\ precision_align \in BOOLEAN
      /\ lock \in Locks
  BY DEF LandTypeOK
<1>1. UNCHANGED land_mode
  BY DEF NodeStep, SeesTag, WaitTimesOut, Stops, WaitsForTakeoff, AglLand, HomeTakeover, HomeGoto,
         HomeDwell, HomeDwellEnds, ListenIdle, ListenGap, ListenAlign, RouteIdle, Engage, LeavesCmd,
         WaitsForCmd, TakenOver, RouteWarm, Landing, FinalPress, FinalDone, FinalAbort,
         homeRest, finalRest, rest, params
<1>2. CASE SeesTag \/ WaitTimesOut \/ Stops \/ WaitsForTakeoff \/ AglLand
  BY <1>2 DEF SeesTag, WaitTimesOut, Stops, WaitsForTakeoff, AglLand, InFlight, Exit, Publish,
              PublishNothing, Descending
<1>3. CASE HomeTakeover \/ HomeGoto \/ HomeDwell \/ HomeDwellEnds
  BY <1>3 DEF HomeTakeover, HomeGoto, HomeDwell, HomeDwellEnds, Publish, Descending
<1>4. CASE ListenIdle \/ RouteIdle \/ Engage
  BY <1>4 DEF ListenIdle, RouteIdle, Engage, InFlight, PublishNothing
<1>5. CASE LeavesCmd \/ WaitsForCmd
  BY <1>5 DEF LeavesCmd, WaitsForCmd, PublishNothing
<1>6. CASE ListenGap \/ RouteWarm
  BY <1>0, <1>6, LockTypes DEF ListenGap, RouteWarm, Descending
<1>7. CASE ListenAlign
  BY <1>0, <1>1, <1>7, LockTypes, OneTick DEF ListenAlign, InFlight, Descending
<1>8. CASE TakenOver
  <2>1. tag_age' \in 0 .. MaxAge /\ UNCHANGED <<tag, takeoff_ok, engaged>> /\ pc = "returning"
    BY <1>0, <1>8, OneTick DEF TakenOver, rest
  <2>2. takeoff_ok /\ engaged
    BY <2>1 DEF PlaceInv
  <2>3. CASE land_mode = "route_land" /\ tag_age' >= Fresh
    <3>1. LandBranch(Warmup + 1, seen, precision_align)
      BY <1>8, <2>3 DEF TakenOver
    <3>2. /\ pc' \in {"loop", "final", "done"}
          /\ pc' = "loop" /\ uav_cmd' \in Descending => tag_age' < Fresh
          /\ pc' = "final" => UNCHANGED uav_cmd
      BY <1>0, <2>1, <3>1, LandBranchDoes
    <3>3. QED
      BY <2>1, <2>2, <3>2
  <2>4. CASE ~(land_mode = "route_land" /\ tag_age' >= Fresh)
    BY <1>0, <1>8, <2>4, LockTypes DEF TakenOver, Descending
  <2>5. QED
    BY <2>3, <2>4
<1>9. CASE Landing
  <2>1. /\ tag_age' \in 0 .. MaxAge /\ tag_age' <= tag_age + Slack /\ Precise \in BOOLEAN
        /\ UNCHANGED <<tag, engaged>> /\ pc = "loop" /\ takeoff_ok'
        /\ (land_mode \in {"listen_hover", "route_land"} => engaged)
    BY <1>0, <1>9, OneTick DEF Landing, InFlight, Precise, rest
  <2>2. PICK p \in {landing_point_num, Warmup + 1} : LandBranch(p, tag, Precise)
    BY <1>9 DEF Landing
  <2>3. /\ pc' \in {"loop", "final", "done"}
        /\ pc' = "loop" /\ uav_cmd' \in Descending => tag_age' < Fresh
        /\ pc' = "final" => UNCHANGED uav_cmd
    <3>1. p \in 0 .. Warmup + RouteWarmup
      BY <1>0, <2>2
    <3>2. QED
      BY <1>0, <2>1, <2>2, <3>1, LandBranchDoes
  <2>4. QED
    BY <1>0, <1>1, <2>1, <2>3
<1>10. CASE FinalPress
  BY <1>0, <1>1, <1>10, TwoTicks DEF FinalPress, FinalLost, PlaceInv, finalRest
<1>11. CASE FinalDone \/ FinalAbort
  BY <1>0, <1>11, LockTypes DEF FinalDone, FinalAbort, Publish, Exit, Descending
<1>12. QED
  BY <1>2, <1>3, <1>4, <1>5, <1>6, <1>7, <1>8, <1>9, <1>10, <1>11 DEF NodeStep

\* A step of the node keeps the gate closed on a tag that is not fresh.
LEMMA NodeStepGate ==
  ASSUME LandTypeOK, PlaceInv, GateInv, NodeStep
  PROVE  GateInv'
<1> USE Times DEF GateInv, HomeApproach
<1>0. /\ tag \in TagType /\ seen \in TagType /\ tag_age \in 0 .. MaxAge
      /\ landing_point_num \in 0 .. Warmup + RouteWarmup /\ precision_align \in BOOLEAN
      /\ lock \in Locks
  BY DEF LandTypeOK
<1>1. CASE SeesTag \/ WaitTimesOut \/ Stops \/ WaitsForTakeoff \/ AglLand
  BY <1>1 DEF SeesTag, WaitTimesOut, Stops, WaitsForTakeoff, AglLand, InFlight, Exit
<1>2. CASE HomeTakeover \/ HomeGoto \/ HomeDwell \/ HomeDwellEnds
  BY <1>2 DEF HomeTakeover, HomeGoto, HomeDwell, HomeDwellEnds, InFlight, homeRest, rest, params
<1>3. CASE \/ ListenIdle \/ ListenGap \/ ListenAlign
           \/ RouteIdle \/ Engage \/ RouteWarm
  BY <1>3 DEF ListenIdle, ListenGap, ListenAlign, RouteIdle, Engage, RouteWarm, InFlight, rest, params
<1>4. CASE LeavesCmd \/ WaitsForCmd
  BY <1>4 DEF LeavesCmd, WaitsForCmd, PlaceInv, rest, params
<1>5. CASE TakenOver
  <2>1. pc' # "wait_tag" /\ UNCHANGED land_mode /\ land_mode \in {"listen_hover", "route_land"}
    BY <1>5 DEF TakenOver, LandBranch, EnterFinal, LostTag, AlignStep, TagGap, Exit, PlaceInv, rest, params
  <2>2. QED
    BY <2>1
<1>6. CASE Landing
  <2>1. /\ tag_age' \in 0 .. MaxAge /\ Precise \in BOOLEAN
        /\ UNCHANGED <<tag, land_mode, home_phase>> /\ pc = "loop"
    BY <1>0, <1>6, OneTick DEF Landing, InFlight, Precise, rest, params
  <2>2. CASE land_mode = "route_land"
    <3>1. pc' # "wait_tag"
      BY <1>6 DEF Landing, LandBranch, EnterFinal, LostTag, AlignStep, TagGap, Exit
    <3>2. QED
      BY <2>1, <2>2, <3>1
  <2>3. CASE land_mode # "route_land"
    <3>1. LandBranch(landing_point_num, tag, Precise)
      BY <1>6, <2>3 DEF Landing
    <3>2. /\ pc' \in {"loop", "final", "done"}
          /\ pc' = "loop" /\ landing_point_num' > Warmup =>
               tag_age' < Fresh \/ (landing_point_num > Warmup /\ ~(Precise /\ GateOpen(tag)))
      BY <1>0, <2>1, <3>1, LandBranchDoes
    <3>3. GateOpen(tag) => Precise
      BY <1>0 DEF GateOpen, Precise, TagType
    <3>4. GateOpen(tag') <=> GateOpen(tag)
      BY <2>1
    <3>5. QED
      BY <2>1, <3>2, <3>3, <3>4
  <2>4. QED
    BY <2>2, <2>3
<1>7. CASE FinalPress \/ FinalDone \/ FinalAbort
  BY <1>7 DEF FinalPress, FinalDone, FinalAbort, Exit
<1>8. QED
  BY <1>1, <1>2, <1>3, <1>4, <1>5, <1>6, <1>7 DEF NodeStep

-----------------------------------------------------------------------------
(* The invariant of the node.                                              *)

\* What the callbacks and the vehicle's movement do.
LEMMA OutsideSteps ==
  ASSUME LandInv, Callbacks \/ Moves
  PROVE  LandInv'
<1> USE Times
<1>1. CASE TagCallback
  <2>1. LandTypeOK'
    BY <1>1, LandAssumption DEF TagCallback, LandTypeOK, LandInv, params
  <2>2. DescentInv' /\ GateInv' /\ PlaceInv'
    BY <1>1 DEF TagCallback, LandInv, DescentInv, GateInv, PlaceInv, HomeApproach, params
  <2>3. QED
    BY <2>1, <2>2 DEF LandInv
<1>2. CASE StopTutorialCallback
  BY <1>2 DEF StopTutorialCallback, LandInv, LandTypeOK, DescentInv, GateInv, PlaceInv, HomeApproach, params
<1>3. ASSUME NEW h \in AglBands, NEW m \in {"CMD_CONTROL", "other"}, UavStateCallback(h, m)
      PROVE  LandInv'
  BY <1>3 DEF UavStateCallback, LandInv, LandTypeOK, DescentInv, GateInv, PlaceInv, HomeApproach, params
<1>4. CASE Moves
  BY <1>4 DEF Moves, LandInv, LandTypeOK, DescentInv, GateInv, PlaceInv, HomeApproach, params, Locks
<1>5. QED
  BY <1>1, <1>2, <1>3, <1>4 DEF Callbacks

LEMMA LandStarts == LandInit => LandInv
<1>1. ASSUME LandInit PROVE LandTypeOK
  <2>1. /\ NoTag \in TagType /\ Fresh \in 0 .. MaxAge /\ 0 \in 0 .. PressTicks + 2 * Slack + 3
        /\ 0 \in 0 .. Warmup + RouteWarmup
    BY Times DEF NoTag, TagType
  <2>2. <<>> \in Seq({"WITHOUT_CONTROL", "CMD_CONTROL"})
    OBVIOUS
  <2>3. QED
    BY <1>1, <2>1, <2>2 DEF LandInit, LandTypeOK, Locks
<1>2. ASSUME LandInit PROVE DescentInv /\ GateInv /\ PlaceInv
  BY <1>2, Times DEF LandInit, DescentInv, GateInv, PlaceInv, NoCmd, Descending
<1>3. QED
  BY <1>1, <1>2 DEF LandInv

LEMMA LandSteps == LandInv /\ [LandNext]_landVars => LandInv'
<1> SUFFICES ASSUME LandInv, [LandNext]_landVars PROVE LandInv'
  OBVIOUS
<1>1. CASE NodeStep
  BY <1>1, NodeStepTypes, NodeStepPlaces, NodeStepDescends, NodeStepGate DEF LandInv
<1>2. CASE Callbacks \/ Moves
  BY <1>2, OutsideSteps
<1>3. CASE UNCHANGED landVars
  BY <1>3 DEF landVars, LandInv, LandTypeOK, DescentInv, GateInv, PlaceInv, HomeApproach, params
<1>4. QED
  BY <1>1, <1>2, <1>3 DEF LandNext

\* Where the landing node is, and what it has said, for every board and every timing.
THEOREM LandInvariant == LandSpec => []LandInv
<1>1. QED
  BY LandStarts, LandSteps, PTL DEF LandSpec

\* No command that lowers the vehicle outlives the sight of the board by more than the
\* time to react and one step of the final descent.
THEOREM DescentSafe == LandSpec => []DescentIsSeen
<1>1. LandInv => DescentIsSeen
  BY DEF LandInv, DescentInv, DescentIsSeen
<1>2. QED
  BY <1>1, LandInvariant, PTL

\* A step of the landing begins the final descent, or lands on the board, on a tag that
\* is not lost, unless the node follows a route.
LEMMA FinalSteps ==
  ASSUME LandInv, NodeStep, land_mode # "route_land", EntersFinal \/ LandsOnBoard
  PROVE  tag_age' < React
<1> USE Times DEF EntersFinal, LandsOnBoard
<1>0. /\ tag \in TagType /\ tag_age \in 0 .. MaxAge /\ precision_align \in BOOLEAN
      /\ landing_point_num \in 0 .. Warmup + RouteWarmup /\ lock \in Locks
  BY DEF LandInv, LandTypeOK
<1>1. CASE SeesTag \/ WaitTimesOut \/ Stops \/ WaitsForTakeoff \/ AglLand
  BY <1>1 DEF SeesTag, WaitTimesOut, Stops, WaitsForTakeoff, AglLand, InFlight, Exit
<1>2. CASE HomeTakeover \/ HomeGoto \/ HomeDwell \/ HomeDwellEnds
  BY <1>2 DEF HomeTakeover, HomeGoto, HomeDwell, HomeDwellEnds, homeRest
<1>3. CASE \/ ListenIdle \/ ListenGap \/ ListenAlign
           \/ RouteIdle \/ Engage \/ RouteWarm
  BY <1>3 DEF ListenIdle, ListenGap, ListenAlign, RouteIdle, Engage, RouteWarm, InFlight
<1>4. CASE LeavesCmd \/ WaitsForCmd
  BY <1>4 DEF LeavesCmd, WaitsForCmd
<1>5. CASE TakenOver
  BY <1>5 DEF TakenOver, LandInv, PlaceInv
<1>6. CASE Landing
  <2>1. /\ tag_age' \in 0 .. MaxAge /\ tag_age' <= tag_age + Slack /\ Precise \in BOOLEAN
        /\ UNCHANGED tag /\ pc = "loop" /\ land_mode \in {"plain", "home_land"} /\ ~HomeApproach
        /\ LandBranch(landing_point_num, tag, Precise)
    BY <1>0, <1>6, OneTick DEF Landing, InFlight, Precise, rest
  <2>2. CASE LandOnLostTag /\ tag_age' > Timeout
    \* Such a Land is not the board's, and the final descent begins at the gate.
    <3>1. pc' # "done"
      BY <1>6, <2>1, <2>2 DEF Landing, InFlight
    <3>2. pc' = "final" => FinalGate(landing_point_num, tag)
      BY <2>1 DEF LandBranch, LostTag, AlignStep, TagGap, Exit
    <3>3. EntersFinal
      BY <3>1
    <3>4. FinalGate(landing_point_num, tag)
      BY <3>2, <3>3
    <3>5. tag_age < Fresh
      BY <2>1, <3>4 DEF LandInv, GateInv, GateOpen, FinalGate
    <3>6. QED
      BY <1>0, <2>1, <3>5
  <2>3. CASE ~(LandOnLostTag /\ tag_age' > Timeout)
    <3>1. landing_point_num > Warmup /\ GateOpen(tag)
      BY <1>0, <2>1, <2>3, LandBranchDoes DEF LandInv
    <3>2. tag_age < Fresh
      BY <2>1, <3>1 DEF LandInv, GateInv
    <3>3. QED
      BY <1>0, <2>1, <3>2
  <2>4. QED
    BY <2>2, <2>3
<1>7. CASE FinalPress \/ FinalDone \/ FinalAbort
  BY <1>7 DEF FinalPress, FinalDone, FinalAbort
<1>8. QED
  BY <1>1, <1>2, <1>3, <1>4, <1>5, <1>6, <1>7 DEF NodeStep

\* The final descent, and a Land for being low over the board, begin on a tag that is
\* not lost, unless the node follows a route.
THEOREM FinalSafe == LandSpec => FinalOnTag
<1>1. ASSUME LandInv, [LandNext]_landVars
      PROVE  [land_mode # "route_land" /\ (EntersFinal \/ LandsOnBoard) => tag_age' < React]_landVars
  <2>1. CASE NodeStep
    BY <1>1, <2>1, FinalSteps
  <2>2. CASE Callbacks \/ Moves
    BY <2>2 DEF Callbacks, TagCallback, StopTutorialCallback, UavStateCallback, Moves, EntersFinal,
                LandsOnBoard
  <2>3. QED
    BY <1>1, <2>1, <2>2 DEF LandNext
<1>2. QED
  BY <1>1, LandInvariant, PTL DEF LandSpec, FinalOnTag

-----------------------------------------------------------------------------
(* The node with a demo, the multiplexer and the vehicle.                  *)

\* The multiplexer holds nothing of the demo as the node's.
VisionInv == last_vision # NoMuxCmd => last_vision.from = "node"

\* A node that has left CMD_CONTROL has asked for it again, or will before anything else.
ControlInv ==
  /\ pc # "leaving" /\ setups # <<>> => setups[Len(setups)] = "CMD_CONTROL"
  /\ vehicle.mode = "WITHOUT_CONTROL" => setups # <<>> \/ pc = "leaving"

VisualInv == VisualTypeOK /\ LandInv /\ VisionInv /\ ControlInv

\* The requests for a mode, as a queue.
LEMMA Queue ==
  ASSUME NEW S, NEW s \in Seq(S)
  PROVE  /\ \A e \in S : /\ Append(s, e) \in Seq(S) /\ Append(s, e) # <<>>
                         /\ Append(s, e)[Len(Append(s, e))] = e
         /\ s # <<>> => /\ Head(s) \in S /\ Tail(s) \in Seq(S)
                        /\ Tail(s) = <<>> => Head(s) = s[Len(s)]
                        /\ Tail(s) # <<>> => Tail(s)[Len(Tail(s))] = s[Len(s)]
OBVIOUS

\* A step of the node in the composition.
LEMMA NodeTurnKeeps ==
  ASSUME VisualInv, NodeTurn
  PROVE  VisualInv'
<1>1. LandInv'
  BY NodeStepTypes, NodeStepPlaces, NodeStepDescends, NodeStepGate DEF VisualInv, LandInv, NodeTurn
<1>2. UNCHANGED <<demoRouteVars, muxVars, vehicle>> /\ NodeStep
  BY DEF NodeTurn
<1>3. pause_wire' \in {"on", "off", NoCmd}
  BY DEF NodeTurn, VisualInv, VisualTypeOK
<1>4. ControlInv'
  <2>1. CASE UNCHANGED setups /\ (pc = "leaving" <=> pc' = "leaving")
    BY <1>2, <2>1 DEF VisualInv, ControlInv
  <2>2. CASE Engage
    BY <1>2, <2>2 DEF Engage, InFlight, VisualInv, ControlInv
  <2>3. CASE LeavesCmd
    <3>1. setups \in Seq({"WITHOUT_CONTROL", "CMD_CONTROL"})
      BY DEF VisualInv, LandInv, LandTypeOK
    <3>2. CASE UNCHANGED <<pc, setups>>
      BY <1>2, <3>2 DEF VisualInv, ControlInv
    <3>3. CASE setups' = Append(setups, "CMD_CONTROL")
      BY <1>2, <3>1, <3>3, Queue DEF ControlInv
    <3>4. QED
      BY <2>3, <3>2, <3>3 DEF LeavesCmd
  <2>4. CASE TakenOver \/ Landing
    BY <2>1, <2>4 DEF TakenOver, Landing, InFlight, LandBranch, EnterFinal, LostTag, AlignStep, TagGap, Exit
  <2>5. ~(Engage \/ LeavesCmd \/ TakenOver \/ Landing) =>
          UNCHANGED setups /\ (pc = "leaving" <=> pc' = "leaving")
    BY <1>2 DEF NodeStep, SeesTag, WaitTimesOut, Stops, WaitsForTakeoff, AglLand, HomeTakeover, HomeGoto,
         HomeDwell, HomeDwellEnds, ListenIdle, ListenGap, ListenAlign, RouteIdle,
         WaitsForCmd, RouteWarm, FinalPress, FinalDone, FinalAbort, InFlight, Exit, homeRest, finalRest
  <2>6. QED
    BY <2>1, <2>2, <2>3, <2>4, <2>5
<1>5. QED
  BY <1>1, <1>2, <1>3, <1>4
  DEF VisualInv, VisualTypeOK, LandInv, RouteTypeOK, VisionInv, demoRouteVars, muxVars

\* The steps of the demo.
LEMMA DemoKeeps ==
  ASSUME VisualInv, DemoTurn \/ DemoHears
  PROVE  VisualInv'
<1>1. UNCHANGED <<landVars, muxVars, pause_wire, vehicle>>
  BY DEF DemoTurn, DemoHears
<1>2. RouteTypeOK'
  BY DEF VisualInv, VisualTypeOK, RouteTypeOK, RoutePhases, DemoTurn, DemoHears, UavStateHeard, RouteStep,
         AsksForCmd, GivesUp, Arms, TakesOff, Flies, Lands, Landed, Commands
<1>3. LandInv'
  BY <1>1 DEF landVars, params, VisualInv, LandInv, LandTypeOK, DescentInv, GateInv, PlaceInv, HomeApproach
<1>4. QED
  BY <1>1, <1>2, <1>3 DEF VisualInv, VisualTypeOK, LandInv, VisionInv, ControlInv, muxVars, landVars

\* Receiving a command changes nothing of the node but the message that was on its way.
LEMMA TakenMessages ==
  ASSUME VisualInv, TakeFromNode \/ TakeFromDemo
  PROVE  LandInv' /\ RouteTypeOK' /\ UNCHANGED <<setups, pc>>
<1>1. CASE TakeFromNode
  BY <1>1
  DEF TakeFromNode, nodeButWire, params, VisualInv, VisualTypeOK, LandInv, LandTypeOK, DescentInv, GateInv,
      PlaceInv, HomeApproach, RouteTypeOK, demoRouteVars
<1>2. CASE TakeFromDemo
  BY <1>2
  DEF TakeFromDemo, landVars, params, VisualInv, VisualTypeOK, LandInv, LandTypeOK, DescentInv, GateInv,
      PlaceInv, HomeApproach, RouteTypeOK
<1>3. QED
  BY <1>1, <1>2

\* A command given to the vehicle does not take it out of control.
LEMMA ObeysKeeps ==
  ASSUME vehicle \in UavState, NEW c, Obeys(c)
  PROVE  vehicle' \in UavState
         /\ (vehicle'.mode = "WITHOUT_CONTROL" => vehicle.mode = "WITHOUT_CONTROL")
BY DEF Obeys, UavState

\* What the multiplexer and the vehicle take.
LEMMA MessagesKeep ==
  ASSUME VisualInv, MuxHears \/ MuxTurn \/ VehicleTakes
  PROVE  VisualInv'
<1>1. CASE MuxHears
  <2>1. CASE TakeFromNode /\ vision_cb(From("node", wire)) /\ UNCHANGED <<pause_wire, vehicle>>
    BY <2>1, TakenMessages DEF vision_cb, From, VisualInv, VisualTypeOK, LandInv, VisionInv, ControlInv
  <2>2. CASE TakeFromDemo /\ demo_cb(From("demo", demo_cmd)) /\ UNCHANGED <<pause_wire, vehicle>>
    BY <2>2, TakenMessages DEF demo_cb, VisualInv, VisualTypeOK, LandInv, VisionInv, ControlInv
  <2>3. CASE /\ pause_cb(pause_wire = "on") /\ pause_wire' = NoCmd
             /\ UNCHANGED <<landVars, demoRouteVars, vehicle>>
    BY <2>3
    DEF pause_cb, landVars, demoRouteVars, params, VisualInv, VisualTypeOK, LandInv, LandTypeOK, DescentInv,
        GateInv, PlaceInv, HomeApproach, RouteTypeOK, VisionInv, ControlInv
  <2>4. QED
    BY <1>1, <2>1, <2>2, <2>3 DEF MuxHears
<1>2. CASE MuxTurn
  <2>1. vehicle' \in UavState /\ (vehicle'.mode = "WITHOUT_CONTROL" => vehicle.mode = "WITHOUT_CONTROL")
    BY <1>2, ObeysKeeps DEF MuxTurn, VisualInv, VisualTypeOK
  <2>2. UNCHANGED <<landVars, demoRouteVars, pause_wire, last_vision>>
    BY <1>2 DEF MuxTurn, Forward
  <2>3. QED
    BY <2>1, <2>2
    DEF landVars, demoRouteVars, params, VisualInv, VisualTypeOK, LandInv, LandTypeOK, DescentInv,
        GateInv, PlaceInv, HomeApproach, RouteTypeOK, VisionInv, ControlInv
<1>3. CASE VehicleTakes
  <2>1. vehicle' \in UavState /\ (vehicle'.mode = "WITHOUT_CONTROL" => vehicle.mode = "WITHOUT_CONTROL")
    BY <1>3, ObeysKeeps DEF VehicleTakes, VisualInv, VisualTypeOK
  <2>2. UNCHANGED <<muxVars, pause_wire>> /\ (TakeFromNode \/ TakeFromDemo)
    BY <1>3 DEF VehicleTakes
  <2>3. QED
    BY <2>1, <2>2, TakenMessages DEF VisualInv, VisualTypeOK, LandInv, VisionInv, ControlInv, muxVars
<1>4. QED
  BY <1>1, <1>2, <1>3

\* Requests granted, the end of a landing, and what the node hears.
LEMMA VehicleKeeps ==
  ASSUME VisualInv, VehicleSetUp \/ TouchesDown \/ NodeHears
  PROVE  VisualInv'
<1>0. vehicle \in UavState /\ setups \in Seq({"WITHOUT_CONTROL", "CMD_CONTROL"})
      /\ demo_setup \in {NoRoute, "CMD_CONTROL", "ARM"}
  BY DEF VisualInv, VisualTypeOK, LandInv, LandTypeOK, RouteTypeOK
<1>1. CASE /\ setups # <<>> /\ Enters(Head(setups)) /\ setups' = Tail(setups)
           /\ UNCHANGED <<nodeButWire, wire, demoRouteVars, muxVars, pause_wire>>
  <2>1. Head(setups) \in {"WITHOUT_CONTROL", "CMD_CONTROL"}
        /\ setups' \in Seq({"WITHOUT_CONTROL", "CMD_CONTROL"})
    BY <1>0, <1>1, Queue
  <2>2. vehicle' = [vehicle EXCEPT !.mode = Head(setups)] /\ vehicle' \in UavState
    BY <1>0, <1>1, <2>1 DEF Enters, UavState
  <2>3. ControlInv'
    <3>1. UNCHANGED pc
      BY <1>1 DEF nodeButWire
    <3>2. CASE Tail(setups) = <<>> /\ pc # "leaving"
      BY <1>0, <1>1, <2>2, <3>1, <3>2, Queue DEF VisualInv, ControlInv, UavState
    <3>3. CASE Tail(setups) # <<>> \/ pc = "leaving"
      BY <1>0, <1>1, <3>1, <3>3, Queue DEF VisualInv, ControlInv
    <3>4. QED
      BY <3>2, <3>3
  <2>4. LandInv'
    BY <1>1, <2>1
    DEF nodeButWire, params, VisualInv, LandInv, LandTypeOK, DescentInv, GateInv, PlaceInv, HomeApproach
  <2>5. QED
    BY <1>1, <2>2, <2>3, <2>4
    DEF VisualInv, VisualTypeOK, LandInv, RouteTypeOK, VisionInv, demoRouteVars, muxVars
<1>2. CASE /\ demo_setup # NoRoute /\ Enters(demo_setup) /\ demo_setup' = NoRoute
           /\ UNCHANGED <<landVars, phase, heard, demo_cmd, muxVars, pause_wire>>
  <2>1. vehicle' \in UavState /\ (vehicle'.mode = "WITHOUT_CONTROL" => vehicle.mode = "WITHOUT_CONTROL")
    BY <1>0, <1>2 DEF Enters, UavState
  <2>2. QED
    BY <1>2, <2>1
    DEF landVars, params, VisualInv, VisualTypeOK, LandInv, LandTypeOK, DescentInv, GateInv, PlaceInv,
        HomeApproach, RouteTypeOK, VisionInv, ControlInv, muxVars
<1>3. CASE TouchesDown
  BY <1>3
  DEF TouchesDown, UavState, landVars, params, VisualInv, VisualTypeOK, LandInv, LandTypeOK, DescentInv, GateInv,
      PlaceInv, HomeApproach, RouteTypeOK, VisionInv, ControlInv, demoRouteVars, muxVars
<1>4. CASE NodeHears
  <2>1. Callbacks /\ UNCHANGED <<demoRouteVars, muxVars, pause_wire, vehicle>>
    BY <1>4 DEF NodeHears, Callbacks, AglBands
  <2>2. LandInv'
    BY <2>1, OutsideSteps DEF VisualInv
  <2>3. UNCHANGED <<pc, setups>>
    BY <2>1 DEF Callbacks, TagCallback, StopTutorialCallback, UavStateCallback
  <2>4. QED
    BY <2>1, <2>2, <2>3
    DEF VisualInv, VisualTypeOK, LandInv, RouteTypeOK, VisionInv, ControlInv, demoRouteVars, muxVars
<1>5. QED
  BY <1>1, <1>2, <1>3, <1>4 DEF VehicleSetUp

LEMMA VisualStarts == VisualInit => VisualInv
<1> SUFFICES ASSUME VisualInit PROVE VisualInv
  OBVIOUS
<1>1. LandInv
  BY LandStarts DEF VisualInit
<1>2. VisualTypeOK
  BY <1>1 DEF VisualInit, RouteInit, VisualTypeOK, LandInv, RouteTypeOK, RoutePhases, UavState
<1>3. VisionInv /\ ControlInv
  BY DEF VisualInit, LandInit, MuxInit, VisionInv, ControlInv
<1>4. QED
  BY <1>1, <1>2, <1>3 DEF VisualInv

LEMMA VisualSteps == VisualInv /\ [VisualNext]_vars => VisualInv'
<1> SUFFICES ASSUME VisualInv, [VisualNext]_vars PROVE VisualInv'
  OBVIOUS
<1>1. CASE VisualNext
  BY <1>1, NodeTurnKeeps, DemoKeeps, MessagesKeep, VehicleKeeps DEF VisualNext
<1>2. CASE UNCHANGED vars
  BY <1>2
  DEF vars, landVars, params, VisualInv, VisualTypeOK, LandInv, LandTypeOK, DescentInv, GateInv, PlaceInv,
      HomeApproach, RouteTypeOK, VisionInv, ControlInv, demoRouteVars, muxVars
<1>3. QED
  BY <1>1, <1>2

\* The same with a demo, the multiplexer and the vehicle around the node: the types, what
\* is said of descents, what the multiplexer holds, and who has control.
THEOREM VisualInvariant == VisualSpec => []VisualInv
<1>1. QED
  BY VisualStarts, VisualSteps, PTL DEF VisualSpec

\* The landing node takes the vehicle out of every control mode only while it still has a
\* request to come back on its way.
THEOREM ControlComesBack == VisualSpec => []NotLeftWithoutControl
<1>1. VisualInv => NotLeftWithoutControl
  BY DEF VisualInv, ControlInv, NotLeftWithoutControl
<1>2. QED
  BY <1>1, VisualInvariant, PTL

\* A paused demo is not heard.
THEOREM PausedDemoNotHeard == VisualSpec => PausedDemoIsSilent
<1>1. ASSUME VisualInv, [VisualNext]_vars, vision_active, out' # out
      PROVE  ~ByDemo(out')
  <2>1. CASE MuxTurn
    <3>1. out' = HoverCmd \/ (out' = last_vision /\ last_vision # NoMuxCmd)
      BY <1>1, <2>1 DEF MuxTurn, Forward, Selected
    <3>2. ~ByDemo(HoverCmd)
      BY HoverAssumption DEF From, ByDemo
    <3>3. last_vision # NoMuxCmd => ~ByDemo(last_vision)
      BY <1>1 DEF VisualInv, VisionInv, ByDemo
    <3>4. QED
      BY <3>1, <3>2, <3>3
  <2>2. CASE ~MuxTurn
    BY <1>1, <2>2
    DEF VisualNext, NodeTurn, NodeHears, DemoTurn, DemoHears, MuxHears, VehicleTakes, VehicleSetUp,
        TouchesDown, vision_cb, demo_cb, pause_cb, muxVars, vars
  <2>3. QED
    BY <2>1, <2>2
<1>2. ASSUME VisualInv, [VisualNext]_vars
      PROVE  [vision_active /\ out' # out => ~ByDemo(out')]_vars
  BY <1>1, <1>2
<1>3. QED
  BY <1>2, VisualInvariant, PTL DEF VisualSpec, PausedDemoIsSilent
=============================================================================
