--------------------------- MODULE AutoLandByPose ---------------------------
(***************************************************************************)
(* The visual landing (auto_land_by_pose.cpp): one node that watches the   *)
(* landing board, takes the vehicle over from a demo, aligns it with the   *)
(* board and lands it.  Four ways to run it: "plain" (the vehicle hovers   *)
(* already), "home_land" (kill the demo, fly home, dwell, land),           *)
(* "listen_hover" (hover over the board, never land) and "route_land"      *)
(* (interrupt the demo as soon as the board is seen, and land).            *)
(*                                                                         *)
(* Time is counted in ticks of the main loop's sleep (50 ms); a sleep may  *)
(* last up to Slack times as long.  A reading of the board is abstracted   *)
(* to the thresholds the code compares it with; the averages of the last   *)
(* five readings may follow one another in any order.  bench_mode, which   *)
(* does not fly, and auto_takeoff are left out.                            *)
(***************************************************************************)
EXTENDS Integers, Sequences

CONSTANTS
  LandModes,      \* the ways to run the node
  MuxChoices,     \* values of use_cmd_mux: with the multiplexer or without
  LandOnLostTag,  \* land_on_lost_tag
  Tags,           \* readings of the board
  Fresh,          \* ticks a reading is fresh: 0.5 s
  React,          \* ticks until the tag counts as lost: lost_tag_react
  Timeout,        \* ticks until land_on_lost_tag lands: lost_tag_timeout
  Slack,          \* a sleep of one tick lasts 1..Slack ticks
  Warmup,         \* iterations with a fresh tag before the first correction: 10
  RouteWarmup,    \* route_warmup_frames
  PressTicks      \* ticks the final descent lasts: land_time

\* n: markers recognised; xy: 0 within error_xy, 1 within approach_xy, 2 further;
\* z: 0 below final_land_z, 1 below 1.3 times that, 2 below error_z,
\* 3 below listen_min_z_rel, 4 above.
TagType == [n: {0, 1, 2, 4}, xy: 0..2, z: 0..4]

\* x_rel, y_rel, z_rel and n_markers are zero until a tag is seen.
NoTag == [n |-> 0, xy |-> 0, z |-> 0]

ASSUME LandAssumption ==
  /\ LandModes \subseteq {"plain", "home_land", "listen_hover", "route_land"}
  /\ MuxChoices \subseteq BOOLEAN /\ LandOnLostTag \in BOOLEAN
  /\ Tags \subseteq TagType \ {NoTag}
  /\ {Fresh, React, Timeout, Slack, Warmup, RouteWarmup, PressTicks} \subseteq Nat \ {0}
  \* a warmup takes longer than one reading is fresh, and between two iterations
  \* a fresh reading does not get lost
  /\ Fresh <= Warmup /\ Fresh + Slack <= React
  /\ React + 2 * Slack < Timeout

MaxAge == Timeout + 1     \* bound: older readings are as old

VARIABLES
  land_mode,        \* home_land_mode, listen_hover_mode, route_land_mode
  use_cmd_mux,
  pc,               \* where main is
  count,            \* turns of the inner loop main is in
  tag, tag_age,     \* the last reading; time since last_time
  seen,             \* the reading the iteration's tests were made on
  stop_flag, takeoff_ok, precision_align, landing_point_num,
  engaged,          \* route_engaged, listen_engaged
  home_phase,
  lock,             \* z_lock: none, or where it is from the vehicle's height
  uav_cmd,          \* the last command published
  wire,             \* the last command published and not received
  setups,           \* setup requests published and not received
  pause_demo_active,
  agl, control_mode \* uav_state: height band over home, control mode

params == <<land_mode, use_cmd_mux>>   \* fixed for a run of the node

landVars == <<params, pc, count, tag, tag_age, seen, stop_flag, takeoff_ok,
              precision_align, landing_point_num, engaged, home_phase, lock,
              uav_cmd, wire, setups, pause_demo_active, agl, control_mode>>

\* Body commands of the landing by what they do to the height: "hold", "align"
\* (height locked), "slow" and "down" (lock lowered), "press" (velocity down).
LandCmds == {"Hover", "hold", "align", "slow", "down", "press", "goto", "Land"}
Descending == {"slow", "down", "press"}
NoCmd == "none"

\* Height over home: 0 not above land_agl, 1 below min_start_z, 2 above.
AglBands == 0..2
Locks == {"none", "below", "at", "above"}

LandTypeOK ==
  /\ land_mode \in LandModes /\ use_cmd_mux \in MuxChoices
  /\ pc \in {"wait_tag", "loop", "leaving", "returning", "final", "done"}
  /\ count \in 0..PressTicks + 2 * Slack + 3
  /\ tag \in TagType /\ seen \in TagType /\ tag_age \in 0..MaxAge
  /\ {stop_flag, takeoff_ok, precision_align, engaged, pause_demo_active} \subseteq BOOLEAN
  /\ landing_point_num \in 0..Warmup + RouteWarmup
  /\ home_phase \in {"TAKEOVER", "GOTO", "DWELL", "LAND_ACTIVE"}
  /\ lock \in Locks
  /\ uav_cmd \in LandCmds \union {NoCmd} /\ wire \in LandCmds \union {NoCmd}
  /\ setups \in Seq({"WITHOUT_CONTROL", "CMD_CONTROL"})
  /\ agl \in AglBands /\ control_mode \in {"CMD_CONTROL", "other"}

LandInit ==
  /\ land_mode \in LandModes /\ use_cmd_mux \in MuxChoices
  /\ pc = (IF land_mode = "plain" THEN "wait_tag" ELSE "loop") /\ count = 0
  /\ tag = NoTag /\ seen = NoTag /\ tag_age = Fresh
  /\ stop_flag = FALSE /\ takeoff_ok = FALSE /\ precision_align = FALSE
  /\ landing_point_num = 0 /\ engaged = FALSE
  /\ home_phase = (IF land_mode = "home_land" THEN "TAKEOVER" ELSE "LAND_ACTIVE")
  /\ lock = "none" /\ uav_cmd = NoCmd /\ wire = NoCmd /\ setups = <<>>
  /\ pause_demo_active = FALSE
  /\ agl \in AglBands /\ control_mode \in {"CMD_CONTROL", "other"}

-----------------------------------------------------------------------------
(***************************************************************************)
(* Callbacks, run by spinOnce.                                             *)
(***************************************************************************)
TagCallback ==
  /\ pc # "done"
  /\ tag' \in Tags /\ tag_age' = 0
  /\ UNCHANGED <<params, pc, count, seen, stop_flag, takeoff_ok, precision_align,
                 landing_point_num, engaged, home_phase, lock, uav_cmd, wire, setups,
                 pause_demo_active, agl, control_mode>>

StopTutorialCallback ==
  /\ pc # "done"
  /\ stop_flag' = TRUE
  /\ UNCHANGED <<params, pc, count, tag, tag_age, seen, takeoff_ok, precision_align,
                 landing_point_num, engaged, home_phase, lock, uav_cmd, wire, setups,
                 pause_demo_active, agl, control_mode>>

UavStateCallback(height, mode) ==
  /\ pc # "done"
  /\ agl' = height /\ control_mode' = mode
  /\ UNCHANGED <<params, pc, count, tag, tag_age, seen, stop_flag, takeoff_ok,
                 precision_align, landing_point_num, engaged, home_phase, lock,
                 uav_cmd, wire, setups, pause_demo_active>>

-----------------------------------------------------------------------------
(***************************************************************************)
(* What the node sends.                                                    *)
(***************************************************************************)
Publish(c) == uav_cmd' = c /\ wire' = c
PublishNothing == UNCHANGED <<uav_cmd, wire>>

\* send_hold_cmd: at the locked height, which is the vehicle's if none is locked.
SendHold ==
  /\ lock' = (IF lock = "none" THEN "at" ELSE lock)
  /\ Publish("hold")

\* send_align_cmd: the lock is taken anew when it is far off, and lowered.
SendAlign(c) ==
  /\ \E from \in IF lock = "none" THEN {"at"} ELSE {lock, "at"} :
       lock' \in (IF c = "align" THEN {from}
                  ELSE IF from = "above" THEN {"above", "at", "below"} ELSE {"below"})
  /\ Publish(c)

\* A sleep of t ticks.
Sleep(t) == tag_age' \in {IF tag_age + d > MaxAge THEN MaxAge ELSE tag_age + d :
                            d \in t..t * Slack}

Exit == pc' = "done"

-----------------------------------------------------------------------------
(***************************************************************************)
(* The wait for a first tag ("plain").                                     *)
(***************************************************************************)
SeesTag ==
  /\ pc = "wait_tag" /\ tag # NoTag
  /\ pc' = "loop"
  /\ UNCHANGED <<params, count, tag, tag_age, seen, stop_flag, takeoff_ok,
                 precision_align, landing_point_num, engaged, home_phase, lock,
                 uav_cmd, wire, setups, pause_demo_active, agl, control_mode>>

\* Twenty seconds without a tag.
WaitTimesOut ==
  /\ pc = "wait_tag" /\ tag = NoTag
  /\ pc' = "loop"
  /\ tag_age' = MaxAge
  /\ Publish("Land")
  /\ UNCHANGED <<params, count, tag, seen, stop_flag, takeoff_ok, precision_align,
                 landing_point_num, engaged, home_phase, lock, setups,
                 pause_demo_active, agl, control_mode>>

-----------------------------------------------------------------------------
(***************************************************************************)
(* The main loop.  Each iteration sleeps a tick and takes the first of the *)
(* branches below that applies.                                            *)
(***************************************************************************)
rest == <<params, tag, stop_flag, agl, control_mode>>   \* set by callbacks only

\* Mutant of Stops: the stop is looked at after the wait for the takeoff.
StopsInFlight ==
  /\ pc = "loop" /\ Sleep(1) /\ stop_flag /\ takeoff_ok
  /\ Exit
  /\ PublishNothing
  /\ UNCHANGED <<rest, count, seen, takeoff_ok, precision_align, landing_point_num,
                 engaged, home_phase, lock, setups, pause_demo_active>>

Stops ==
  /\ pc = "loop" /\ Sleep(1) /\ stop_flag
  /\ Exit
  /\ IF land_mode = "plain"
     THEN Publish("Land") /\ UNCHANGED <<engaged, pause_demo_active>>
     ELSE PublishNothing /\ engaged' = FALSE /\ pause_demo_active' = FALSE
  /\ UNCHANGED <<rest, count, seen, takeoff_ok, precision_align, landing_point_num,
                 home_phase, lock, setups>>

WaitsForTakeoff ==
  /\ pc = "loop" /\ Sleep(1) /\ ~stop_flag
  /\ ~takeoff_ok /\ agl < 2
  /\ landing_point_num' = 0
  /\ PublishNothing
  /\ UNCHANGED <<rest, pc, count, seen, takeoff_ok, precision_align, engaged,
                 home_phase, lock, setups, pause_demo_active>>

HomeApproach == land_mode = "home_land" /\ home_phase # "LAND_ACTIVE"

AglLow == land_mode # "listen_hover" /\ ~HomeApproach /\ agl = 0

\* Past the tests on stop_flag and takeoff_ok.
InFlight == pc = "loop" /\ Sleep(1) /\ ~stop_flag
            /\ (takeoff_ok \/ agl = 2) /\ takeoff_ok' = TRUE

AglLand ==
  /\ InFlight /\ AglLow
  /\ Publish("Land") /\ Exit
  /\ UNCHANGED <<rest, count, seen, precision_align, landing_point_num, engaged,
                 home_phase, lock, setups, pause_demo_active>>

\* align_exit_markers is 0: no count of markers ends the fine alignment.
Precise == precision_align \/ tag.n >= 1

homeRest == <<rest, pc, count, seen, engaged, setups, pause_demo_active>>

\* kill_gui_demo_routes: Hover, the demos are killed, Hover.
HomeTakeover ==
  /\ InFlight /\ HomeApproach /\ home_phase = "TAKEOVER"
  /\ home_phase' = "GOTO"
  /\ precision_align' = Precise
  /\ Publish("Hover")
  /\ UNCHANGED <<homeRest, lock, landing_point_num>>

HomeGoto ==
  /\ InFlight /\ HomeApproach /\ home_phase = "GOTO"
  /\ \/ home_phase' = "DWELL" /\ lock' = "at"      \* at_home_position
     \/ UNCHANGED <<home_phase, lock>>
  /\ precision_align' = Precise
  /\ Publish("goto")
  /\ UNCHANGED <<homeRest, landing_point_num>>

HomeDwell ==
  /\ InFlight /\ HomeApproach /\ home_phase = "DWELL"
  /\ precision_align' = Precise
  /\ Publish("goto")
  /\ UNCHANGED <<homeRest, home_phase, lock, landing_point_num>>

\* The last iteration of the dwell, which restarts the tag's clock.
HomeDwellEnds ==
  /\ pc = "loop" /\ ~stop_flag /\ takeoff_ok
  /\ HomeApproach /\ home_phase = "DWELL"
  /\ home_phase' = "LAND_ACTIVE"
  /\ tag_age' = 0 /\ landing_point_num' = 0
  /\ precision_align' = Precise
  /\ Publish("goto")
  /\ UNCHANGED <<homeRest, takeoff_ok, lock>>

-----------------------------------------------------------------------------
\* Listening: no command until a fresh tag engages the node.
ListenIdle ==
  /\ InFlight /\ land_mode = "listen_hover" /\ ~engaged
  /\ tag_age' >= Fresh
  /\ landing_point_num' = 0 /\ precision_align' = Precise
  /\ PublishNothing
  /\ UNCHANGED <<rest, pc, count, seen, engaged, home_phase, lock, setups,
                 pause_demo_active>>

ListenGap ==
  /\ InFlight /\ land_mode = "listen_hover" /\ engaged
  /\ tag_age' >= Fresh
  /\ precision_align' = Precise
  /\ SendHold
  /\ UNCHANGED <<rest, pc, count, seen, landing_point_num, engaged, home_phase,
                 setups, pause_demo_active>>

\* The descent for more markers only over the board, and not below the minimum.
ListenDescends == tag.xy <= 1 /\ tag.n < 4 /\ tag.z > 3

\* listen_warmup_frames is RouteWarmup too: both are three.
ListenAlign ==
  /\ InFlight /\ land_mode = "listen_hover" /\ engaged
  /\ tag_age' < Fresh
  /\ precision_align' = Precise
  /\ IF landing_point_num < RouteWarmup
     THEN landing_point_num' = landing_point_num + 1 /\ SendHold
     ELSE /\ UNCHANGED landing_point_num
          /\ SendAlign(IF ListenDescends THEN "slow" ELSE "align")
  /\ UNCHANGED <<rest, pc, count, seen, engaged, home_phase, setups, pause_demo_active>>

-----------------------------------------------------------------------------
\* Following a route: nothing is sent until a fresh tag.
RouteIdle ==
  /\ InFlight /\ ~AglLow /\ land_mode = "route_land" /\ ~engaged
  /\ tag_age' >= Fresh
  /\ landing_point_num' = 0 /\ precision_align' = Precise
  /\ PublishNothing
  /\ UNCHANGED <<rest, pc, count, seen, engaged, home_phase, lock, setups,
                 pause_demo_active>>

\* A fresh tag: set_pause_demo with the multiplexer, else interrupt_teacher_route,
\* whose waits run callbacks while the iteration keeps the tests it made.
Engage ==
  /\ InFlight /\ ~AglLow /\ land_mode \in {"listen_hover", "route_land"} /\ ~engaged
  /\ tag_age' < Fresh
  /\ engaged' = TRUE /\ landing_point_num' = 0 /\ precision_align' = Precise
  /\ seen' = tag
  /\ IF use_cmd_mux
     THEN /\ pause_demo_active' = TRUE /\ UNCHANGED setups
          /\ pc' = "returning"
          /\ count' = 2        \* nothing to wait for
     ELSE /\ setups' = Append(setups, "WITHOUT_CONTROL") /\ UNCHANGED pause_demo_active
          /\ pc' = "leaving" /\ count' = 0
  /\ PublishNothing
  /\ UNCHANGED <<rest, home_phase, lock>>

\* Mutant of LeavesCmd: no return to CMD_CONTROL when the wait is over.
LeavesForGood ==
  /\ pc = "leaving"
  /\ IF control_mode # "CMD_CONTROL" \/ count = 3
     THEN /\ setups' = (IF count = 3 THEN setups ELSE Append(setups, "CMD_CONTROL"))
          /\ pc' = "returning" /\ count' = 0 /\ UNCHANGED tag_age
     ELSE count' = count + 1 /\ Sleep(1) /\ UNCHANGED <<pc, setups>>
  /\ PublishNothing
  /\ UNCHANGED <<rest, seen, takeoff_ok, precision_align, landing_point_num, engaged,
                 home_phase, lock, pause_demo_active>>

\* At most three waits for a state that says CMD_CONTROL was left.
LeavesCmd ==
  /\ pc = "leaving"
  /\ IF control_mode # "CMD_CONTROL" \/ count = 3
     THEN /\ setups' = Append(setups, "CMD_CONTROL")
          /\ pc' = "returning" /\ count' = 0 /\ UNCHANGED tag_age
     ELSE count' = count + 1 /\ Sleep(1) /\ UNCHANGED <<pc, setups>>
  /\ PublishNothing
  /\ UNCHANGED <<rest, seen, takeoff_ok, precision_align, landing_point_num, engaged,
                 home_phase, lock, pause_demo_active>>

WaitsForCmd ==
  /\ pc = "returning"
  /\ control_mode # "CMD_CONTROL" /\ count < 2
  /\ count' = count + 1 /\ Sleep(1)
  /\ PublishNothing
  /\ UNCHANGED <<rest, pc, seen, takeoff_ok, precision_align, landing_point_num, engaged,
                 home_phase, lock, setups, pause_demo_active>>

-----------------------------------------------------------------------------
(***************************************************************************)
(* The landing.  p: landing_point_num; t: the reading the tests were made  *)
(* on, which is the last one except after interrupt_teacher_route.         *)
(***************************************************************************)
FinalGate(p, t) == /\ p > Warmup /\ precision_align'
                   /\ t.n >= 2 /\ t.xy = 0 /\ t.z <= 2

\* Low enough already: Land.  Else the final descent.
EnterFinal ==
  /\ UNCHANGED <<landing_point_num, lock>>
  /\ count' = 0
  /\ IF tag.z = 0 THEN Publish("Land") /\ Exit
                  ELSE PublishNothing /\ pc' = "final"

LostTag ==
  /\ landing_point_num' = 0
  /\ IF LandOnLostTag /\ tag_age' > Timeout
     THEN Publish("Land") /\ Exit /\ UNCHANGED lock
     ELSE SendHold /\ pc' = "loop"

\* Mutant of AlignStep: the warmup is not counted.
AlignStepUncounted(p, t) ==
  /\ landing_point_num' = p
  /\ pc' = "loop"
  /\ IF p < Warmup
     THEN PublishNothing /\ UNCHANGED lock
     ELSE SendAlign(IF tag.n < 2 THEN "align" ELSE IF t.xy > 0 THEN "slow" ELSE "down")

\* One marker: aligned at its height.  More: down, slowly while not over the board.
AlignStep(p, t) ==
  /\ landing_point_num' = (IF p > Warmup THEN p ELSE p + 1)
  /\ pc' = "loop"
  /\ IF p < Warmup
     THEN PublishNothing /\ UNCHANGED lock
     ELSE SendAlign(IF tag.n < 2 THEN "align" ELSE IF t.xy > 0 THEN "slow" ELSE "down")

\* Mutant of TagGap: the warmup goes on without the tag.
TagGapCounts(p) ==
  landing_point_num' = (IF p > Warmup THEN p ELSE p + 1) /\ SendHold /\ pc' = "loop"

TagGap(p) == landing_point_num' = p /\ SendHold /\ pc' = "loop"

LandBranch(p, t, precise) ==
  \/ /\ precision_align' = precise /\ FinalGate(p, t) /\ EnterFinal
  \/ /\ ~(precise /\ p > Warmup /\ t.n >= 2 /\ t.xy = 0 /\ t.z <= 2)
     /\ UNCHANGED count
     /\ \/ tag_age' >= React /\ precision_align' = FALSE /\ LostTag
        \/ tag_age' < Fresh /\ precision_align' = precise /\ AlignStep(p, t)
        \/ tag_age' \in Fresh..React - 1 /\ precision_align' = precise /\ TagGap(p)

RouteWarms == engaged /\ tag_age' < Fresh /\ landing_point_num < RouteWarmup

RouteWarm ==
  /\ InFlight /\ ~AglLow /\ land_mode = "route_land" /\ RouteWarms
  /\ landing_point_num' = landing_point_num + 1 /\ precision_align' = Precise
  /\ SendHold
  /\ UNCHANGED <<rest, pc, count, seen, engaged, home_phase, setups, pause_demo_active>>

Landing ==
  /\ InFlight /\ ~AglLow
  /\ \/ /\ land_mode \in {"plain", "home_land"} /\ ~HomeApproach
        /\ LandBranch(landing_point_num, tag, Precise)
     \/ /\ land_mode = "route_land" /\ engaged /\ ~RouteWarms
        /\ LandBranch(Warmup + 1, tag, Precise)
  /\ UNCHANGED <<rest, seen, engaged, home_phase, setups, pause_demo_active>>

\* The iteration that engaged goes on: a hold in its warmup, but on a route, if the
\* reading is no longer fresh, at once the landing.
TakenOver ==
  /\ pc = "returning"
  /\ control_mode = "CMD_CONTROL" \/ count = 2
  /\ IF use_cmd_mux THEN UNCHANGED tag_age ELSE Sleep(1)      \* Hover, three times
  /\ IF land_mode = "route_land" /\ tag_age' >= Fresh
     THEN LandBranch(Warmup + 1, seen, precision_align)
     ELSE /\ landing_point_num' = 1 /\ SendHold
          /\ pc' = "loop" /\ UNCHANGED <<count, precision_align>>
  /\ seen' = NoTag                                           \* not read again
  /\ UNCHANGED <<rest, takeoff_ok, engaged, home_phase, setups, pause_demo_active>>

-----------------------------------------------------------------------------
finalRest == <<rest, seen, takeoff_ok, engaged, home_phase, setups, pause_demo_active>>

FinalLost == tag_age > React \/ tag.n < 1

\* Mutant of FinalPress: the final descent does not look at the tag.
FinalPressBlind ==
  /\ pc = "final" /\ count < PressTicks /\ tag.z > 0
  /\ Publish("press") /\ Sleep(2) /\ count' = count + 2
  /\ UNCHANGED <<finalRest, pc, precision_align, landing_point_num, lock>>

FinalPress ==
  /\ pc = "final" /\ count < PressTicks /\ tag.z > 0 /\ ~FinalLost
  /\ Publish("press") /\ Sleep(2) /\ count' = count + 2
  /\ UNCHANGED <<finalRest, pc, precision_align, landing_point_num, lock>>

\* Mutant of FinalDone: the demo is released with the Land.
FinalDoneReleases ==
  /\ pc = "final"
  /\ count >= PressTicks \/ tag.z = 0
  /\ Publish("Land") /\ Exit /\ pause_demo_active' = FALSE
  /\ UNCHANGED <<rest, seen, takeoff_ok, engaged, home_phase, setups, count, tag_age,
                 precision_align, landing_point_num, lock>>

\* land_time is over, or final_land_z reached.
FinalDone ==
  /\ pc = "final"
  /\ count >= PressTicks \/ tag.z = 0
  /\ Publish("Land") /\ Exit
  /\ UNCHANGED <<finalRest, count, tag_age, precision_align, landing_point_num, lock>>

\* The tag is lost: Land all the same when low, else hold and start again.
FinalAbort ==
  /\ pc = "final" /\ count < PressTicks /\ tag.z > 0 /\ FinalLost
  /\ IF tag.z <= 1
     THEN Publish("Land") /\ Exit /\ UNCHANGED <<precision_align, landing_point_num, lock>>
     ELSE /\ landing_point_num' = 0 /\ precision_align' = FALSE
          /\ SendHold /\ pc' = "loop"
  /\ UNCHANGED <<finalRest, count, tag_age>>

NodeStep ==
  \/ SeesTag \/ WaitTimesOut \/ Stops \/ WaitsForTakeoff \/ AglLand
  \/ HomeTakeover \/ HomeGoto \/ HomeDwell \/ HomeDwellEnds
  \/ ListenIdle \/ ListenGap \/ ListenAlign
  \/ RouteIdle \/ Engage \/ LeavesCmd \/ WaitsForCmd \/ TakenOver
  \/ RouteWarm \/ Landing
  \/ FinalPress \/ FinalDone \/ FinalAbort

\* External: the vehicle's height follows the lock, and leaves it in a descent by
\* velocity.
Moves ==
  /\ pc # "done" /\ lock \in {"below", "at", "above"}
  /\ IF uav_cmd = "press" THEN lock' = "above"
     ELSE uav_cmd \in {"hold", "align", "slow", "down"} /\ lock' = "at"
  /\ UNCHANGED <<params, pc, count, tag, tag_age, seen, stop_flag, takeoff_ok,
                 precision_align, landing_point_num, engaged, home_phase, uav_cmd,
                 wire, setups, pause_demo_active, agl, control_mode>>

Callbacks ==
  \/ TagCallback \/ StopTutorialCallback
  \/ \E h \in AglBands, m \in {"CMD_CONTROL", "other"} : UavStateCallback(h, m)

LandNext == NodeStep \/ Callbacks \/ Moves

LandSpec == LandInit /\ [][LandNext]_landVars /\ WF_landVars(NodeStep)

-----------------------------------------------------------------------------
(***************************************************************************)
(* Properties.                                                             *)
(***************************************************************************)

EntersFinal == pc # "final" /\ pc' = "final"

\* A Land from the loop that is the board's doing: not the operator's stop, not the
\* height over home, not the limit of land_on_lost_tag.
LandsOnBoard == /\ pc \in {"loop", "returning"} /\ pc' = "done"
                /\ ~stop_flag /\ ~AglLow
                /\ ~(LandOnLostTag /\ tag_age' > Timeout)

\* Unless it follows a route, the node starts the final descent, or lands because
\* it is low over the board, only on a tag that is not lost: the loop makes the test
\* before it looks at the tag's age.
FinalOnTag ==
  [][land_mode # "route_land" /\ (EntersFinal \/ LandsOnBoard) => tag_age' < React]_landVars

\* A command that lowers the vehicle is not in effect for longer than the time to
\* react and one step of the final descent after the tag was last seen, whichever
\* branch the iterations take.
DescentIsSeen == pc # "done" /\ uav_cmd \in Descending => tag_age <= React + 2 * Slack

\* The operator's stop ends the node, also during waits and the final descent.
StopEnds == stop_flag ~> pc = "done"

\* Over the board, low and seen from then on, the vehicle is landed.
Settled == /\ tag_age < Fresh /\ tag.n >= 2 /\ tag.xy = 0 /\ tag.z <= 2
           /\ takeoff_ok /\ home_phase = "LAND_ACTIVE" /\ land_mode # "listen_hover"
LandsWhenSettled == <>[]Settled => <>(pc = "done")

-----------------------------------------------------------------------------
(***************************************************************************)
(* What comments say and the code does not do.                             *)
(***************************************************************************)

\* "No final descent to the ground after the tag is lost" (auto_land_by_pose.cpp:921),
\* in every way to run the node.
NoFinalAfterLoss == [][EntersFinal \/ LandsOnBoard => tag_age' < React]_landVars

\* "Hold (no climb, no Land)" (auto_land_by_pose.cpp:1166).
HoldNeverClimbs == uav_cmd = "hold" => lock # "above"

\* "Never a command while the vehicle is on the ground" (auto_land_by_pose.cpp:854).
SilentOnGround == [][~takeoff_ok' => UNCHANGED <<uav_cmd, wire>>]_landVars
=============================================================================
