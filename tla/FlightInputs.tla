---------------------------- MODULE FlightInputs ----------------------------
(***************************************************************************)
(* What uav_control is told: external_fusion and rc_control in front of    *)
(* its queues.  uav_control empties them once a turn, and in INIT a turn   *)
(* may take a second (mainLoop), during which the queues go on filling.    *)
(***************************************************************************)
EXTENDS ExternalFusion

CONSTANTS
  Readings,     \* of the receiver
  Sleep,        \* the ticks of the second in INIT
  Equipment     \* sets of sources and of range sensors, and which of "fc" and "rc" are heard

VARIABLES
  value_init, last, rc_queue, switches, excused,   \* rc_control
  inputs,       \* which of PX4 and the receiver are heard
  px4_state,    \* uav_control: the last px4_state
  heard,        \* uav_control: the place each switch was last said to be in
  asleep,       \* for how many ticks uav_control still sleeps
  due           \* what is still to happen in this tick

Rc == INSTANCE RcInput

ASSUME InputsAssumption ==
  /\ Sleep \in Nat /\ Readings \subseteq [Rc!Switches -> Int]
  /\ \A e \in Equipment : e.sources \subseteq Sources /\ e.ranges \subseteq BOOLEAN

receiver == <<value_init, last, rc_queue, switches, excused>>
consumer == <<px4_state, heard, asleep>>
inputVars == <<fusionVars, receiver, inputs, consumer, due>>

InputsInit ==
  /\ \E e \in Equipment : FusionInit(e.sources, e.ranges) /\ inputs = e.inputs
  /\ Rc!RcInit /\ ("rc" \notin inputs => ~value_init /\ last = CHOOSE r \in Readings : TRUE)
  /\ px4_state = [connected |-> FALSE, odom_valid |-> FALSE]
  /\ heard = [s \in Rc!Switches |-> "none"]
  /\ asleep = 0 /\ due = {"check", "publish", "turn"}

Receives ==
  /\ OdomCallback \/ viobotCallback \/ VelCallback \/ px4_distance_callback
     \/ ("fc" \in inputs /\ \E c \in BOOLEAN : px4_state_callback(c))
  /\ UNCHANGED <<receiver, inputs, consumer, due>>

\* Of the firings of a timer in a tick one is shown, at any moment of it.
Checks == /\ "check" \in due /\ timer_check_timeout_cb /\ due' = due \ {"check"}
          /\ UNCHANGED <<receiver, inputs, consumer>>
Publishes == /\ "publish" \in due /\ timer_pub_px4_state_cb /\ due' = due \ {"publish"}
             /\ UNCHANGED <<receiver, inputs, consumer>>

\* At most one message of the receiver a tick (10 Hz).
Switched == /\ "rc" \in inputs \intersect due /\ due' = due \ {"rc"}
            /\ \E now \in Readings : Rc!handle_rc_data(now)
            /\ UNCHANGED <<fusionVars, inputs, consumer>>

\* A turn of uav_control: all that has arrived, in order, and perhaps the sleep.
HeardAfter(queue, s) ==
  LET told == {i \in DOMAIN queue : queue[i][s] # "none"}
  IN  IF told = {} THEN heard[s] ELSE queue[CHOOSE i \in told : \A j \in told : j <= i][s]
Turn ==
  /\ "turn" \in due /\ due' = due \ {"turn"}
  /\ px4_state' = IF px4_queue = <<>> THEN px4_state ELSE px4_queue[Len(px4_queue)]
  /\ heard' = [s \in Rc!Switches |-> HeardAfter(rc_queue, s)]
  /\ px4_queue' = <<>> /\ rc_queue' = <<>>
  /\ asleep' \in {0, Sleep}
  /\ UNCHANGED <<source, enable_range_sensor, odometry, range, fc_link,
                 value_init, last, switches, excused, inputs>>

Tick ==
  /\ due \subseteq {"rc"}
  /\ Ages
  /\ asleep' = IF asleep = 0 THEN 0 ELSE asleep - 1
  /\ due' = {"check", "publish", "rc"} \union (IF asleep' = 0 THEN {"turn"} ELSE {})
  /\ UNCHANGED <<receiver, inputs, px4_state, heard>>

InputsNext == Receives \/ Checks \/ Publishes \/ Switched \/ Turn \/ Tick

InputsSpec == InputsInit /\ [][InputsNext]_inputVars

(***************************************************************************)
(* Properties.                                                             *)
(***************************************************************************)

\* Once a second of sleep is over and the turn is made, a source that has been silent for
\* its timeout is known to be lost, whatever else still arrives (timer_check_timeout_cb,
\* timer_pub_px4_state_cb, px4_state_callback), and so is a lost link to PX4.
SilenceIsSeen ==
  asleep = 0 /\ "turn" \notin due
    => /\ pos_age > OdomTimeout + 2 => ~px4_state.odom_valid
       /\ px4_age > Px4Timeout + 2 => ~px4_state.connected

\* PX4 is given no position, and no measured height, that is older than the timeouts
\* allow (viobotCallback, timer_pub_vision_pose_cb).
VisionIsRecent ==
  SendsVision => /\ pos_age <= OdomTimeout + 1
                 /\ z_age # Never => z_age <= OdomTimeout + DistanceTimeout + 2

\* When no message is waiting, uav_control has been told where each switch is, unless it
\* went there unseen (handle_rc_data, check_validity, rc_state_callback).
SwitchesAreHeard ==
  rc_queue = <<>> =>
    \A s \in Rc!Switches \ excused :
      Rc!Place(s, switches[s]) # "none" => heard[s] = Rc!Place(s, switches[s])

(***************************************************************************)
(* What the source says of itself and does not do.                         *)
(***************************************************************************)

\* "Uses the range sensor's height if it is enabled and has not timed out"
\* (ExternalPosition.h, viobotCallback): no height is taken from a sensor that was never heard.
HeightIsMeasured == z_age < Never
=============================================================================
