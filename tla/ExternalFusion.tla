--------------------------- MODULE ExternalFusion ---------------------------
(***************************************************************************)
(* The external_fusion node: the positioning source and the range sensor,  *)
(* with their timeouts, and what is sent to PX4 and to uav_control.  Time  *)
(* is counted in ticks, in each of which every timer fires at least once.  *)
(***************************************************************************)
EXTENDS Integers, Sequences

CONSTANTS
  OdomTimeout, DistanceTimeout, Px4Timeout,   \* in ticks
  QueueSize      \* of a topic: the oldest message makes room

ASSUME TimeoutsAssumption ==
  {OdomTimeout, DistanceTimeout, Px4Timeout, QueueSize} \subseteq Nat \ {0}

VARIABLES
  source, enable_range_sensor,   \* parameters
  stamp_age,                     \* of external_odom.header.stamp
  odom_valid,
  range_age, distance_timeout,   \* the stamp of distance_sensor
  px4_age, connected,            \* px4_state_time
  px4_queue,                     \* px4_state messages on their way to uav_control
  pos_age, z_age                 \* history: how old the position and the height are

odometry == <<stamp_age, odom_valid, pos_age, z_age>>
range == <<range_age, distance_timeout>>
fc_link == <<px4_age, connected>>
fusionVars == <<source, enable_range_sensor, odometry, range, fc_link, px4_queue>>

Sources == {"ODOM", "POSE", "GAZEBO", "MOCAP", "VIOBOT", "GPS", "RTK", "VINS"}
Limit == OdomTimeout + DistanceTimeout + 3    \* the largest age the properties tell apart
Never == Limit + 1                            \* nothing has arrived

\* distance_timeout is not initialised.
FusionInit(sources, ranges) ==
  /\ source \in sources /\ enable_range_sensor \in ranges
  /\ stamp_age = 0 /\ odom_valid = FALSE /\ pos_age = 0 /\ z_age = 0
  /\ range_age = Never /\ distance_timeout \in BOOLEAN
  /\ px4_age = Px4Timeout + 3 /\ connected = FALSE
  /\ px4_queue = <<>>

\* A publication on a topic with a subscriber's queue.
Enqueue(queue, msg) ==
  LET q == Append(queue, msg) IN IF Len(q) > QueueSize THEN Tail(q) ELSE q

----------------------------------------------------------------------------
(* The source.                                                             *)

Stamped == stamp_age' = 0 /\ pos_age' = 0 /\ UNCHANGED odom_valid

\* OdomCallback and PosCallback.
OdomCallback ==
  /\ source \in {"ODOM", "GAZEBO", "POSE", "MOCAP"}
  /\ Stamped /\ z_age' = 0
  /\ UNCHANGED <<source, enable_range_sensor, range, fc_link, px4_queue>>

\* Mutant of viobotCallback: the height is the sensor's whenever that is enabled.
viobotAlwaysRange ==
  /\ source = "VIOBOT"
  /\ Stamped
  /\ z_age' = IF enable_range_sensor THEN range_age ELSE 0
  /\ UNCHANGED <<source, enable_range_sensor, range, fc_link, px4_queue>>

\* The height is the range sensor's while that is not timed out.
viobotCallback ==
  /\ source = "VIOBOT"
  /\ Stamped
  /\ z_age' = IF enable_range_sensor /\ ~distance_timeout THEN range_age ELSE 0
  /\ UNCHANGED <<source, enable_range_sensor, range, fc_link, px4_queue>>

\* Mutant of VelCallback: a velocity counts as a position.
VelStamps ==
  /\ source = "MOCAP"
  /\ stamp_age' = 0
  /\ UNCHANGED <<source, enable_range_sensor, odom_valid, pos_age, z_age, range, fc_link, px4_queue>>

\* The motion capture system's velocity leaves stamp and position as they are.
VelCallback ==
  /\ source = "MOCAP"
  /\ UNCHANGED fusionVars

px4_distance_callback ==
  /\ enable_range_sensor
  /\ range_age' = 0
  /\ UNCHANGED <<source, enable_range_sensor, odometry, distance_timeout, fc_link, px4_queue>>

px4_state_callback(c) ==
  /\ px4_age' = 0 /\ connected' = c
  /\ UNCHANGED <<source, enable_range_sensor, odometry, range, px4_queue>>

----------------------------------------------------------------------------
(* The timers.                                                             *)

timer_check_timeout_cb ==
  /\ odom_valid' = (stamp_age <= OdomTimeout)
  /\ distance_timeout' = IF enable_range_sensor THEN range_age > DistanceTimeout ELSE distance_timeout
  /\ UNCHANGED <<source, enable_range_sensor, stamp_age, pos_age, z_age, range_age, fc_link, px4_queue>>

\* timer_pub_vision_pose_cb: when the position goes to PX4.
enable_vision_pose == source \notin {"GPS", "RTK"}
SendsVision == enable_vision_pose /\ odom_valid

timer_pub_px4_state_cb ==
  /\ connected' = (connected /\ px4_age <= Px4Timeout)
  /\ px4_queue' = Enqueue(px4_queue, [connected |-> connected', odom_valid |-> odom_valid])
  /\ UNCHANGED <<source, enable_range_sensor, odometry, range, px4_age>>

----------------------------------------------------------------------------
Older(age, limit) == IF age >= limit THEN age ELSE age + 1
Ages ==
  /\ stamp_age' = Older(stamp_age, OdomTimeout + 3) /\ pos_age' = Older(pos_age, OdomTimeout + 3)
  /\ range_age' = Older(range_age, DistanceTimeout + 3) /\ z_age' = Older(z_age, Limit)
  /\ px4_age' = Older(px4_age, Px4Timeout + 3)
  /\ UNCHANGED <<source, enable_range_sensor, odom_valid, distance_timeout, connected, px4_queue>>
=============================================================================
