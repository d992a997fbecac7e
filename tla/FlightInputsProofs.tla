------------------------- MODULE FlightInputsProofs -------------------------
(***************************************************************************)
(* What uav_control is told, proved for all timeouts, queues and readings. *)
(* An age is compared with what was known of it at the last check, at the  *)
(* last publication and at the last turn, each of which is at most a tick  *)
(* older than the one before it.                                           *)
(***************************************************************************)
EXTENDS FlightInputs, TLAPS

Px4Msg == [connected : BOOLEAN, odom_valid : BOOLEAN]

InputsTypeOK ==
  /\ stamp_age \in Nat /\ pos_age \in Nat /\ z_age \in Nat
  /\ range_age \in Nat /\ px4_age \in Nat
  /\ odom_valid \in BOOLEAN /\ connected \in BOOLEAN
  /\ distance_timeout \in BOOLEAN /\ enable_range_sensor \in BOOLEAN
  /\ px4_state \in Px4Msg /\ px4_queue \in Seq(Px4Msg)
  /\ asleep \in Nat

\* What uav_control knows after its next turn.
Latest == IF px4_queue = <<>> THEN px4_state ELSE px4_queue[Len(px4_queue)]

\* A tick more while the timer has not yet fired in this one.
Pending(timer) == IF timer \in due THEN 1 ELSE 0

OdomKnown ==
  /\ pos_age = stamp_age
  /\ odom_valid => stamp_age <= OdomTimeout + Pending("check")
  /\ Latest.odom_valid => stamp_age <= OdomTimeout + 1 + Pending("publish")
  /\ asleep = 0 /\ "turn" \notin due /\ px4_state.odom_valid => stamp_age <= OdomTimeout + 2

LinkKnown ==
  /\ connected => px4_age <= Px4Timeout + Pending("publish")
  /\ Latest.connected => px4_age <= Px4Timeout + Pending("publish")
  /\ asleep = 0 /\ "turn" \notin due /\ px4_state.connected => px4_age <= Px4Timeout + 1

HeightKnown ==
  /\ enable_range_sensor /\ ~distance_timeout /\ range_age # Never
       => range_age <= DistanceTimeout + Pending("check")
  /\ z_age # Never => z_age <= Limit /\ z_age <= stamp_age + DistanceTimeout + 1
  /\ range_age # Never => range_age <= DistanceTimeout + 3

InputsInv == InputsTypeOK /\ OdomKnown /\ LinkKnown /\ HeightKnown

-----------------------------------------------------------------------------
\* The message published last is the last of the queue.
LEMMA EnqueueLast ==
  ASSUME NEW q \in Seq(Px4Msg), NEW m \in Px4Msg
  PROVE  /\ Enqueue(q, m) \in Seq(Px4Msg)
         /\ Enqueue(q, m) # <<>>
         /\ Enqueue(q, m)[Len(Enqueue(q, m))] = m
<1> DEFINE a == Append(q, m)
<1>1. a \in Seq(Px4Msg) /\ Len(a) = Len(q) + 1 /\ a[Len(a)] = m /\ Len(q) \in Nat
  OBVIOUS
<1>2. CASE Len(a) > QueueSize
  <2>1. Len(a) > 1
    BY <1>1, <1>2, TimeoutsAssumption
  <2>2. Tail(a) \in Seq(Px4Msg) /\ Len(Tail(a)) = Len(a) - 1 /\ Tail(a)[Len(a) - 1] = a[Len(a)]
    BY <1>1, <2>1
  <2>3. Enqueue(q, m) = Tail(a)
    BY <1>2 DEF Enqueue
  <2> HIDE DEF a
  <2>4. QED
    BY <1>1, <2>1, <2>2, <2>3
<1>3. CASE ~(Len(a) > QueueSize)
  <2>1. Enqueue(q, m) = a
    BY <1>3 DEF Enqueue
  <2>2. QED
    BY <1>1, <2>1
<1>4. QED
  BY <1>2, <1>3

\* The next age.
LEMMA OlderFacts ==
  ASSUME NEW age \in Nat, NEW limit \in Nat
  PROVE  /\ Older(age, limit) \in Nat
         /\ Older(age, limit) <= age + 1
         /\ age <= limit => Older(age, limit) <= limit
         /\ age >= limit => Older(age, limit) = age
BY DEF Older

LEMMA InitiallyKnown == InputsInit => InputsInv
<1> SUFFICES ASSUME InputsInit PROVE InputsInv
  OBVIOUS
<1>1. PICK e \in Equipment : FusionInit(e.sources, e.ranges)
  BY DEF InputsInit
<1>2. /\ enable_range_sensor \in BOOLEAN /\ odom_valid = FALSE
      /\ stamp_age = 0 /\ pos_age = 0 /\ z_age = 0 /\ range_age = Never
      /\ distance_timeout \in BOOLEAN /\ px4_age = Px4Timeout + 3 /\ connected = FALSE
      /\ px4_queue = <<>>
  BY <1>1, InputsAssumption DEF FusionInit
<1>3. /\ px4_state = [connected |-> FALSE, odom_valid |-> FALSE]
      /\ asleep = 0 /\ due = {"check", "publish", "turn"}
  BY DEF InputsInit
<1>4. InputsTypeOK
  <2>1. px4_state \in Px4Msg /\ px4_queue \in Seq(Px4Msg)
    BY <1>2, <1>3 DEF Px4Msg
  <2>2. Never \in Nat /\ Px4Timeout + 3 \in Nat
    BY TimeoutsAssumption DEF Never, Limit
  <2>3. QED
    BY <1>2, <1>3, <2>1, <2>2 DEF InputsTypeOK
<1>5. Latest = px4_state
  BY <1>2 DEF Latest
<1>6. px4_state.connected = FALSE /\ px4_state.odom_valid = FALSE
  BY <1>3
<1>7. OdomKnown /\ LinkKnown
  BY <1>2, <1>3, <1>5, <1>6, TimeoutsAssumption DEF OdomKnown, LinkKnown, Pending
<1>8. HeightKnown
  BY <1>2, TimeoutsAssumption DEF HeightKnown, Never, Limit
<1>9. QED
  BY <1>4, <1>7, <1>8 DEF InputsInv

-----------------------------------------------------------------------------
(* One step per action.                                                    *)

USE DEF InputsInv

LEMMA ReceivesKnown == InputsInv /\ Receives => InputsInv'
<1> SUFFICES ASSUME InputsInv, Receives PROVE InputsInv'
  OBVIOUS
<1>1. UNCHANGED <<px4_queue, px4_state, asleep, due, enable_range_sensor, odom_valid, distance_timeout>>
  BY DEF Receives, OdomCallback, viobotCallback, VelCallback, px4_distance_callback,
         px4_state_callback, consumer, fusionVars, odometry, range, fc_link, Stamped
<1>2. Latest' = Latest /\ \A t : Pending(t)' = Pending(t)
  BY <1>1 DEF Latest, Pending
<1>. /\ OdomTimeout \in Nat /\ DistanceTimeout \in Nat /\ Px4Timeout \in Nat
     /\ Pending("check") \in Nat /\ Pending("publish") \in Nat
     /\ Limit \in Nat /\ Never \in Nat /\ Limit' = Limit /\ Never' = Never
  BY TimeoutsAssumption DEF Pending, Never, Limit
<1>3. CASE OdomCallback
  <2>1. /\ stamp_age' = 0 /\ pos_age' = 0 /\ z_age' = 0
        /\ UNCHANGED <<range_age, px4_age, connected>>
    BY <1>3 DEF OdomCallback, Stamped, range, fc_link
  <2>2. InputsTypeOK'
    BY <1>1, <2>1 DEF InputsTypeOK
  <2>3. OdomKnown' /\ LinkKnown'
    BY <1>1, <1>2, <2>1 DEF OdomKnown, LinkKnown
  <2>4. HeightKnown'
    BY <1>1, <1>2, <2>1 DEF HeightKnown
  <2>5. QED
    BY <2>2, <2>3, <2>4
<1>4. CASE viobotCallback
  <2>1. /\ stamp_age' = 0 /\ pos_age' = 0 /\ UNCHANGED <<range_age, px4_age, connected>>
        /\ z_age' = IF enable_range_sensor /\ ~distance_timeout THEN range_age ELSE 0
    BY <1>4 DEF viobotCallback, Stamped, range, fc_link
  <2>2. InputsTypeOK'
    BY <1>1, <2>1 DEF InputsTypeOK
  <2>3. OdomKnown' /\ LinkKnown'
    BY <1>1, <1>2, <2>1, TimeoutsAssumption DEF OdomKnown, LinkKnown, Pending, InputsTypeOK
  <2>4. Pending("check") \in {0, 1} /\ Never' = Never /\ Limit' = Limit
    BY DEF Pending, Never, Limit
  <2>5. z_age' # Never => z_age' <= DistanceTimeout + 1
    BY <2>1, <2>4, TimeoutsAssumption DEF HeightKnown, InputsTypeOK
  <2>6. HeightKnown'
    BY <1>1, <1>2, <2>1, <2>4, <2>5, TimeoutsAssumption DEF HeightKnown, Limit, InputsTypeOK
  <2>7. QED
    BY <2>2, <2>3, <2>6
<1>5. CASE VelCallback
  BY <1>1, <1>2, <1>5
     DEF VelCallback, fusionVars, odometry, range, fc_link, InputsTypeOK, OdomKnown, LinkKnown,
         HeightKnown, Never, Limit
<1>6. CASE px4_distance_callback
  <2>1. range_age' = 0 /\ UNCHANGED <<stamp_age, pos_age, z_age, px4_age, connected>>
    BY <1>6 DEF px4_distance_callback, odometry, fc_link
  <2>2. InputsTypeOK'
    BY <1>1, <2>1 DEF InputsTypeOK
  <2>3. OdomKnown' /\ LinkKnown'
    BY <1>1, <1>2, <2>1 DEF OdomKnown, LinkKnown
  <2>4. HeightKnown'
    BY <1>1, <1>2, <2>1 DEF HeightKnown
  <2>5. QED
    BY <2>2, <2>3, <2>4
<1>7. ASSUME NEW c \in BOOLEAN, px4_state_callback(c) PROVE InputsInv'
  <2>1. px4_age' = 0 /\ connected' = c /\ UNCHANGED <<stamp_age, pos_age, z_age, range_age>>
    BY <1>7 DEF px4_state_callback, odometry, range
  <2>2. InputsTypeOK'
    BY <1>1, <2>1 DEF InputsTypeOK
  <2>3. OdomKnown' /\ LinkKnown'
    BY <1>1, <1>2, <2>1 DEF OdomKnown, LinkKnown
  <2>4. HeightKnown'
    BY <1>1, <1>2, <2>1 DEF HeightKnown
  <2>5. QED
    BY <2>2, <2>3, <2>4
<1>8. QED
  BY <1>3, <1>4, <1>5, <1>6, <1>7 DEF Receives

LEMMA ChecksKnown == InputsInv /\ Checks => InputsInv'
<1> SUFFICES ASSUME InputsInv, Checks PROVE InputsInv'
  OBVIOUS
<1>1. /\ UNCHANGED <<px4_queue, px4_state, asleep, enable_range_sensor, stamp_age, pos_age, z_age,
                     range_age, px4_age, connected>>
      /\ odom_valid' = (stamp_age <= OdomTimeout)
      /\ distance_timeout' = IF enable_range_sensor THEN range_age > DistanceTimeout
                                                     ELSE distance_timeout
      /\ due' = due \ {"check"}
  BY DEF Checks, timer_check_timeout_cb, consumer, fc_link
<1>2. Latest' = Latest /\ Pending("publish")' = Pending("publish") /\ Pending("check")' = 0
  BY <1>1 DEF Latest, Pending
<1>3. InputsTypeOK'
  <2>1. odom_valid' \in BOOLEAN
    BY <1>1
  <2>2. (range_age > DistanceTimeout) \in BOOLEAN
    BY TimeoutsAssumption DEF InputsTypeOK
  <2>3. distance_timeout' \in BOOLEAN
    BY <1>1, <2>2, Zenon DEF InputsTypeOK
  <2>4. QED
    BY <1>1, <2>1, <2>3 DEF InputsTypeOK
<1>. stamp_age \in Nat /\ px4_age \in Nat /\ OdomTimeout \in Nat /\ Px4Timeout \in Nat
  BY TimeoutsAssumption DEF InputsTypeOK
<1>4. /\ "turn" \in due' <=> "turn" \in due
      /\ odom_valid' => stamp_age <= OdomTimeout
  BY <1>1
<1>5. OdomKnown' /\ LinkKnown'
  BY <1>1, <1>2, <1>4 DEF OdomKnown, LinkKnown
<1>6. HeightKnown'
  BY <1>1, <1>2, TimeoutsAssumption DEF HeightKnown, InputsTypeOK, Never, Limit
<1>7. QED
  BY <1>3, <1>5, <1>6

LEMMA PublishesKnown == InputsInv /\ Publishes => InputsInv'
<1> SUFFICES ASSUME InputsInv, Publishes PROVE InputsInv'
  OBVIOUS
<1> DEFINE msg == [connected |-> connected', odom_valid |-> odom_valid]
<1>1. /\ UNCHANGED <<px4_state, asleep, enable_range_sensor, odom_valid, distance_timeout,
                     stamp_age, pos_age, z_age, range_age, px4_age>>
      /\ connected' = (connected /\ px4_age <= Px4Timeout)
      /\ px4_queue' = Enqueue(px4_queue, msg)
      /\ due' = due \ {"publish"}
  BY DEF Publishes, timer_pub_px4_state_cb, consumer, odometry, range
<1>2. msg \in Px4Msg /\ connected' \in BOOLEAN /\ px4_queue \in Seq(Px4Msg)
  BY <1>1 DEF Px4Msg, InputsTypeOK
<1>3. px4_queue' \in Seq(Px4Msg) /\ Latest' = msg
  BY <1>1, <1>2, EnqueueLast DEF Latest
<1>4. Latest'.connected = connected' /\ Latest'.odom_valid = odom_valid
  BY <1>3
<1>5. Pending("publish")' = 0 /\ Pending("check")' = Pending("check") /\ Pending("check") \in {0, 1}
  BY <1>1 DEF Pending
<1>6. InputsTypeOK'
  BY <1>1, <1>2, <1>3 DEF InputsTypeOK
<1> HIDE DEF msg
<1>. stamp_age \in Nat /\ px4_age \in Nat /\ OdomTimeout \in Nat /\ Px4Timeout \in Nat
  BY TimeoutsAssumption DEF InputsTypeOK
<1>7. /\ "turn" \in due' <=> "turn" \in due
      /\ connected' => connected /\ px4_age <= Px4Timeout
  BY <1>1
<1>8. OdomKnown' /\ LinkKnown'
  BY <1>1, <1>4, <1>5, <1>7 DEF OdomKnown, LinkKnown
<1>9. HeightKnown'
  BY <1>1, <1>5 DEF HeightKnown, Never, Limit
<1>10. QED
  BY <1>6, <1>8, <1>9

LEMMA SwitchedKnown == InputsInv /\ Switched => InputsInv'
<1> SUFFICES ASSUME InputsInv, Switched PROVE InputsInv'
  OBVIOUS
<1>1. UNCHANGED <<fusionVars, px4_state, asleep>> /\ due' = due \ {"rc"}
  BY DEF Switched, consumer
<1>2. UNCHANGED <<px4_queue, enable_range_sensor, odom_valid, distance_timeout, stamp_age, pos_age,
                  z_age, range_age, px4_age, connected>>
  BY <1>1 DEF fusionVars, odometry, range, fc_link
<1>3. Latest' = Latest /\ Pending("publish")' = Pending("publish") /\ Pending("check")' = Pending("check")
  BY <1>1, <1>2 DEF Latest, Pending
<1>4. QED
  BY <1>1, <1>2, <1>3 DEF InputsTypeOK, OdomKnown, LinkKnown, HeightKnown, Never, Limit

LEMMA TurnKnown == InputsInv /\ Turn => InputsInv'
<1> SUFFICES ASSUME InputsInv, Turn PROVE InputsInv'
  OBVIOUS
<1>1. /\ px4_state' = Latest /\ px4_queue' = <<>> /\ asleep' \in {0, Sleep} /\ due' = due \ {"turn"}
      /\ UNCHANGED <<enable_range_sensor, odom_valid, distance_timeout, stamp_age, pos_age,
                     z_age, range_age, px4_age, connected>>
  BY DEF Turn, Latest, odometry, range, fc_link
<1>2. Latest \in Px4Msg
  BY DEF InputsTypeOK, Latest
<1>3. Latest' = Latest
  BY <1>1 DEF Latest
<1>4. /\ Pending("publish")' = Pending("publish") /\ Pending("check")' = Pending("check")
      /\ Pending("publish") \in {0, 1}
  BY <1>1 DEF Pending
<1>5. InputsTypeOK'
  BY <1>1, <1>2, InputsAssumption DEF InputsTypeOK
<1>6. OdomKnown' /\ LinkKnown'
  BY <1>1, <1>3, <1>4, TimeoutsAssumption DEF OdomKnown, LinkKnown, InputsTypeOK
<1>7. HeightKnown'
  BY <1>1, <1>4 DEF HeightKnown, Never, Limit
<1>8. QED
  BY <1>5, <1>6, <1>7

LEMMA TickKnown == InputsInv /\ Tick => InputsInv'
<1> SUFFICES ASSUME InputsInv, Tick PROVE InputsInv'
  OBVIOUS
<1>1. /\ UNCHANGED <<px4_queue, px4_state, enable_range_sensor, odom_valid, distance_timeout, connected>>
      /\ due \subseteq {"rc"} /\ asleep' = IF asleep = 0 THEN 0 ELSE asleep - 1
      /\ due' = {"check", "publish", "rc"} \union (IF asleep' = 0 THEN {"turn"} ELSE {})
  BY DEF Tick, Ages
<1>2. /\ stamp_age' = Older(stamp_age, OdomTimeout + 3) /\ pos_age' = Older(pos_age, OdomTimeout + 3)
      /\ range_age' = Older(range_age, DistanceTimeout + 3) /\ z_age' = Older(z_age, Limit)
      /\ px4_age' = Older(px4_age, Px4Timeout + 3)
  BY DEF Tick, Ages
<1>3. Latest' = Latest
  BY <1>1 DEF Latest
<1>4. /\ Pending("publish") = 0 /\ Pending("check") = 0
      /\ Pending("publish")' = 1 /\ Pending("check")' = 1
  BY <1>1 DEF Pending
<1>5. /\ {OdomTimeout + 3, DistanceTimeout + 3, Px4Timeout + 3, Limit, Never} \subseteq Nat
      /\ Limit = OdomTimeout + DistanceTimeout + 3 /\ Never = Limit + 1
      /\ Never' = Never /\ Limit' = Limit
  BY TimeoutsAssumption DEF Limit, Never
<1>. /\ stamp_age \in Nat /\ pos_age \in Nat /\ range_age \in Nat /\ z_age \in Nat /\ px4_age \in Nat
     /\ OdomTimeout \in Nat /\ DistanceTimeout \in Nat /\ Px4Timeout \in Nat
  BY TimeoutsAssumption DEF InputsTypeOK
<1>6. InputsTypeOK'
  <2>1. /\ stamp_age' \in Nat /\ pos_age' \in Nat /\ range_age' \in Nat /\ z_age' \in Nat
        /\ px4_age' \in Nat
    BY <1>2, <1>5, OlderFacts DEF InputsTypeOK
  <2>2. asleep' \in Nat
    BY <1>1 DEF InputsTypeOK
  <2>3. QED
    BY <1>1, <2>1, <2>2 DEF InputsTypeOK
<1>7. OdomKnown'
  <2>1. pos_age' = stamp_age' /\ stamp_age' <= stamp_age + 1
    BY <1>2, <1>5, OlderFacts DEF OdomKnown, InputsTypeOK
  <2>2. asleep' = 0 => "turn" \in due'
    BY <1>1
  <2>3. QED
    BY <1>1, <1>3, <1>4, <1>6, <2>1, <2>2, TimeoutsAssumption DEF OdomKnown, InputsTypeOK
<1>8. LinkKnown'
  <2>1. px4_age' <= px4_age + 1
    BY <1>2, <1>5, OlderFacts DEF InputsTypeOK
  <2>2. asleep' = 0 => "turn" \in due'
    BY <1>1
  <2>3. QED
    BY <1>1, <1>3, <1>4, <1>6, <2>1, <2>2, TimeoutsAssumption DEF LinkKnown, InputsTypeOK
<1>9. HeightKnown'
  <2>1. /\ range_age' <= range_age + 1
        /\ range_age <= DistanceTimeout + 3 => range_age' <= DistanceTimeout + 3
        /\ range_age = Never => range_age' = Never
    <3>1. DistanceTimeout + 3 \in Nat /\ Never >= DistanceTimeout + 3
      BY <1>5
    <3>2. range_age' = IF range_age >= DistanceTimeout + 3 THEN range_age ELSE range_age + 1
      BY <1>2 DEF Older
    <3>3. QED
      BY <3>1, <3>2
  <2>2. z_age = Never => z_age' = Never
    BY <1>2, <1>5, OlderFacts DEF InputsTypeOK
  <2>3. ASSUME z_age # Never
        PROVE  z_age' <= Limit /\ z_age' <= stamp_age' + DistanceTimeout + 1
    <3>1. z_age <= Limit /\ z_age <= stamp_age + DistanceTimeout + 1
      BY <2>3 DEF HeightKnown
    <3>2. z_age' <= Limit /\ z_age' <= z_age + 1 /\ z_age' \in Nat
      BY <1>2, <1>5, <3>1, OlderFacts DEF InputsTypeOK
    <3>3. CASE stamp_age < OdomTimeout + 3
      <4>1. stamp_age' = stamp_age + 1
        BY <1>2, <3>3, TimeoutsAssumption DEF Older, InputsTypeOK
      <4>2. QED
        BY <3>1, <3>2, <4>1
    <3>4. CASE stamp_age >= OdomTimeout + 3
      <4>1. stamp_age' = stamp_age
        BY <1>2, <3>4 DEF Older
      <4>2. QED
        BY <1>5, <3>2, <3>4, <4>1
    <3>5. QED
      BY <3>3, <3>4
  <2>4. range_age # Never => range_age <= DistanceTimeout + 3
    BY DEF HeightKnown
  <2>5. enable_range_sensor' /\ ~distance_timeout' /\ range_age' # Never
          => range_age' <= DistanceTimeout + Pending("check")'
    <3>1. CASE range_age = Never
      BY <2>1, <3>1, <1>5
    <3>2. CASE range_age # Never /\ enable_range_sensor /\ ~distance_timeout
      <4>1. range_age <= DistanceTimeout
        BY <1>4, <3>2 DEF HeightKnown
      <4>2. QED
        BY <1>4, <1>6, <2>1, <4>1 DEF InputsTypeOK
    <3>3. QED
      BY <1>1, <3>1, <3>2
  <2>6. QED
    BY <1>5, <2>1, <2>2, <2>3, <2>4, <2>5 DEF HeightKnown
<1>10. QED
  BY <1>6, <1>7, <1>8, <1>9

LEMMA StutterKnown == InputsInv /\ UNCHANGED inputVars => InputsInv'
<1> SUFFICES ASSUME InputsInv, UNCHANGED inputVars PROVE InputsInv'
  OBVIOUS
<1>1. UNCHANGED <<px4_queue, px4_state, asleep, due, enable_range_sensor, odom_valid, distance_timeout,
                  stamp_age, pos_age, z_age, range_age, px4_age, connected>>
  BY DEF inputVars, fusionVars, odometry, range, fc_link, consumer
<1>2. Latest' = Latest /\ Pending("publish")' = Pending("publish") /\ Pending("check")' = Pending("check")
  BY <1>1 DEF Latest, Pending
<1>3. QED
  BY <1>1, <1>2 DEF InputsTypeOK, OdomKnown, LinkKnown, HeightKnown, Never, Limit

-----------------------------------------------------------------------------
\* Every age is known within its tick: the invariant from which the properties follow.
THEOREM InputsKnown == InputsSpec => []InputsInv
<1>1. InputsInv /\ [InputsNext]_inputVars => InputsInv'
  BY ReceivesKnown, ChecksKnown, PublishesKnown, SwitchedKnown, TurnKnown, TickKnown, StutterKnown
     DEF InputsNext
<1>2. QED
  BY InitiallyKnown, <1>1, PTL DEF InputsSpec

\* A silent source and a lost link to PX4 are known to uav_control after its next turn
\* (timer_check_timeout_cb, timer_pub_px4_state_cb, mainLoop).
THEOREM SilenceSafe == InputsSpec => []SilenceIsSeen
<1>1. InputsInv => SilenceIsSeen
  BY TimeoutsAssumption DEF OdomKnown, LinkKnown, InputsTypeOK, SilenceIsSeen
<1>2. QED
  BY InputsKnown, <1>1, PTL

\* PX4 is given nothing older than the timeouts allow (viobotCallback,
\* timer_pub_vision_pose_cb).
THEOREM VisionSafe == InputsSpec => []VisionIsRecent
<1>1. InputsInv => VisionIsRecent
  <2> SUFFICES ASSUME InputsInv, SendsVision PROVE VisionIsRecent
    BY DEF VisionIsRecent
  <2>1. odom_valid /\ Pending("check") \in {0, 1}
    BY DEF SendsVision, Pending
  <2>2. QED
    BY <2>1, TimeoutsAssumption DEF OdomKnown, HeightKnown, InputsTypeOK, VisionIsRecent
<1>2. QED
  BY InputsKnown, <1>1, PTL

-----------------------------------------------------------------------------
(***************************************************************************)
(* The switches.  What the queue and what was heard before say of a switch *)
(* is where it is: an entry of the queue says so and none after it says    *)
(* anything, or none says anything and it was heard before.                *)
(***************************************************************************)
Words == {"none"} \union {Rc!Place(s, v) : s \in Rc!Switches, v \in Int}
RcMsg == [Rc!Switches -> Words]

Tells(q, before, s, p) ==
  \/ (\A i \in DOMAIN q : q[i][s] = "none") /\ before[s] = p
  \/ \E i \in DOMAIN q : q[i][s] = p /\ \A j \in DOMAIN q : j > i => q[j][s] = "none"

SwitchesInv ==
  /\ rc_queue \in Seq(RcMsg) /\ switches \in Readings /\ last = switches
  /\ \A s \in Rc!Switches \ excused :
       Rc!Place(s, switches[s]) # "none" => Tells(rc_queue, heard, s, Rc!Place(s, switches[s]))

\* A message that is put behind the others.
LEMMA AppendTells ==
  ASSUME NEW q \in Seq(RcMsg), NEW m \in RcMsg, NEW before, NEW s, NEW p,
         m[s] = p \/ (m[s] = "none" /\ Tells(q, before, s, p))
  PROVE  Tells(Append(q, m), before, s, p)
<1> DEFINE a == Append(q, m)
<1>1. /\ Len(q) \in Nat /\ DOMAIN q = 1 .. Len(q) /\ DOMAIN a = 1 .. Len(q) + 1
      /\ a[Len(q) + 1] = m /\ \A i \in 1 .. Len(q) : a[i] = q[i]
  OBVIOUS
<1> HIDE DEF a
<1>2. CASE m[s] = p
  <2>1. Len(q) + 1 \in DOMAIN a /\ a[Len(q) + 1][s] = p
    BY <1>1, <1>2
  <2>2. \A j \in DOMAIN a : ~(j > Len(q) + 1)
    BY <1>1
  <2>3. QED
    BY <2>1, <2>2 DEF Tells, a
<1>3. CASE m[s] = "none" /\ (\A i \in DOMAIN q : q[i][s] = "none") /\ before[s] = p
  <2>1. \A i \in DOMAIN a : a[i][s] = "none"
    <3> SUFFICES ASSUME NEW i \in 1 .. Len(q) + 1 PROVE a[i][s] = "none"
      BY <1>1
    <3>1. i = Len(q) + 1 \/ i \in 1 .. Len(q)
      BY <1>1
    <3>2. QED
      BY <1>1, <1>3, <3>1
  <2>2. QED
    BY <1>3, <2>1 DEF Tells, a
<1>4. ASSUME m[s] = "none", NEW i \in DOMAIN q, q[i][s] = p,
             \A j \in DOMAIN q : j > i => q[j][s] = "none"
      PROVE  Tells(a, before, s, p)
  <2>1. i \in DOMAIN a /\ a[i][s] = p
    BY <1>1, <1>4
  <2>2. ASSUME NEW j \in DOMAIN a, j > i PROVE a[j][s] = "none"
    <3>1. j = Len(q) + 1 \/ j \in 1 .. Len(q)
      BY <1>1, <2>2
    <3>2. QED
      BY <1>1, <1>4, <2>2, <3>1
  <2>3. QED
    BY <2>1, <2>2 DEF Tells
<1>5. QED
  BY <1>2, <1>3, <1>4 DEF Tells, a

\* The oldest message is dropped, and it was not the last that tells of this switch.
LEMMA TailTells ==
  ASSUME NEW q \in Seq(RcMsg), q # <<>>, NEW before, NEW s \in Rc!Switches, NEW p,
         p # "none", s \notin Rc!LostFrom(q), Tells(q, before, s, p)
  PROVE  Tells(Tail(q), before, s, p)
<1> DEFINE t == Tail(q)
<1>1. /\ Len(q) \in Nat /\ Len(q) >= 1 /\ DOMAIN q = 1 .. Len(q) /\ Head(q) = q[1]
      /\ DOMAIN t = 1 .. Len(q) - 1 /\ \A i \in 1 .. Len(q) - 1 : t[i] = q[i + 1]
  OBVIOUS
<1> HIDE DEF t
<1>2. CASE (\A i \in DOMAIN q : q[i][s] = "none") /\ before[s] = p
  <2>1. \A i \in DOMAIN t : t[i][s] = "none"
    BY <1>1, <1>2
  <2>2. QED
    BY <1>2, <2>1 DEF Tells, t
<1>3. ASSUME NEW i \in DOMAIN q, q[i][s] = p, \A j \in DOMAIN q : j > i => q[j][s] = "none"
      PROVE  Tells(t, before, s, p)
  <2>1. i # 1
    <3> SUFFICES ASSUME i = 1 PROVE FALSE
      OBVIOUS
    <3>1. Head(q)[s] # "none"
      BY <1>1, <1>3
    <3>2. \A k \in 2 .. Len(q) : q[k][s] = "none"
      BY <1>1, <1>3
    <3>3. QED
      BY <3>1, <3>2 DEF Rc!LostFrom
  <2>2. i - 1 \in DOMAIN t /\ t[i - 1] = q[i]
    BY <1>1, <2>1
  <2>3. ASSUME NEW j \in DOMAIN t, j > i - 1 PROVE t[j][s] = "none"
    <3>1. j + 1 \in DOMAIN q /\ j + 1 > i /\ t[j] = q[j + 1]
      BY <1>1, <2>3
    <3>2. QED
      BY <1>3, <3>1
  <2>4. QED
    BY <1>3, <2>2, <2>3 DEF Tells
<1>4. QED
  BY <1>2, <1>3 DEF Tells, t

\* A turn hears what the queue tells.
LEMMA TurnTells ==
  ASSUME rc_queue \in Seq(RcMsg), NEW s, NEW p, p # "none", Tells(rc_queue, heard, s, p)
  PROVE  HeardAfter(rc_queue, s) = p
<1> DEFINE told == {i \in DOMAIN rc_queue : rc_queue[i][s] # "none"}
<1>1. DOMAIN rc_queue \subseteq Nat
  OBVIOUS
<1>2. CASE (\A i \in DOMAIN rc_queue : rc_queue[i][s] = "none") /\ heard[s] = p
  BY <1>2 DEF HeardAfter
<1>3. ASSUME NEW i \in DOMAIN rc_queue, rc_queue[i][s] = p,
             \A j \in DOMAIN rc_queue : j > i => rc_queue[j][s] = "none"
      PROVE  HeardAfter(rc_queue, s) = p
  <2> DEFINE newest == CHOOSE k \in told : \A j \in told : j <= k
  <2>1. i \in told /\ \A j \in told : j <= i
    BY <1>1, <1>3
  <2>2. newest \in told /\ \A j \in told : j <= newest
    BY <2>1
  <2>3. newest = i
    <3>1. newest <= i /\ i <= newest /\ newest \in Nat /\ i \in Nat
      BY <1>1, <2>1, <2>2
    <3> HIDE DEF newest
    <3>2. QED
      BY <3>1
  <2>4. HeardAfter(rc_queue, s) = rc_queue[newest][s]
    BY <2>1 DEF HeardAfter
  <2>5. QED
    BY <1>3, <2>3, <2>4
<1>4. QED
  BY <1>2, <1>3 DEF Tells

\* handle_rc_data tells of every switch that is not excused afterwards.
LEMMA SwitchedTells ==
  ASSUME SwitchesInv, NEW now \in Readings, Rc!handle_rc_data(now), UNCHANGED heard
  PROVE  SwitchesInv'
<1> DEFINE q == IF Len(rc_queue) = QueueSize THEN Tail(rc_queue) ELSE rc_queue
           lost == IF Len(rc_queue) = QueueSize THEN Rc!LostFrom(rc_queue) ELSE {}
<1>1. /\ rc_queue \in Seq(RcMsg) /\ last = switches /\ last' = now /\ switches' = now
      /\ Len(rc_queue) = QueueSize => rc_queue # <<>>
  BY TimeoutsAssumption DEF SwitchesInv, Rc!handle_rc_data
<1>2. q \in Seq(RcMsg)
  BY <1>1
<1>3. Rc!Moves(now) \in RcMsg
  <2>1. \A s \in Rc!Switches : now[s] \in Int
    BY InputsAssumption
  <2>2. QED
    BY <2>1 DEF Rc!Moves, RcMsg, Words
<1>4. CASE ~value_init
  <2>1. rc_queue' = rc_queue /\ excused' = Rc!Switches
    BY <1>4 DEF Rc!handle_rc_data
  <2>2. QED
    BY <1>1, <2>1 DEF SwitchesInv
<1>5. CASE value_init
  <2>1. rc_queue' = Append(q, Rc!Moves(now)) /\ excused' = Rc!Excuses(now, lost)
    BY <1>5 DEF Rc!handle_rc_data
  <2>2. rc_queue' \in Seq(RcMsg)
    BY <1>2, <1>3, <2>1
  <2>3. ASSUME NEW s \in Rc!Switches \ excused', Rc!Place(s, now[s]) # "none"
        PROVE  Tells(rc_queue', heard, s, Rc!Place(s, now[s]))
    <3> DEFINE p == Rc!Place(s, now[s])
    <3>1. CASE Rc!Told(s, now)
      <4>1. Rc!check_validity(now) /\ Rc!Apart(now[s], last[s])
        BY <1>1, <3>1 DEF Rc!Told, Rc!check_validity
      <4>2. Rc!Moves(now)[s] = p
        BY <4>1 DEF Rc!Moves
      <4>3. QED
        BY <1>2, <1>3, <2>1, <4>2, AppendTells
    <3>2. CASE ~Rc!Told(s, now)
      <4>1. s \notin excused /\ s \notin lost /\ p = Rc!Place(s, switches[s])
        BY <2>1, <2>3, <3>2 DEF Rc!Excuses
      <4>2. Tells(rc_queue, heard, s, p)
        BY <2>3, <4>1 DEF SwitchesInv
      <4>3. Tells(q, heard, s, p)
        <5>1. CASE Len(rc_queue) = QueueSize
          BY <1>1, <2>3, <4>1, <4>2, <5>1, TailTells
        <5>2. CASE Len(rc_queue) # QueueSize
          BY <4>2, <5>2
        <5>3. QED
          BY <5>1, <5>2
      <4>4. Rc!Moves(now)[s] \in {"none", p}
        BY DEF Rc!Moves
      <4> HIDE DEF q, p
      <4>5. QED
        BY <1>2, <1>3, <2>1, <4>3, <4>4, AppendTells DEF p
    <3>3. QED
      BY <3>1, <3>2
  <2>4. QED
    BY <1>1, <2>2, <2>3 DEF SwitchesInv
<1>6. QED
  BY <1>4, <1>5

LEMMA SwitchesStep == SwitchesInv /\ [InputsNext]_inputVars => SwitchesInv'
<1> SUFFICES ASSUME SwitchesInv, [InputsNext]_inputVars PROVE SwitchesInv'
  OBVIOUS
<1>1. CASE Switched
  <2>1. (\E now \in Readings : Rc!handle_rc_data(now)) /\ UNCHANGED heard
    BY <1>1 DEF Switched, consumer
  <2>2. QED
    BY <2>1, SwitchedTells
<1>2. CASE Turn
  <2>1. /\ rc_queue' = <<>> /\ UNCHANGED <<switches, last, excused>>
        /\ heard' = [s \in Rc!Switches |-> HeardAfter(rc_queue, s)]
    BY <1>2 DEF Turn
  <2>2. ASSUME NEW s \in Rc!Switches \ excused, Rc!Place(s, switches[s]) # "none"
        PROVE  Tells(rc_queue', heard', s, Rc!Place(s, switches[s]))
    <3>1. heard'[s] = Rc!Place(s, switches[s])
      BY <2>1, <2>2, TurnTells DEF SwitchesInv
    <3>2. QED
      BY <2>1, <3>1 DEF Tells
  <2>3. QED
    BY <2>1, <2>2 DEF SwitchesInv
<1>3. CASE Receives \/ Checks \/ Publishes \/ Tick \/ UNCHANGED inputVars
  <2>1. UNCHANGED <<rc_queue, switches, last, excused, heard>>
    BY <1>3 DEF Receives, Checks, Publishes, Tick, inputVars, receiver, consumer
  <2>2. QED
    BY <2>1 DEF SwitchesInv, Tells
<1>4. QED
  BY <1>1, <1>2, <1>3 DEF InputsNext

\* Every switch whose way was visible has been told to uav_control once its queue is empty
\* (handle_rc_data, check_validity, rc_state_callback).
THEOREM SwitchesSafe == InputsSpec => []SwitchesAreHeard
<1>1. InputsInit => SwitchesInv
  BY DEF InputsInit, Rc!RcInit, SwitchesInv
<1>2. SwitchesInv => SwitchesAreHeard
  <2> SUFFICES ASSUME SwitchesInv, rc_queue = <<>>, NEW s \in Rc!Switches \ excused,
                      Rc!Place(s, switches[s]) # "none"
               PROVE  heard[s] = Rc!Place(s, switches[s])
    BY DEF SwitchesAreHeard
  <2>1. Tells(rc_queue, heard, s, Rc!Place(s, switches[s]))
    BY DEF SwitchesInv
  <2>2. QED
    BY <2>1 DEF Tells
<1>3. QED
  BY <1>1, <1>2, SwitchesStep, PTL DEF InputsSpec
=============================================================================
