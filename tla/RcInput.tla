------------------------------ MODULE RcInput -------------------------------
(***************************************************************************)
(* The rc_control node: the receiver's switches, of which it reports those *)
(* that moved.  A reading is a number of fifths: 5 is the end of a channel *)
(* (1.0), and a difference of one fifth is below the threshold of 0.25.    *)
(***************************************************************************)
EXTENDS Integers, Sequences

CONSTANTS
  Readings,     \* the messages of the receiver explored, a number for each switch
  QueueSize     \* of a topic: the oldest message makes room

Switches == {"arm", "mode", "land", "kill"}

VARIABLES
  value_init,   \* a message has been received
  last,         \* last_*_channel_value
  rc_queue,     \* rc_state messages on their way to uav_control
  switches,     \* history: where the switches are
  excused       \* history: the switches whose place no message was to tell

rcVars == <<value_init, last, rc_queue, switches, excused>>

\* value_init and the last values are not initialised.
RcInit ==
  /\ value_init \in BOOLEAN /\ last \in Readings
  /\ rc_queue = <<>> /\ switches = last /\ excused = Switches

Apart(a, b) == a - b > 1 \/ b - a > 1

\* The values of the places, as the parameters have them by default.
Places == [arm  |-> [ARM |-> 5, DISARM |-> -5],
           mode |-> [INIT |-> -5, RC_CONTROL |-> 0, CMD_CONTROL |-> 5],
           land |-> [LAND |-> 5],
           kill |-> [KILL |-> 5]]
Place(s, value) ==
  LET at == {p \in DOMAIN Places[s] : ~Apart(value, Places[s][p])}
  IN  IF at = {} THEN "none" ELSE CHOOSE p \in at : TRUE

\* Mutant of check_validity: every channel is looked at.
check_every_channel(now) == \A s \in Switches : now[s] \in -5 .. 5

\* The land channel is not looked at: the condition on the kill channel is there twice.
InRange(value) == value \in -5 .. 5
check_validity(now) == \A s \in {"arm", "mode", "kill"} : InRange(now[s])

\* The rc_state message: the places of the switches that have moved.
Moves(now) ==
  [s \in Switches |->
     IF check_validity(now) /\ Apart(now[s], last[s]) THEN Place(s, now[s]) ELSE "none"]

\* History.  A place is told when the switch gets there by a visible step in a valid
\* message; one reached otherwise is excused until the next that is told, and so is one
\* whose message the queue loses.
Told(s, now) ==
  /\ \A c \in {"arm", "mode", "kill"} : InRange(now[c])
  /\ Apart(now[s], switches[s]) /\ Place(s, now[s]) # "none"
LostFrom(queue) ==
  {s \in Switches : Head(queue)[s] # "none" /\ \A i \in 2 .. Len(queue) : queue[i][s] = "none"}
Excuses(now, lost) ==
  {s \in Switches : ~Told(s, now) /\ (s \in excused \union lost \/ Place(s, now[s]) # Place(s, switches[s]))}

handle_rc_data(now) ==
  LET full == Len(rc_queue) = QueueSize
  IN  /\ value_init' = TRUE /\ last' = now /\ switches' = now
      /\ IF value_init
         THEN /\ rc_queue' = Append(IF full THEN Tail(rc_queue) ELSE rc_queue, Moves(now))
              /\ excused' = Excuses(now, IF full THEN LostFrom(rc_queue) ELSE {})
         ELSE UNCHANGED rc_queue /\ excused' = Switches
=============================================================================
