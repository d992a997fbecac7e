------------------------------ MODULE MCInputs ------------------------------
EXTENDS FlightInputs

\* The receiver's readings: the mode switch at two places and between, with the kill
\* switch on, off or not valid, and the land channel not valid.
Rest == [arm |-> -5, mode |-> -5, land |-> -5, kill |-> -5]
SomeReadings ==
  {[Rest EXCEPT !.mode = m, !.kill = k] : m \in {-5, -2, -1}, k \in {-5, 5}}
  \union {[Rest EXCEPT !.kill = 6, !.mode = -1], [Rest EXCEPT !.land = 6, !.mode = -1]}
WithSource == [sources |-> {"MOCAP", "GAZEBO"}, ranges |-> {FALSE}, inputs |-> {"fc"}]
WithRange == [sources |-> {"VIOBOT"}, ranges |-> BOOLEAN, inputs |-> {}]
WithReceiver == [sources |-> {"GPS"}, ranges |-> {FALSE}, inputs |-> {"rc"}]

Some == {WithSource, WithRange, WithReceiver}
=============================================================================
