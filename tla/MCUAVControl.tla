---------------------------- MODULE MCUAVControl ----------------------------
(***************************************************************************)
(* Small instances of UAVControl.  The grid: z = 0 is below the disarm     *)
(* height of a home on the ground, z = 1 is flight; x = 0 and x = 1 are    *)
(* two places further apart than the tests of arrival, and the fence is    *)
(* either everything or x = 0.                                             *)
(***************************************************************************)
EXTENDS UAVControl

\* XRange, ZRange, Fence, DefaultHome
OnePlace == {0}
TwoPlaces == {0, 1}
Ground == [x |-> 0, z |-> 0]
Aloft == [x |-> 0, z |-> 1]
Elsewhere == [x |-> 1, z |-> 0]
FenceAll == Pos
FenceX0 == {p \in Pos : p.x = 0}

\* FcStarts
OnGround == {<<FALSE, Ground>>}
InFlight == {<<TRUE, Aloft>>}
OnGroundElsewhere == {<<FALSE, Elsewhere>>}
Anywhere == OnGroundElsewhere \union {<<TRUE, Elsewhere>>, <<FALSE, Ground>>, <<TRUE, Aloft>>}

\* RcMsgs
Quiet == [arm |-> "none", mode |-> "none", land |-> FALSE, kill |-> FALSE]
RcModes == {[Quiet EXCEPT !.mode = m] : m \in {"INIT", "RC_CONTROL", "CMD_CONTROL"}}
RcLand == [Quiet EXCEPT !.land = TRUE]
RcLandAndCmd == [RcLand EXCEPT !.mode = "CMD_CONTROL"]
RcAll == RcModes \union {Quiet, RcLand, RcLandAndCmd, [Quiet EXCEPT !.kill = TRUE],
                         [Quiet EXCEPT !.arm = "ARM"], [Quiet EXCEPT !.arm = "DISARM"]}

\* Setups
SetMode(m) == [cmd |-> "SET_CONTROL_MODE", control_mode |-> m]
SetCmd == {SetMode("CMD_CONTROL")}
SetInitOrCmd == {SetMode(m) : m \in {"INIT", "CMD_CONTROL"}}
SetInitCmdOrLand == {SetMode(m) : m \in {"INIT", "CMD_CONTROL", "LAND_CONTROL"}}
SetupAll == {SetMode(m) : m \in Modes}
            \union {[cmd |-> c] : c \in {"ARM", "DISARM", "REBOOT_PX4", "EMERGENCY_KILL"}}
            \union {[cmd |-> "SET_PX4_MODE", px4_mode |-> "OFFBOARD"]}

\* Missions, each of two points
Mission(takeoff, end) == [init |-> TRUE, takeoff |-> takeoff, num |-> 2, end |-> end]
OneFlyHome == {Mission(FALSE, 3)}
OneLaunch == {Mission(TRUE, 2)}
FlyHomeOrLaunch == {Mission(FALSE, 3), Mission(TRUE, 1)}

None == {}
=============================================================================
