SPECIFICATION Spec
CONSTANTS
  UseRC = TRUE
  CheckCmdTimeout = FALSE
  LandType = 0
  XRange <- TwoPlaces
  ZRange <- OnePlace
  Fence <- FenceX0
  DefaultHome <- Ground
  Cmds = {"Base"}
  RcMsgs <- None
  Setups <- SetInitCmdOrLand
  Missions <- None
  FcStarts <- OnGround
  Disturbances = {"arming", "move", "odom"}
INVARIANTS
  TypeOK
PROPERTIES
  EntryForgetsOldCommand
  LoopOnlyTakesAway
  NoCutOnLandingEntry
  ImplementsAuthority
