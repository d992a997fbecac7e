SPECIFICATION Spec
CONSTANTS
  UseRC = TRUE
  CheckCmdTimeout = FALSE
  LandType = 1
  XRange <- OnePlace
  ZRange <- OnePlace
  Fence <- FenceAll
  DefaultHome <- Ground
  Cmds = {"Waypoint"}
  RcMsgs <- RcAll
  Setups <- SetupAll
  Missions <- None
  FcStarts <- OnGround
  Disturbances = {"rc", "mode"}
INVARIANT RcOnlyWithSignal
