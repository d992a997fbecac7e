SPECIFICATION FairSpec
CONSTANTS
  UseRC = FALSE
  CheckCmdTimeout = FALSE
  LandType = 1
  XRange <- OnePlace
  ZRange <- OnePlace
  Fence <- FenceAll
  DefaultHome <- Ground
  Cmds = {"Waypoint"}
  RcMsgs <- None
  Setups <- None
  Missions <- OneLaunch
  FcStarts <- OnGround
  Disturbances = {"arming"}
PROPERTIES
  DisarmEndsLanding
  LaunchSettles
