SPECIFICATION Spec
CONSTANTS
  UseRC = TRUE
  CheckCmdTimeout = FALSE
  LandType = 0
  XRange <- OnePlace
  ZRange <- OnePlace
  Fence <- FenceAll
  DefaultHome <- Ground
  Cmds = {"Waypoint"}
  RcMsgs <- None
  Setups <- SetInitOrCmd
  Missions <- FlyHomeOrLaunch
  FcStarts <- OnGround
  Disturbances = {"arming"}
PROPERTIES
  MissionLandsAfterLastPoint
  ArmsOnlyToLaunch
