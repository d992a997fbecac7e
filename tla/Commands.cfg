SPECIFICATION FairSpec
CONSTANTS
  UseRC = FALSE
  CheckCmdTimeout = TRUE
  LandType = 0
  XRange <- OnePlace
  ZRange <- TwoPlaces
  Fence <- FenceAll
  DefaultHome <- Ground
  Cmds = {"Base", "Land"}
  RcMsgs <- None
  Setups <- SetInitCmdOrLand
  Missions <- None
  FcStarts <- InFlight
  Disturbances = {"odom"}
PROPERTIES
  OnceLandedEnds
  UntrustedLoseControl
  StaleCommandHovers
