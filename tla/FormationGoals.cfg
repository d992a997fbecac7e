SPECIFICATION FairSwarmSpec
CONSTANTS
  Agents <- UavOne
  LeaderId = 1
  Orders = {"STATIC", "LEADER", "HOVER", "SET_HOME", "RETURN_HOME"}
  UserGoals <- OnlyB
  Faults = {"neighbour", "orca"}
  MaxOrders = 2
  DynamicType = 0
  Static <- A
  Path <- BA
  Waypoints <- AB
  InitIdx = 1
  LeaderPlaces = {"l0"}
  NoOrcaCmd = NoOrcaCmd
  Origin <- TheOrigin
PROPERTIES
  SilenceHovers
  GoalIsReached
  WaypointsVisited
CHECK_DEADLOCK FALSE
