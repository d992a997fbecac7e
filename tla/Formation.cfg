SPECIFICATION SwarmSpec
CONSTANTS
  Agents <- Fleet
  LeaderId = 1
  Orders = {"STATIC", "DYNAMIC", "LEADER", "TAKEOFF", "LAND", "HOVER", "SET_HOME", "RETURN_HOME", "GOAL"}
  UserGoals <- OnlyB
  Faults = {"neighbour", "orca", "pilot"}
  MaxOrders = 2
  DynamicType = 0
  Static <- A
  Path <- BA
  Waypoints <- AB
  InitIdx = 1
  LeaderPlaces = {"l0"}
  NoOrcaCmd = NoOrcaCmd
  Origin <- TheOrigin
PROPERTIES
  FreshNeighbours
  ArrivedIsMet
CHECK_DEADLOCK FALSE
