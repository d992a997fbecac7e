SPECIFICATION FairFlightSpec
CONSTANTS
  g1 = g1
  g2 = g2
  Goals = {g1, g2}
  UserGoals = {g1}
  Presets <- Routes
  RealWorld = FALSE
  Follower = TRUE
  Unset = Unset
  OnTheWay = OnTheWay
  QueueSize = 1
  MaxWaits = 1
  DepthFails = TRUE
INVARIANTS
  PlanInHand
  ServerFollowsPlan
  UnwatchedAtRest
PROPERTIES
  
  EmergencyEnds
CHECK_DEADLOCK FALSE
