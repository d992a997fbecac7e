SPECIFICATION LandSpec
CONSTANTS
  LandModes = {"plain", "home_land", "listen_hover", "route_land"}
  MuxChoices = {FALSE}
  LandOnLostTag = TRUE
  Tags <- SomeTags
  Fresh = 3
  React = 5
  Timeout = 10
  Slack = 2
  Warmup = 3
  RouteWarmup = 2
  PressTicks = 4
INVARIANTS
  DescentIsSeen
PROPERTIES
  FinalOnTag
  
  LandsWhenSettled
CHECK_DEADLOCK FALSE
