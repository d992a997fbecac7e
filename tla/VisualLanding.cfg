SPECIFICATION VisualSpec
CONSTANTS
  LandModes = {"route_land"}
  MuxChoices = {TRUE, FALSE}
  LandOnLostTag = FALSE
  Tags <- OneTag
  Fresh = 2
  React = 3
  Timeout = 6
  Slack = 1
  Warmup = 2
  RouteWarmup = 1
  PressTicks = 2
  NoRoute = "none"
  MuxCmds <- SomeMuxCmds
  HoverCmd <- HoverOfMux
  NoMuxCmd = NoMuxCmd
INVARIANTS
  NotLeftWithoutControl
PROPERTIES
  PausedDemoIsSilent
  LandTaken
  StopReleasesDemo
CHECK_DEADLOCK FALSE
