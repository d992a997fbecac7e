SPECIFICATION InputsSpec
CONSTANTS
  OdomTimeout = 3
  DistanceTimeout = 3
  Px4Timeout = 4
  QueueSize = 2
  Readings <- SomeReadings
  Sleep = 3
  Equipment <- Some
INVARIANTS
  SilenceIsSeen
  VisionIsRecent
  SwitchesAreHeard
