SPECIFICATION BridgeSpec
CONSTANTS
  Stations = {gs}
  Fds = {1, 2}
  None = None
  Demos = {demo}
  Pids = {1, 2}
INVARIANTS
  RegisterIsLinked
  WatchedAreOpen
  
PROPERTIES
  NewestCommandsOnly
  ConnectionsAccepted
  EndedIsForgotten
