SPECIFICATION Spec
CONSTANTS
  None = None
  Part = Part
  Other = Other
  Slot = {1, 2}
  Client = {1, 2}
  OverHttp <- MCOverHttp
  Port = {1, 2}
  Releases = 2
  MaxAsks = 0
  MaxRuns = 2
  MaxEvents = 0
PROPERTIES
  SocketKept
CHECK_DEADLOCK FALSE
