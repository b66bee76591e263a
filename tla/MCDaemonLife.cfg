SPECIFICATION Spec
CONSTANTS
  None = None
  Part = Part
  Other = Other
  Slot = {1, 2}
  Client = {1, 2}
  OverHttp <- MCOverHttp
  Port = {1}
  Releases = 2
  MaxAsks = 2
  MaxRuns = 1
  MaxEvents = 1
INVARIANTS
  Bootable
PROPERTIES
  StopStops
  UpdateTakesOver
CHECK_DEADLOCK FALSE
