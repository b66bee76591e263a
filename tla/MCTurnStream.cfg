CONSTANTS
  Peek = 4
  PumpBuffer = 2
  MaxEvents = 6
  Transports = {"websocket", "http"}
SPECIFICATION FairSpec
INVARIANTS
  NothingLost
  EndedTruly
PROPERTIES
  EndsAsSessionTurnsTakesIt
  NothingHangs
