CONSTANTS
  Peek = 4
  PumpBuffer = 2
  MaxEvents = 5
  Transports = {"websocket"}
SPECIFICATION FairSpec
PROPERTIES
  StatusIsNotHeld
