SPECIFICATION StoreSpec
CONSTANTS
  Clients = {"k1", "k2", "k3", "k4"}
  Opener <- MCOpener
  Scope <- MCScope
  Capacity = 2
  MaxRequests = 4
  MaxSweeps = 1
INVARIANTS
  NeverJoined
PROPERTIES
  KeepsItsSession
CHECK_DEADLOCK FALSE
