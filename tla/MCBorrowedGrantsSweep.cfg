SPECIFICATION Spec
CONSTANTS
  None = None
  Unknown = Unknown
  Blank = Blank
  Profile = {"p", "q"}
  Sweep = {"s1", "s2"}
  Daemon = {"d1", "d2"}
  DaemonOf <- MCDaemonOf
  InitialKept <- MCKept
  Margin = 0
  Life = 1
  RefreshLife = 2
  MaxClock = 1
  MaxSweeps = 2
  MaxEvents = 1
INVARIANT
  OneRunPerSweep
CHECK_DEADLOCK FALSE
