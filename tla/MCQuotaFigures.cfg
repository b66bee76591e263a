SPECIFICATION Spec
CONSTANTS
  None = None
  t1 = t1
  t2 = t2
  other = other
  d1 = d1
  d2 = d2
  Account = {a, b}
  Daemon = {d1, d2}
  Task <- MCTask
  DaemonOf <- MCDaemonOf
  Every = 1
  MaxClock = 2
  MaxWork = 3
  MaxFaults = 1
SYMMETRY Symmetry
INVARIANTS
  AskedHourly
  GoneStaysGone
  FreshFigureHolds
PROPERTIES
  LaterKept
CHECK_DEADLOCK FALSE
