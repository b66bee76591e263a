SPECIFICATION Spec
CONSTANTS
  t1 = t1
  t2 = t2
  other = other
  d1 = d1
  d2 = d2
  None = None
  Account = {a, b}
  Daemon = {d1, d2}
  Task = {t1, t2, other}
  DaemonOf <- MCDaemonOf
  Attempts = 2
  Verbs = {"rename", "forget"}
  MaxTurns = 3
  MaxVerbs = 1
  MaxFaults = 1
SYMMETRY Symmetry
INVARIANTS
  CountedOnce
CHECK_DEADLOCK FALSE
