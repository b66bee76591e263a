SPECIFICATION Spec
CONSTANTS
  t1 = t1
  t2 = t2
  other = other
  d1 = d1
  d2 = d2
  None = None
  Account = {a, b}
  Daemon = {d1}
  Task = {t1, t2}
  DaemonOf <- MCDaemonOf
  Attempts = 2
  Verbs = {"rename", "forget"}
  MaxTurns = 3
  MaxVerbs = 1
  MaxFaults = 0
SYMMETRY Symmetry
PROPERTIES
  FiledUnderPayer
CHECK_DEADLOCK FALSE
