SPECIFICATION Spec
CONSTANTS
  None = None
  Unreadable = Unreadable
  Key = {"k1", "k2"}
  Profile = {}
  Task = {"d1", "d2", "cli"}
  ProcessOf <- MCProcess
  May <- MCMay
  Provider = {"codex"}
  Length <- MCLength
  Attempts = 2
  Stored <- MCStored
  MaxCalls = 3
  MaxEvents = 0
INVARIANTS
  SelectionReadable
CHECK_DEADLOCK FALSE
