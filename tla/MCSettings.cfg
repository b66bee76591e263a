SPECIFICATION Spec
CONSTANTS
  None = None
  Client = {"c"}
  Login = {"l"}
  KeyAccount = {"a"}
  Found = {"p"}
  Signed = {"p"}
  Name = {"new"}
  Tier = {"opus", "haiku"}
  Model = {"slow"}
  Pinned = {"pin"}
  Effort = {"low"}
  Bad = {"bad"}
  ModelOf <- MCModelOf
  EffortOf <- MCEffortOf
  InitialDocs <- MCInitial
  EditorDocs <- MCEdits
  MaxAsks = 3
  MaxEvents = 1
INVARIANTS
  RestartAgrees
  Restartable
  LoginKeeps
PROPERTIES
  RefusedReloadChangesNothing
CHECK_DEADLOCK FALSE
