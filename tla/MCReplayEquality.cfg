SPECIFICATION Spec
CONSTANTS
  None = None
  Said <- MCSaid
  Results <- MCResults
  Answers <- MCAnswers
  Tool = {"plain", "later", "web"}
  Deferred = {"later"}
  Hosted = {"web"}
  MaxAsks = 3
  MaxEvents = 1
INVARIANTS
  HeardAsTranscript
PROPERTIES
  StaysIncremental
CHECK_DEADLOCK FALSE
