CONSTANTS
  t1 = t1
  t2 = t2
  t3 = t3
  None = None
  Turn <- MCTurn
  Said = {a}
  Fields = {f}
  Reply <- MCReply
SYMMETRY Symmetry
VIEW View
SPECIFICATION Spec
INVARIANTS
  DeltaIsExact
  HeardAsSaid
  BaselineIsContext
  ContinuesHeldResponse
  SocketExclusive
  ParkedIsQuiet
