CONSTANTS
  t1 = t1
  t2 = t2
  None = None
  Turn <- MCPair
  Said = {a}
  Fields = {f, g}
  Reply <- MCAnyReply
SYMMETRY PairSymmetry
SPECIFICATION Spec
PROPERTIES
  SeededOnlyUnconfirmed
