SPECIFICATION FramesSpec
CONSTANTS
  c1 = c1  c2 = c2  c3 = c3  m1 = m1  m2 = m2  r1 = r1  s1 = s1  u1 = u1
  NoItem = NoItem
  Calls <- MCCalls
  Messages <- MCMessages
  Thoughts = {r1}
  Searches = {s1}
  Urls = {u1}
  Size = 2
  MaxText = 1
  MaxItems = 4
SYMMETRY Symmetric
INVARIANTS
  AnswerIsWhole
  ReplayLinesUp
PROPERTIES
  FollowsProtocol
CHECK_DEADLOCK FALSE
