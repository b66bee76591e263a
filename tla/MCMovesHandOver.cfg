CONSTANTS
  a = a
  b = b
  k = k
  i1 = i1
  i2 = i2
  i3 = i3
  m = m
  w = w
  x = x
  y = y
  follow = follow
  s1 = s1
  s2 = s2
  s3 = s3
  t1 = t1
  t2 = t2
  None = None
  Profile = {a}
  Key = {k}
  Id = {i1}
  Model = {m, w}
  MappingOf <- MCShared
  Menu <- MCAnyMenu
  Files <- MCDeclared
  Operator = {x}
  Ops = {"remove"}
  Follower = follow
  Turn = {}
  Session = {}
  Pin = {None}
  Startup <- MCAnswered
  Fetches <- MCAnswered
  Swaps = 0
SPECIFICATION Spec
CHECK_DEADLOCK FALSE
INVARIANTS
  MappingFollowsHandOver
