CONSTANTS
  a = a
  b = b
  k = k
  i1 = i1
  i2 = i2
  i3 = i3
  m = m
  w = w
  x = x
  y = y
  follow = follow
  s1 = s1
  s2 = s2
  s3 = s3
  t1 = t1
  t2 = t2
  None = None
  Profile = {a, b}
  Key = {}
  Id = {i1, i2}
  Model = {m, w}
  MappingOf <- MCOwn
  Menu <- MCNarrowMenu
  Files <- MCDeclared
  Operator = {x}
  Ops = {"select"}
  Follower = follow
  Turn = {t1, t2}
  Session = {s1, s2}
  Pin = {None}
  Startup <- MCAnswered
  Fetches <- MCAnswered
  Swaps = 0
SPECIFICATION Spec
CHECK_DEADLOCK FALSE
INVARIANTS
  SocketsFollowRefusal
