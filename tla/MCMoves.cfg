CONSTANTS
  a = a
  b = b
  k = k
  i1 = i1
  i2 = i2
  i3 = i3
  m = m
  w = w
  x = x
  y = y
  follow = follow
  s1 = s1
  s2 = s2
  s3 = s3
  t1 = t1
  t2 = t2
  None = None
  Profile = {a}
  Key = {b}
  Id = {i1, i2, i3}
  Model = {m, w}
  MappingOf <- MCOwn
  Menu <- MCSplitMenu
  Files <- MCAnyDeclared
  Operator = {x}
  Ops = {"select", "reload", "remove"}
  Follower = follow
  Turn = {t1}
  Session = {s1}
  Pin = {None}
  Startup <- MCBoth
  Fetches <- MCBoth
  Swaps = 1
SPECIFICATION FairSpec
CHECK_DEADLOCK FALSE
INVARIANTS
  MappingFollowsSelection
  JudgedRightly
  SocketsFollow
PROPERTIES
  RefusalChangesNothing
  StaleIsFollowed
