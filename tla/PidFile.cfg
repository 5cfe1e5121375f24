SPECIFICATION FairSpec
CONSTANTS
  p1 = p1
  p2 = p2
  p3 = p3
  Null = Null
  Pid = {p1, p2, p3}
  Inode = {1, 2, 3, 4}
  MaxStarts = 4
INVARIANTS NoLitter ExclusiveWithoutTakeover TakeoverExclusive
PROPERTIES RefusedForAReason StartDecides
CHECK_DEADLOCK FALSE
