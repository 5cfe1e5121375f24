SPECIFICATION Spec
CONSTANTS
  p1 = p1
  p2 = p2
  p3 = p3
  Null = Null
  Pid = {p1, p2, p3}
  Inode = {1, 2, 3, 4}
  MaxStarts = 3
INVARIANTS AtMostOne
CHECK_DEADLOCK FALSE
