SPECIFICATION FairSpec
CONSTANTS
  c1 = c1
  c2 = c2
  x = x
  y = y
  None = None
  Client = {c1, c2}
  Foreign = {c2}
  Addr = {x, y}
  Timeout = 2
  Home <- HomeOfTwo
  MaxNet = 2
  MaxFaults = 2
INVARIANTS ExpiresForClient
CHECK_DEADLOCK FALSE
