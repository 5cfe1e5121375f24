SPECIFICATION Spec
CONSTANTS
  High = 1
  Low = 0
  o1 = o1
  o2 = o2
  Route = {o1, o2}
  ModuleThrottles = FALSE
  ReadsFirst = TRUE
  HandlerUnthrottles = FALSE
  HandlersTake = TRUE
  OtherExceptions = TRUE
  MaxPacket = 3
  MaxDepth = 6
INVARIANTS NeverLost
