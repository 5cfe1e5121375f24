SPECIFICATION Spec
CONSTANTS
  High = 1
  Low = 0
  o1 = o1
  o2 = o2
  Route = {o1, o2}
  ModuleThrottles = TRUE
  ReadsFirst = TRUE
  HandlerUnthrottles = FALSE
  HandlersTake = FALSE
  OtherExceptions = FALSE
  MaxPacket = 6
  MaxDepth = 14
SYMMETRY RouteSymmetry
INVARIANTS NeverLost TakenInOrder PeerAgrees Drained
PROPERTIES ImplementsChannel
