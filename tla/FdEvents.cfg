SPECIFICATION FairSpec
CONSTANTS
  a = a
  b = b
  sock = sock
  file = file
  Null = Null
  Event = {a, b}
  Fd = {sock, file}
  Pollable = {sock}
  Bit = {"EV_READ", "EV_WRITE"}
  ErrBit = {"EV_HUP"}
  Mask <- OneBit
  NumEvents = 1
  HandleEnabled = FALSE
INVARIANTS EpollAgrees OneHandler IndInv
PROPERTIES NoBusyLoop ReadyIsServed
