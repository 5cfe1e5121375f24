SPECIFICATION FairSpec
CONSTANTS
  tm = tm
  fd = fd
  file = file
  idle = idle
  Null = Null
  Task = {tm, fd}
  Kind <- Kinds
  Programs <- OneProgram
  Hires = "timerfd"
  Again = FALSE
  Ms = 1
  IntLimit = 8
  MaxTime = 3
PROPERTIES TimerFires
