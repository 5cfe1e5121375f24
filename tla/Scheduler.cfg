SPECIFICATION FairSpec
CONSTANTS
  tm = tm
  fd = fd
  file = file
  idle = idle
  Null = Null
  Task = {tm, fd, file, idle}
  Kind <- Kinds
  Programs <- TwoPrograms
  Hires = "posix"
  Again = FALSE
  Ms = 2
  IntLimit = 2
  MaxTime = 3
INVARIANTS LayersAgree WakeUpInTime IndInv
PROPERTIES TimerFires TerminateReturns
