SPECIFICATION FairSpec
CONSTANTS
  fileA = fileA
  fileB = fileB
  None = None
  stdoutLog = fileA
  stderrLog = fileB
  HupEarly = FALSE
  MaxOut <- TwoAndOne
INVARIANTS LogInOrder NoStrayUsr1 ExitReported
PROPERTIES ChildReleased WatcherEnds
CHECK_DEADLOCK FALSE
