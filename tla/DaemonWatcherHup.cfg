SPECIFICATION FairSpec
CONSTANTS
  fileA = fileA
  fileB = fileB
  None = None
  stdoutLog = fileA
  stderrLog = fileB
  HupEarly = TRUE
  MaxOut <- TwoAndOne
INVARIANTS NoStrayUsr1
CHECK_DEADLOCK FALSE
