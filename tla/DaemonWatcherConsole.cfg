SPECIFICATION FairSpec
CONSTANTS
  fileA = fileA
  fileB = fileB
  None = None
  stdoutLog = fileA
  stderrLog = fileB
  HupEarly = FALSE
  MaxOut <- TwoAndOne
INVARIANTS SuccessIsReal
CHECK_DEADLOCK FALSE
