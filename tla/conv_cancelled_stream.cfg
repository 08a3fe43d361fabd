SPECIFICATION Spec
CONSTANTS
  r1 = r1
  r2 = r2
  x1 = x1
  x2 = x2
  None = None
  Runs <- OneRun
  Streams <- OneStream
  MaxStarts = 2
  MayFail = FALSE
  MayRestart = FALSE
INVARIANT EndIsShown
CHECK_DEADLOCK FALSE
