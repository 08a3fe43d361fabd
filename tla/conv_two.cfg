SPECIFICATION Spec
CONSTANTS
  r1 = r1
  r2 = r2
  x1 = x1
  x2 = x2
  None = None
  Runs <- TwoRuns
  Streams <- OneStream
  MaxStarts = 1
  MayFail = TRUE
  MayRestart = TRUE
SYMMETRY RunSymmetry
INVARIANT EndsTogether
INVARIANT OneActiveUncancelled
CHECK_DEADLOCK FALSE
