SPECIFICATION FairSpec
CONSTANTS
  r1 = r1
  r2 = r2
  x1 = x1
  x2 = x2
  None = None
  Runs <- OneRun
  Streams <- TwoStreams
  MaxStarts = 2
  MayFail = TRUE
  MayRestart = TRUE
INVARIANT TypeOK
INVARIANT ExecutedOnce
PROPERTY EveryRunEnds
CHECK_DEADLOCK FALSE
