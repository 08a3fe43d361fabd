SPECIFICATION FairSpec
CONSTANTS
  m1 = m1
  w1 = w1
  w2 = w2
  None = None
  Memories <- OneMemory
  Legacy <- NoMemory
  Workers <- OneWorker
  MaxVersion = 2
  MaxAttempts = 2
  BatchSize = 2
  MaxSessions = 0
  MayRecreate = FALSE
  MayCrash = FALSE
  MayFail = TRUE
INVARIANT TypeOK
CHECK_DEADLOCK FALSE
PROPERTY EventsAreResolved
