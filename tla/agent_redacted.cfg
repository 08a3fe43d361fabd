SPECIFICATION Spec
CONSTANTS
  m1 = m1
  w1 = w1
  w2 = w2
  None = None
  Memories <- OneMemory
  Legacy <- NoMemory
  Workers <- OneWorker
  MaxVersion = 2
  MaxAttempts = 2
  BatchSize = 2
  MaxSessions = 2
  MayRecreate = FALSE
  MayCrash = FALSE
  MayFail = TRUE
INVARIANT RedactedIsSettled
CHECK_DEADLOCK FALSE
