SPECIFICATION ClientSpec
CONSTANTS
  Friends = {c1}
  NoFriend = NoFriend
  Strangers = {1}
  Kinds = {"text", "shot"}
  MaxAnalyses = 2
  MaxUploads = 2
  Looks = {s1, s2}
  NoWorld = NoWorld
  LastField = 1
  MaxTasks = 2
  Nebulae = {n1, n2}
  NoNebula = NoNebula
  LastWindow = 1
  MaxRequests = 2
  MaxNebulaTasks = 1
  Memories = {m1, m2}
  NoMemory = NoMemory
  Filters = {1}
  Matching <- AllMatch
  MaxVersion = 2
  ChatFriends = {c1, c2}
  Nobody = Nobody
  Texts = {t1}
  NoText = NoText
  MaxMessages = 2
  People = {p1, p2}
  NoPerson = NoPerson
  MaxQueries = 1
  MaxLoads = 2
  MaxWritings = 3
  Candidates = {1}
  SeedWorkers = {w1}
  LastUnit = 1
  MaxRuns = 3
  Requests = {q1, q2}
  NoRequest = NoRequest
  LastJob = 2
INVARIANT ClientTypeOK
INVARIANT DraftKeepsReference
INVARIANT MemorySavedOnce
INVARIANT ClosedEditorLeavesNoChoice
INVARIANT SpaceIsActives
INVARIANT EnteredIsShown
INVARIANT RevisedFromStored
INVARIANT SendingIsOnItsWay
INVARIANT ListIsOfTheQuery
INVARIANT MeasuredAsApproved
INVARIANT SeededIsExtracted
CHECK_DEADLOCK FALSE
PROPERTY IsDraftStore
