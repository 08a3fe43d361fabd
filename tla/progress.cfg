SPECIFICATION ProgressSpec
CONSTANTS
  Planets = {p1, p2}
  Home = Home
  NoPlanet = NoPlanet
  MaxPages = 3
  Accounts = {a1, a2}
  NoAccount = NoAccount
  MaxSignIns = 3
  MaxLeaving = 2
  Files = {f1, voice}
  Recording = voice
  MaxMedia = 2
  Attempts = 3
  Posts = {q1}
  Activities = {1, 2}
  OwnActivities = {2}
  Signals = {s1}
  NoActivity = NoActivity
  NoSignal = NoSignal
  Friends = {c1}
  NoFriend = NoFriend
  Strangers = {1}
  Kinds = {"text", "shot", "media"}
  MaxAnalyses = 1
  MaxUploads = 3
  Looks = {s1}
  NoWorld = NoWorld
  LastField = 1
  MaxTasks = 2
INVARIANT TravelInStep
INVARIANT BookInStep
INVARIANT TokenIsSessions
INVARIANT OwnCosmos
INVARIANT UploadingIsTasked
INVARIANT CreatedComplete
INVARIANT AnnouncedOnce
PROPERTY IsJourney
PROPERTY ArrivesCovered
PROPERTY TravelEnds
PROPERTY DeliverySettles
 
PROPERTY LoadingEnds
PROPERTY CreationEnds
PROPERTY WaitsEnd
CHECK_DEADLOCK FALSE
