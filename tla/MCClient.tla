------------------------------ MODULE MCClient ------------------------------
(***************************************************************************)
(* An instance of the components of the web client that keep one screen's  *)
(* state, of the evaluation scripts and of the server's ingestion, for     *)
(* model checking.  They share no state, so one run looks at them one by   *)
(* one: the initial state says at which, the scene, and the others stay in *)
(* one initial state of theirs.                                            *)
(***************************************************************************)
EXTENDS AddMemory, Onboarding, Nebula, MemoryLibrary, FriendChat, Connections, PersonaCohort,
        PersonaSeed, Ingestion

VARIABLE scene

Scenes == {"memory", "onboarding", "nebula", "library", "chat", "connections", "cohort", "seed",
           "ingestion"}

clientVars == <<scene, addMemoryVars, onboardingVars, nebulaVars, libraryVars, chatVars,
                connectionVars, cohortVars, seedVars, ingestionVars>>

\* Bound: the filter of the memory library lists every memory.
AllMatch == [f \in Filters |-> Memories]

ClientInit ==
    /\ scene \in Scenes
    /\ AddMemoryInit /\ OnboardingInit /\ NebulaInit /\ LibraryInit /\ ChatInit
    /\ ConnectionsInit /\ CohortInit /\ SeedInit /\ IngestionInit
    /\ scene # "onboarding" => mounted /\ drafts.look = CHOOSE look \in Looks : TRUE
    /\ scene # "nebula" => ~inNebulae /\ memberOf = {}

OthersWait ==
    /\ UNCHANGED scene
    /\ IF scene = "memory" THEN TRUE ELSE UNCHANGED addMemoryVars
    /\ IF scene = "onboarding" THEN TRUE ELSE UNCHANGED onboardingVars
    /\ IF scene = "nebula" THEN TRUE ELSE UNCHANGED nebulaVars
    /\ IF scene = "library" THEN TRUE ELSE UNCHANGED libraryVars
    /\ IF scene = "chat" THEN TRUE ELSE UNCHANGED chatVars
    /\ IF scene = "connections" THEN TRUE ELSE UNCHANGED connectionVars
    /\ IF scene = "cohort" THEN TRUE ELSE UNCHANGED cohortVars
    /\ IF scene = "seed" THEN TRUE ELSE UNCHANGED seedVars
    /\ IF scene = "ingestion" THEN TRUE ELSE UNCHANGED ingestionVars

ClientNext ==
    \/ scene = "memory" /\ AddMemoryNext /\ OthersWait
    \/ scene = "onboarding" /\ OnboardingNext /\ OthersWait
    \/ scene = "nebula" /\ NebulaNext /\ OthersWait
    \/ scene = "library" /\ LibraryNext /\ OthersWait
    \/ scene = "chat" /\ ChatNext /\ OthersWait
    \/ scene = "connections" /\ ConnectionsNext /\ OthersWait
    \/ scene = "cohort" /\ CohortNext /\ OthersWait
    \/ scene = "seed" /\ SeedNext /\ OthersWait
    \/ scene = "ingestion" /\ IngestionNext /\ OthersWait

ClientSpec == ClientInit /\ [][ClientNext]_clientVars

\* Every component is in its type.
ClientTypeOK ==
    /\ scene \in Scenes
    /\ scene = "memory" => AddMemoryTypeOK
    /\ scene = "onboarding" => OnboardingTypeOK
    /\ scene = "nebula" => NebulaTypeOK
    /\ scene = "library" => LibraryTypeOK
    /\ scene = "chat" => ChatTypeOK
    /\ scene = "connections" => ConnectionsTypeOK
    /\ scene = "cohort" => CohortTypeOK
    /\ scene = "seed" => SeedTypeOK
    /\ scene = "ingestion" => IngestionTypeOK
=============================================================================
