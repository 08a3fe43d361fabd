----------------------------- MODULE MCProgress -----------------------------
(***************************************************************************)
(* An instance of the components of the web client that things must        *)
(* eventually happen in, for model checking, one by one as in MCClient:    *)
(* the initial state says at which the run looks.                          *)
(***************************************************************************)
EXTENDS CosmosTravel, Session, Publishing, Broadcasts, AddMemory, Onboarding

VARIABLE scene

Scenes == {"travel", "session", "publishing", "broadcasts", "memory", "onboarding"}

progressVars == <<scene, travelVars, sessionVars, publishingVars, broadcastVars, addMemoryVars,
                  onboardingVars>>

ProgressInit ==
    /\ scene \in Scenes
    /\ TravelInit /\ SessionInit /\ PublishingInit /\ BroadcastInit /\ AddMemoryInit
    /\ OnboardingInit
    /\ scene # "travel" => ~isFriendsDemo /\ scale = "planet"
    /\ scene # "broadcasts" => posted = {} /\ sent = {} /\ ~near
    /\ scene # "onboarding" => mounted /\ drafts.look = CHOOSE look \in Looks : TRUE

OthersWait ==
    /\ UNCHANGED scene
    /\ IF scene = "travel" THEN TRUE ELSE UNCHANGED travelVars
    /\ IF scene = "session" THEN TRUE ELSE UNCHANGED sessionVars
    /\ IF scene = "publishing" THEN TRUE ELSE UNCHANGED publishingVars
    /\ IF scene = "broadcasts" THEN TRUE ELSE UNCHANGED broadcastVars
    /\ IF scene = "memory" THEN TRUE ELSE UNCHANGED addMemoryVars
    /\ IF scene = "onboarding" THEN TRUE ELSE UNCHANGED onboardingVars

ProgressNext ==
    \/ scene = "travel" /\ TravelNext /\ OthersWait
    \/ scene = "session" /\ SessionNext /\ OthersWait
    \/ scene = "publishing" /\ PublishingNext /\ OthersWait
    \/ scene = "broadcasts" /\ BroadcastNext /\ OthersWait
    \/ scene = "memory" /\ AddMemoryNext /\ OthersWait
    \/ scene = "onboarding" /\ OnboardingNext /\ OthersWait

\* The fairness of each component while it is the scene.
ProgressFairness ==
    /\ WF_travelVars(scene = "travel" /\ TransitionStep)
    /\ WF_travelVars(scene = "travel" /\ FlightStep)
    /\ WF_travelVars(scene = "travel" /\ SnapshotStep)
    /\ \A p \in Posts : WF_publishingVars(scene = "publishing" /\ TaskStep(p))
    /\ WF_broadcastVars(scene = "broadcasts" /\ EventCompletes)
    /\ WF_broadcastVars(scene = "broadcasts" /\ SignalCompletes)
    /\ \A a \in Analyses : WF_addMemoryVars(scene = "memory" /\ AnalysisStep(a))
    /\ WF_onboardingVars(scene = "onboarding" /\ RitualStep)
    /\ WF_onboardingVars(scene = "onboarding" /\ FlowAnswers)

ProgressSpec == ProgressInit /\ [][ProgressNext]_progressVars /\ ProgressFairness
=============================================================================
