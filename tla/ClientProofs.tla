---------------------------- MODULE ClientProofs ----------------------------
(***************************************************************************)
(* What MCClient puts side by side, for any values of the constants: every *)
(* behaviour of the whole is one of each component, so that all that is    *)
(* proved of the components' steps holds of the whole, its types first.    *)
(***************************************************************************)
EXTENDS MCClient, AddMemoryProofs, PanelProofs, PersonaProofs, IngestionProofs

\* A step of the whole is a step of each component or leaves it alone.
LEMMA ScenesStep ==
    [ClientNext]_clientVars =>
        /\ UNCHANGED scene
        /\ [AddMemoryNext]_addMemoryVars /\ [OnboardingNext]_onboardingVars
        /\ [NebulaNext]_nebulaVars /\ [LibraryNext]_libraryVars
        /\ [ChatNext]_chatVars /\ [ConnectionsNext]_connectionVars
        /\ [CohortNext]_cohortVars /\ [SeedNext]_seedVars
        /\ [IngestionNext]_ingestionVars
<1>1. UNCHANGED clientVars =>
        /\ UNCHANGED scene
        /\ UNCHANGED addMemoryVars /\ UNCHANGED onboardingVars
        /\ UNCHANGED nebulaVars /\ UNCHANGED libraryVars
        /\ UNCHANGED chatVars /\ UNCHANGED connectionVars
        /\ UNCHANGED cohortVars /\ UNCHANGED seedVars
        /\ UNCHANGED ingestionVars
  BY DEF clientVars
<1>2. QED
  BY <1>1 DEF ClientNext, OthersWait

\* Each component of the whole behaves as it is specified.  Of the two that are specified
\* with their fairness, the whole is a behaviour without it.
THEOREM ClientComposes ==
    ClientSpec =>
        /\ AddMemoryInit /\ [][AddMemoryNext]_addMemoryVars
        /\ OnboardingInit /\ [][OnboardingNext]_onboardingVars
        /\ NebulaSpec /\ LibrarySpec /\ ChatSpec /\ ConnectionsSpec
        /\ CohortSpec /\ SeedSpec /\ IngestionSpec
<1>1. ClientInit =>
        /\ AddMemoryInit /\ OnboardingInit /\ NebulaInit /\ LibraryInit /\ ChatInit
        /\ ConnectionsInit /\ CohortInit /\ SeedInit /\ IngestionInit
  BY DEF ClientInit
<1>2. QED
  BY <1>1, ScenesStep, PTL
     DEF ClientSpec, NebulaSpec, LibrarySpec, ChatSpec, ConnectionsSpec, CohortSpec, SeedSpec,
         IngestionSpec

\* ClientTypeOK: the component at which a behaviour looks is in its type, whichever it is.
THEOREM ClientTypes == ClientSpec => []ClientTypeOK
<1>1. ClientInit => scene \in Scenes
  BY DEF ClientInit
<1>2. scene \in Scenes /\ [ClientNext]_clientVars => (scene \in Scenes)'
  BY ScenesStep
<1>3. Typed /\ CoreInv => AddMemoryTypeOK
  BY AddMemoryTypeParts DEF Typed, TypeInv
<1>4. OnboardingInv => OnboardingTypeOK
  BY DEF OnboardingInv
<1>5. /\ scene \in Scenes /\ AddMemoryTypeOK /\ OnboardingTypeOK /\ NebulaTypeOK
      /\ LibraryTypeOK /\ ChatTypeOK /\ ConnectionsTypeOK /\ CohortTypeOK /\ SeedTypeOK
      /\ IngestionTypeOK
      => ClientTypeOK
  BY DEF ClientTypeOK
<1>6. ClientSpec => [](scene \in Scenes)
  BY <1>1, <1>2, PTL DEF ClientSpec
<1>7. QED
  BY <1>3, <1>4, <1>5, <1>6, ClientComposes, AddMemoryInductive, OnboardingInductive,
     NebulaTypes, LibraryTypes, ChatTypes, ConnectionsTypes, CohortTypes, SeedTypes,
     IngestionTypes, PTL
=============================================================================
