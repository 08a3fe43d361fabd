----------------------------- MODULE Onboarding -----------------------------
(***************************************************************************)
(* Making a world and editing it: the steps of OnboardingFlow.tsx with the *)
(* rituals between them (CreationRitual.tsx, UniverseTextPrelude.tsx), the *)
(* world chooser, the profile guide, and what the flow's requests do to    *)
(* the drafts in useProductStore.ts.                                       *)
(*                                                                         *)
(* Every request goes on when its flow is left: the continuation of a save *)
(* acts on the drafts of the store, whoever edits them by then.            *)
(***************************************************************************)
EXTENDS Naturals

CONSTANTS
    Looks,          \* what a world looks like: options, archetypes, authored worlds, skins
    NoWorld,        \* null
    LastField,      \* the last question of the profile guide
    MaxTasks        \* Bound: the requests on their way at once

Names == {"", "A world"}
Worlds == [name : Names, look : Looks, radius : {"default", "scored"}]

ASSUME OnboardingAssumption == LastField \in Nat /\ MaxTasks \in Nat /\ NoWorld \notin Worlds

VARIABLES
    screen,         \* the store's phase
    signedIn,       \* the store has a session
    drafts,         \* draftIdentity and draftVisual
    planet,         \* selfPlanet
    stored,         \* the world the server has
    unseen,         \* a stored world could not be loaded
    mounted,        \* the flow is shown
    editing,        \* its mode is "edit"
    onStep,         \* step
    persona,        \* a personality is chosen
    field,          \* fieldIndex
    intake,         \* the request of the hydrating effect, and its active flag
    creation,       \* creationStage
    ritual,         \* how far the creation ritual or the prelude is
    saving,         \* saving
    tasks           \* the requests of the handlers, by slot

onboardingVars == <<screen, signedIn, drafts, planet, stored, unseen, mounted, editing, onStep,
    persona, field, intake, creation, ritual, saving, tasks>>
accountVars == <<screen, signedIn, planet, stored, unseen>>
flowVars == <<mounted, editing, onStep, persona, field, intake, creation, ritual>>

OnSteps == <<"personality", "planet", "profile", "matching", "review">>
Rituals == {"waiting", "collapse", "singularity", "formation", "forming", "formed"}
Prelude == {"first line", "second line", "third line"}
TaskKinds == {"saveGuide", "saveReview", "discover", "create", "reload", "launch", "enter",
          "connect", "leave"}
Tasks == [kind : TaskKinds, live : BOOLEAN, body : Worlds \union {NoWorld}]
Slots == 1..MaxTasks
TaskOf(kind, live, body) == [kind |-> kind, live |-> live, body |-> body]
NoTask == TaskOf("none", FALSE, NoWorld)
NoTasks == [i \in Slots |-> NoTask]

OnboardingTypeOK ==
    /\ screen \in {"auth", "onboarding", "universe"} /\ signedIn \in BOOLEAN
    /\ drafts \in Worlds /\ planet \in Worlds \union {NoWorld}
    /\ stored \in Worlds \union {NoWorld} /\ unseen \in BOOLEAN
    /\ mounted \in BOOLEAN /\ editing \in BOOLEAN
    /\ onStep \in {OnSteps[i] : i \in 1..5} /\ persona \in BOOLEAN
    /\ field \in 0..LastField /\ intake \in {"none", "asked"}
    /\ creation \in {"idle", "ritual", "prelude"} /\ ritual \in Rituals \union Prelude
    /\ saving \in BOOLEAN
    /\ tasks \in [Slots -> Tasks \union {NoTask}]

BlankDraft(look) == [name |-> "", look |-> look, radius |-> "default"]

\* A new account at its first step, or the universe of one that has its world.
OnboardingInit ==
    /\ signedIn = TRUE /\ unseen = FALSE
    /\ screen \in {"onboarding", "universe"}
    /\ \E look \in Looks :
          drafts = IF screen = "onboarding" THEN BlankDraft(look)
                  ELSE [BlankDraft(look) EXCEPT !.name = "A world", !.radius = "scored"]
    /\ planet = IF screen = "onboarding" THEN NoWorld ELSE drafts
    /\ stored = planet
    /\ mounted = (screen = "onboarding") /\ editing = FALSE
    /\ onStep = "personality" /\ persona = FALSE /\ field = 0
    /\ intake = IF mounted THEN "asked" ELSE "none"
    /\ creation = "idle" /\ ritual = "waiting"
    /\ saving = FALSE /\ tasks = NoTasks

(***************************************************************************)
(* What is on the screen.                                                  *)
(***************************************************************************)
StepShown(s) == mounted /\ creation = "idle" /\ onStep = s
HeaderShown == mounted /\ creation = "idle" /\ (onStep = "profile" => editing)
FooterShown == mounted /\ creation = "idle" /\ onStep # "profile"
SelectorShown == StepShown("personality")
ChooserShown == StepShown("planet") /\ persona
MatchingShown == StepShown("matching")
ReviewShown == StepShown("review") /\ persona

\* The profile step of a new account is a journey whose buttons wait for the save;
\* the editor's form has its buttons whether it saves or not.
JourneyEnabled == StepShown("profile") /\ ~editing /\ ~saving
GuideFormShown == StepShown("profile") /\ editing

StepIndex == CHOOSE i \in 1..5 : OnSteps[i] = onStep

CanContinue ==
    /\ signedIn
    /\ onStep = "personality" => persona
    /\ onStep = "planet" => drafts.name = "A world"

\* The effect that loads the intake depends on the name and the profile: when either
\* changes its cleanup drops the answer, and the ref lets it ask once only.
IntakeFollows(changed) == intake' = IF changed THEN "none" ELSE intake

DraftChanges(d) ==
    /\ drafts' = d
    /\ IntakeFollows(d.name # drafts.name)
    /\ UNCHANGED <<accountVars, mounted, editing, onStep, field, creation, ritual, saving, tasks>>

Ask(kind, body) ==
    \E i \in Slots : /\ tasks[i] = NoTask
                     /\ tasks' = [tasks EXCEPT ![i] = TaskOf(kind, TRUE, body)]

\* connectingUserId, returningToAuth: one request of the kind at a time.
Asking(kind) == \E i \in Slots : tasks[i].kind = kind /\ tasks[i].live

(***************************************************************************)
(* The hydrating effect.  The stored intake may know the personality.      *)
(***************************************************************************)
FirstOption(look) == [name |-> "A world", look |-> look, radius |-> "default"]

IntakeAnswer(known, look) ==
    /\ intake = "asked"
    /\ intake' = "none" /\ persona' = (persona \/ known)
    /\ drafts' = IF known /\ drafts.name = "" THEN FirstOption(look) ELSE drafts
    /\ UNCHANGED <<accountVars, mounted, editing, onStep, field, creation, ritual, saving, tasks>>

IntakeFails ==
    /\ intake = "asked" /\ intake' = "none"
    /\ UNCHANGED <<accountVars, drafts, mounted, editing, onStep, persona, field, creation,
                   ritual, saving, tasks>>

(***************************************************************************)
(* Personality and world.  Every other world keeps the radius.             *)
(***************************************************************************)
ChoosePersonality(look) ==
    /\ SelectorShown
    /\ persona' = TRUE
    /\ DraftChanges([drafts EXCEPT !.look = look,
                                  !.name = IF drafts.name = "" THEN "A world" ELSE drafts.name])

ChooseWorld(look) ==
    ChooserShown /\ DraftChanges([drafts EXCEPT !.look = look]) /\ UNCHANGED persona

NameWorld(name) ==
    ChooserShown /\ DraftChanges([drafts EXCEPT !.name = name]) /\ UNCHANGED persona

(***************************************************************************)
(* The steps.                                                              *)
(***************************************************************************)
GoTo(s) ==
    /\ onStep' = s
    /\ UNCHANGED <<accountVars, drafts, mounted, editing, persona, field, intake, creation,
                   ritual, saving, tasks>>

GoToField(f) ==
    /\ field' = f
    /\ UNCHANGED <<accountVars, drafts, mounted, editing, onStep, persona, intake, creation,
                   ritual, saving, tasks>>

NextEnabled == FooterShown /\ CanContinue /\ ~saving

\* buildIntake needs a profile and a personality; the rest of it is data.
BuildsIntake == signedIn /\ persona

NextStep ==
    /\ NextEnabled
    /\ \/ onStep = "personality" /\ GoTo("planet")
       \/ onStep = "planet" /\ editing /\ GoTo("profile")
       \/ onStep = "matching" /\ GoTo("review")

BeginRitual ==
    /\ NextEnabled /\ onStep = "planet" /\ ~editing
    /\ creation' = "ritual" /\ ritual' = "waiting"
    /\ UNCHANGED <<accountVars, drafts, mounted, editing, onStep, persona, field, intake,
                   saving, tasks>>

SaveReview ==
    /\ NextEnabled /\ ReviewShown
    /\ saving' = TRUE
    /\ IF editing THEN BuildsIntake /\ Ask("saveReview", NoWorld) ELSE Ask("launch", drafts)
    /\ UNCHANGED <<accountVars, drafts, flowVars>>

\* The progress bar of the editor.
Navigate(s) == HeaderShown /\ editing /\ onStep # s /\ GoTo(s)

GoBack ==
    /\ FooterShown \/ JourneyEnabled \/ GuideFormShown
    /\ IF onStep = "profile" /\ field > 0 THEN GoToField(field - 1)
       ELSE StepIndex > 1 /\ GoTo(OnSteps[StepIndex - 1])

\* advanceProfileField, and skipProfileField
GuideEnabled == JourneyEnabled \/ GuideFormShown

NextField == GuideEnabled /\ field < LastField /\ GoToField(field + 1)

SaveGuide ==
    /\ GuideEnabled /\ field = LastField /\ BuildsIntake
    /\ saving' = TRUE /\ Ask("saveGuide", NoWorld)
    /\ UNCHANGED <<accountVars, drafts, flowVars>>

ConnectUser ==
    /\ MatchingShown /\ ~Asking("discover") /\ ~Asking("connect")
    /\ Ask("connect", NoWorld)
    /\ UNCHANGED <<accountVars, drafts, flowVars, saving>>

ReturnToAuth ==
    /\ HeaderShown /\ ~editing
    /\ ~Asking("leave") /\ Ask("leave", NoWorld)
    /\ UNCHANGED <<accountVars, drafts, flowVars, saving>>

\* The flow's own state goes with it; its requests stay.
Unmounts ==
    /\ mounted' = FALSE /\ creation' = "idle" /\ ritual' = "waiting"
    /\ intake' = "none" /\ saving' = FALSE
    /\ editing' = FALSE /\ onStep' = "personality" /\ persona' = FALSE /\ field' = 0

Orphaned(ts) == [i \in Slots |-> TaskOf(ts[i].kind, FALSE, ts[i].body)]

\* Faulty: what was chosen in the editor stays in the drafts.
CloseEditorKeepingDraft ==
    /\ mounted /\ editing
    /\ UNCHANGED <<drafts, accountVars>>
    /\ Unmounts /\ tasks' = Orphaned(tasks)

CloseEditor ==
    /\ mounted /\ editing
    /\ drafts' = IF planet # NoWorld THEN planet ELSE drafts
    /\ UNCHANGED accountVars
    /\ Unmounts /\ tasks' = Orphaned(tasks)

OpenEditor ==
    /\ screen = "universe" /\ signedIn /\ ~mounted
    /\ mounted' = TRUE /\ editing' = TRUE /\ onStep' = "profile" /\ persona' = TRUE
    /\ field' = 0 /\ intake' = "asked"
    /\ UNCHANGED <<accountVars, drafts, creation, ritual, saving, tasks>>

(***************************************************************************)
(* The ritual and the prelude: timers, a formation drawn frame by frame,   *)
(* and a button that skips the rest.                                       *)
(***************************************************************************)
RitualAfter(r) ==
    CASE r = "waiting" -> "collapse" [] r = "collapse" -> "singularity"
      [] r = "singularity" -> "formation" [] r = "formation" -> "forming"
      [] r = "forming" -> "formed" [] OTHER -> "formed"

\* AuthGalaxy draws the formation in the phase of that name alone.
FormationDrawn == creation = "ritual" /\ ritual = "forming"

RitualMoves(c, r, s) ==
    /\ creation' = c /\ ritual' = r /\ onStep' = s
    /\ UNCHANGED <<accountVars, drafts, mounted, editing, persona, field, intake, saving, tasks>>

RitualTimer ==
    /\ creation = "ritual" /\ ritual # "formed" /\ ~FormationDrawn
    /\ RitualMoves("ritual", RitualAfter(ritual), onStep)

\* GenesisFormation tells its end once, from the frame that reaches it.
FormationFrame ==
    FormationDrawn /\ RitualMoves("ritual", RitualAfter(ritual), onStep)

\* Faulty: a formation that ends before the minimum duration does not finish the ritual.
RitualFinishesLateOnly(skipped) ==
    creation = "ritual" /\ skipped /\ RitualMoves("prelude", "first line", onStep)

\* The end of the formation finishes it, at once or by a timer for what remains
\* of the minimum duration; the button does at any time.
RitualFinishes(skipped) ==
    /\ creation = "ritual" /\ (skipped \/ ritual = "formed")
    /\ RitualMoves("prelude", "first line", onStep)

PreludeLine ==
    /\ creation = "prelude"
    /\ \/ ritual = "first line" /\ RitualMoves("prelude", "second line", onStep)
       \/ ritual = "second line" /\ RitualMoves("prelude", "third line", onStep)

PreludeFinishes(skipped) ==
    /\ creation = "prelude" /\ (skipped \/ ritual = "third line")
    /\ RitualMoves("idle", "waiting", "profile")

(***************************************************************************)
(* The answers.  What a handler sets of a flow that is gone has no effect. *)
(***************************************************************************)
Freed(i) == [tasks EXCEPT ![i] = NoTask]
Done(i) == tasks' = Freed(i)
Continue(i, kind, body) == tasks' = [tasks EXCEPT ![i] = TaskOf(kind, tasks[i].live, body)]
Sets(i, value, old) == IF tasks[i].live THEN value ELSE old

\* Faulty: a request that fails leaves the flow waiting.
FailsWaiting(i) ==
    /\ tasks[i].kind \notin {"leave", "enter"}
    /\ Done(i)
    /\ unseen' = (unseen \/ tasks[i].kind = "reload")
    /\ UNCHANGED <<screen, signedIn, planet, stored, drafts, mounted, editing, onStep, persona,
                   field, intake, creation, ritual, saving>>

Fails(i) ==
    /\ tasks[i].kind \notin {"leave", "enter"}
    /\ Done(i)
    /\ unseen' = (unseen \/ tasks[i].kind = "reload")
    /\ saving' = Sets(i, saving /\ tasks[i].kind \in {"discover", "connect"}, saving)
    /\ onStep' = Sets(i, IF tasks[i].kind = "discover" THEN "matching" ELSE onStep, onStep)
    /\ UNCHANGED <<screen, signedIn, planet, stored, drafts, mounted, editing, persona, field,
                   intake, creation, ritual>>

\* saveProfileIntake: the profile and its score come back into the drafts.
IntakeSaved(i) ==
    /\ tasks[i].kind \in {"saveGuide", "saveReview"}
    /\ drafts' = [drafts EXCEPT !.radius = "scored"]
    /\ IntakeFollows(TRUE)
    /\ IF tasks[i].kind = "saveGuide"
         THEN Continue(i, "discover", NoWorld) /\ saving' = Sets(i, FALSE, saving)
         ELSE Continue(i, "create", drafts') /\ saving' = Sets(i, TRUE, saving)
    /\ UNCHANGED <<accountVars, mounted, editing, onStep, persona, field, creation, ritual>>

Discovered(i) ==
    /\ tasks[i].kind = "discover" /\ Done(i)
    /\ onStep' = Sets(i, "matching", onStep)
    /\ UNCHANGED <<accountVars, drafts, mounted, editing, persona, field, intake, creation,
                   ritual, saving>>

\* The editor's createPlanet; the launch's, with the cosmos asked for next.  The
\* server takes no world without a name, and scores the radius itself.
WorldCreated(i) ==
    /\ tasks[i].kind \in {"create", "launch"} /\ signedIn /\ tasks[i].body.name # ""
    /\ stored' = [tasks[i].body EXCEPT !.radius = "scored"]
    /\ Continue(i, IF tasks[i].kind = "create" THEN "reload" ELSE "enter", stored')
    /\ UNCHANGED <<screen, signedIn, planet, unseen, drafts, flowVars, saving>>

\* getCosmos, hydrateCosmos; the editor that is open is closed.
Reloaded(i) ==
    /\ tasks[i].kind = "reload"
    /\ planet' = stored /\ drafts' = IF stored # NoWorld THEN stored ELSE drafts
    /\ unseen' = FALSE
    /\ IF mounted THEN Unmounts ELSE UNCHANGED <<flowVars, saving>>
    /\ tasks' = Orphaned(Freed(i))
    /\ UNCHANGED <<screen, signedIn, stored>>

\* completeGenesis, with or without the cosmos: the universe takes the flow's place.
Entered(i) ==
    /\ tasks[i].kind = "enter"
    /\ planet' \in {stored, tasks[i].body} /\ screen' = "universe"
    /\ IF mounted THEN Unmounts ELSE UNCHANGED <<flowVars, saving>>
    /\ tasks' = Orphaned(Freed(i))
    /\ UNCHANGED <<signedIn, stored, unseen, drafts>>

\* createRelationship brings the server's planet and profile.
ConnectAnswer(i) ==
    /\ tasks[i].kind = "connect" /\ Done(i)
    /\ planet' = stored
    /\ IntakeFollows(TRUE)
    /\ UNCHANGED <<screen, signedIn, stored, unseen, drafts, mounted, editing, onStep, persona,
                   field, creation, ritual, saving>>

\* signOut empties the store whether the server answers or not.
SignedOut(i) ==
    /\ tasks[i].kind = "leave"
    /\ signedIn' = FALSE /\ screen' = "auth" /\ planet' = NoWorld
    /\ drafts' = BlankDraft(drafts.look)
    /\ IF mounted THEN Unmounts ELSE UNCHANGED <<flowVars, saving>>
    /\ tasks' = Orphaned(Freed(i))
    /\ UNCHANGED <<stored, unseen>>

Answer(i) ==
    \/ IntakeSaved(i) \/ Discovered(i) \/ WorldCreated(i) \/ Reloaded(i) \/ Entered(i)
    \/ ConnectAnswer(i) \/ SignedOut(i) \/ Fails(i)

Answers(kind, live) ==
    \E i \in Slots : tasks[i].kind = kind /\ tasks[i].live = live /\ Answer(i)

RitualStep ==
    \/ RitualTimer \/ FormationFrame \/ RitualFinishes(FALSE) \/ PreludeLine \/ PreludeFinishes(FALSE)

OnboardingNext ==
    \/ \E look \in Looks, known \in BOOLEAN : IntakeAnswer(known, look)
    \/ IntakeFails
    \/ \E look \in Looks : ChoosePersonality(look) \/ ChooseWorld(look)
    \/ \E name \in Names : NameWorld(name)
    \/ NextStep \/ BeginRitual \/ SaveReview \/ GoBack \/ NextField \/ SaveGuide
    \/ \E i \in 1..5 : Navigate(OnSteps[i])
    \/ ConnectUser \/ ReturnToAuth \/ CloseEditor \/ OpenEditor
    \/ RitualStep \/ RitualFinishes(TRUE) \/ PreludeFinishes(TRUE)
    \/ \E kind \in TaskKinds, live \in BOOLEAN : Answers(kind, live)

\* Timers fire and frames are drawn; what the flow waits for is answered or fails.
FlowAnswers == \E kind \in TaskKinds \ {"connect"} : Answers(kind, TRUE)
OnboardingFairness == WF_onboardingVars(RitualStep) /\ WF_onboardingVars(FlowAnswers)

OnboardingSpec == OnboardingInit /\ [][OnboardingNext]_onboardingVars /\ OnboardingFairness

(***************************************************************************)
(* Properties.                                                             *)
(***************************************************************************)

\* What was chosen in an editor that was closed does not stay in the drafts, from
\* which the next editor starts, whatever was on its way: unless a world was
\* stored that could not be loaded again.
ClosedEditorLeavesNoChoice ==
    screen = "universe" /\ signedIn /\ ~mounted /\ tasks = NoTasks /\ ~unseen
      => planet # NoWorld /\ drafts.name = planet.name /\ drafts.look = planet.look

\* The creation ends, also when nobody skips it, and so does every wait of the flow.
CreationEnds == creation # "idle" ~> creation = "idle"
WaitsEnd == saving ~> ~saving
=============================================================================
