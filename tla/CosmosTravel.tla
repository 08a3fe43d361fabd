---------------------------- MODULE CosmosTravel ----------------------------
(***************************************************************************)
(* Visiting a friend's planet and coming back: the transition machine of   *)
(* UniverseExperience.tsx, the travel operations of useProductStore.ts,    *)
(* the flight of CometRide.tsx, the snapshot useSpatialSnapshot.ts loads   *)
(* for it, and the memory book that opens on arrival (MemoryBook.tsx).     *)
(*                                                                         *)
(* A black veil hides every change of scene.  Its CSS transition, the      *)
(* flight, two animation frames and a timer end independently of each      *)
(* other, and the answers of requests made before the departure replace    *)
(* the planets meanwhile.                                                  *)
(***************************************************************************)
EXTENDS Naturals

CONSTANTS
    Planets,        \* the friends' planets
    Home,           \* selfPlanet
    NoPlanet,       \* null
    MaxPages        \* the longest memory book

ASSUME CosmosTravelAssumption ==
    /\ Home \notin Planets /\ NoPlanet \notin Planets \union {Home}
    /\ MaxPages \in Nat \ {0}

VARIABLES
    scale,          \* universeScale
    selected,       \* selectedPlanetId
    active,         \* activePlanetId
    destination,    \* travelDestinationId
    traveling,      \* isTraveling
    phase,          \* travelTransitionPhase
    target,         \* transitionDestinationRef
    landed,         \* flightFinishedRef, veilOpaqueRef and arrivalCommittedRef
    stage,          \* visitStage
    veil,           \* the opacity the veil last came to rest at, or "between"
    flight,         \* how far CometRide is
    nodes,          \* the friends in the spatial snapshot
    loading,        \* the state of its loading
    isFriendsDemo,  \* the profile is one of the demo's: nothing is saved
    late,           \* requests on their way whose answer replaces the planets
    book            \* MemoryBook: currentPage, bookState, openedSentRef, pages

travelVars == <<scale, selected, active, destination, traveling, phase, target,
                landed, stage, veil, flight, nodes, loading, isFriendsDemo, late, book>>

TravelPhases ==
    {"IDLE", "FADE_OUT_CURRENT_SCENE", "INTRO_READY", "TRAVEL_ACTIVE",
     "FADE_OUT_ARRIVAL", "SWITCH_TARGET_SCENE", "REVEAL_TARGET_SCENE"}
Stages == {"idle", "traveling", "book-opening", "book-view", "page-turning",
           "planet-detail"}
Places == Planets \union {Home}

NotLanded == [flight |-> FALSE, veil |-> FALSE, committed |-> FALSE]
ClosedBook == [page |-> 0, turning |-> "no", told |-> FALSE]

TravelTypeOK ==
    /\ scale \in {"planet", "galaxy"}
    /\ selected \in Planets \union {NoPlanet}
    /\ active \in Places
    /\ destination \in Places \union {NoPlanet}
    /\ traveling \in BOOLEAN
    /\ phase \in TravelPhases
    /\ target \in Places \union {NoPlanet}
    /\ landed \in [flight : BOOLEAN, veil : BOOLEAN, committed : BOOLEAN]
    /\ stage \in Stages
    /\ veil \in {"clear", "between", "opaque"}
    /\ flight \in {"preflight", "flying", "fading", "arrived"}
    /\ nodes \subseteq Planets
    /\ loading \in {"idle", "loading", "failed"}
    /\ isFriendsDemo \in BOOLEAN /\ late \subseteq {"view", "cosmos"}
    /\ book \in [page : 0..MaxPages, turning : {"no", "previous", "next"}, told : BOOLEAN]

\* A session just opened, or restored at the scale it was left: a travel is not
\* persisted, and the restored cosmos makes the home planet the active one.
TravelInit ==
    /\ scale \in {"planet", "galaxy"} /\ selected = NoPlanet
    /\ active = Home
    /\ destination = NoPlanet /\ traveling = FALSE /\ phase = "IDLE"
    /\ target = NoPlanet /\ landed = NotLanded /\ stage = "idle"
    /\ veil = "clear" /\ flight = "preflight"
    /\ nodes = {} /\ loading = IF scale = "galaxy" THEN "loading" ELSE "idle"
    /\ late = {} /\ isFriendsDemo \in BOOLEAN /\ book = ClosedBook

(***************************************************************************)
(* What is on the screen.                                                  *)
(***************************************************************************)
VeilIsOpaque ==
    phase \in {"FADE_OUT_CURRENT_SCENE", "INTRO_READY", "FADE_OUT_ARRIVAL",
               "SWITCH_TARGET_SCENE"}

VeilTarget == IF VeilIsOpaque THEN "opaque" ELSE "clear"

\* The veil takes the pointer while it is opaque and while it is lifted.
ControlsReachable == ~traveling /\ ~VeilIsOpaque /\ phase # "REVEAL_TARGET_SCENE"

BookStages == {"book-opening", "book-view", "page-turning"}
BookShown == ~traveling /\ scale = "planet" /\ stage \in BookStages
\* Faulty: the book keeps its state when it is opened again.
BookFollowsItself == UNCHANGED book

\* The book's state goes with the component; the effect of "opening" resets it.
BookFollows ==
    book' = IF BookShown /\ BookShown' /\ stage' # "book-opening" THEN book ELSE ClosedBook

\* sceneSnapshot holds the node of p: at planet scale it is the home alone.
HasNode(p) == IF p = Home THEN scale = "planet" \/ nodes # {} ELSE p \in nodes

(***************************************************************************)
(* useSpatialSnapshot: loaded anew at galaxy scale, and whenever the home  *)
(* planet is replaced.                                                     *)
(***************************************************************************)
SnapshotRestarts == nodes' = {} /\ loading' = IF scale' = "galaxy" THEN "loading" ELSE "idle"

\* A window merged into the snapshot changes its nodes: a flight starts over.
WindowAnswer(some) ==
    /\ loading = "loading" /\ some # {} /\ some \subseteq Planets \ nodes
    /\ nodes' = nodes \union some
    /\ loading' = IF nodes' = Planets THEN "idle" ELSE "loading"
    /\ flight' = "preflight"
    /\ UNCHANGED <<scale, selected, active, destination, traveling, phase, target,
                   landed, stage, veil, isFriendsDemo, late, book>>

WindowFails ==
    /\ loading = "loading"
    /\ loading' = "failed"
    /\ UNCHANGED <<scale, selected, active, destination, traveling, phase, target,
                   landed, stage, veil, flight, nodes, isFriendsDemo, late, book>>

(***************************************************************************)
(* The controls: UniverseHUD, the planets of the galaxy, the detail panel. *)
(***************************************************************************)
HandleScaleChange(next) == scale' = next /\ selected' = NoPlanet

ExploreGalaxy ==
    /\ ControlsReachable /\ active = Home /\ scale # "galaxy"
    /\ HandleScaleChange("galaxy")
    /\ UNCHANGED <<active, destination, traveling, phase, target, landed, stage,
                   veil, flight, isFriendsDemo, late>>
    /\ SnapshotRestarts /\ BookFollows

\* handleSelectPlanet; the view is recorded, and its answer replaces the planets.
SelectPlanet(p) ==
    /\ ControlsReachable /\ scale = "galaxy" /\ p \in nodes
    /\ selected' = p
    /\ late' = IF isFriendsDemo THEN late ELSE late \union {"view"}
    /\ UNCHANGED <<scale, active, destination, traveling, phase, target, landed,
                   stage, veil, flight, nodes, loading, book, isFriendsDemo>>

\* A saved, changed or restored memory or relationship is on its way.
RequestCosmos ==
    /\ ControlsReachable /\ ~isFriendsDemo /\ "cosmos" \notin late
    /\ late' = late \union {"cosmos"}
    /\ UNCHANGED <<scale, selected, active, destination, traveling, phase, target,
                   landed, stage, veil, flight, nodes, loading, book, isFriendsDemo>>

CloseDetail ==
    /\ ControlsReachable /\ selected # NoPlanet
    /\ selected' = NoPlanet
    /\ UNCHANGED <<scale, active, destination, traveling, phase, target, landed,
                   stage, veil, flight, nodes, loading, isFriendsDemo, late, book>>

\* beginVisit; a veil still lifting after a cancelled visit turns back half-way.
BeginVisit(p) ==
    /\ ControlsReachable /\ phase = "IDLE"
    /\ phase' = "FADE_OUT_CURRENT_SCENE" /\ target' = p /\ landed' = NotLanded
    /\ veil' = IF veil = "opaque" THEN "between" ELSE veil
    /\ UNCHANGED <<scale, selected, active, destination, traveling, stage, flight,
                   nodes, loading, isFriendsDemo, late, book>>

\* From the detail panel of the selected planet.
VisitSelected == selected # NoPlanet /\ BeginVisit(selected)

\* From the meteor of a shared memory.  The scene shows it at either scale, also
\* when its planet has no place in the snapshot.
VisitSignal(p) == ~isFriendsDemo /\ BeginVisit(p)

\* Faulty: the travel goes to the planet that is selected.
StartTravelSelected(p) ==
    destination' = selected /\ traveling' = TRUE /\ selected' = NoPlanet
    /\ flight' = "preflight"

\* The store's startTravel and startReturnTravel; the effect of CometRide starts over.
StartTravel(p) ==
    destination' = p /\ traveling' = TRUE /\ selected' = NoPlanet /\ flight' = "preflight"

ReturnHome ==
    /\ ControlsReachable /\ phase = "IDLE" /\ active # Home
    /\ phase' = "TRAVEL_ACTIVE" /\ target' = Home /\ landed' = NotLanded
    /\ stage' = "traveling"
    /\ StartTravel(Home)
    /\ UNCHANGED <<scale, active, veil, nodes, loading, isFriendsDemo, late>>
    /\ BookFollows

\* The VisitorHUD is there with a travel: its button and Escape cancel.
CancelReachable == traveling

\* Faulty: the stage of the visit is left.
CancelVisitKeepingStage ==
    /\ CancelReachable
    /\ phase \notin {"FADE_OUT_ARRIVAL", "SWITCH_TARGET_SCENE", "REVEAL_TARGET_SCENE"}
    /\ destination' = NoPlanet /\ traveling' = FALSE
    /\ target' = NoPlanet /\ phase' = "IDLE" /\ flight' = "preflight"
    /\ UNCHANGED <<scale, selected, active, landed, stage, veil, nodes, loading,
                   isFriendsDemo, late, book>>

CancelVisit ==
    /\ CancelReachable
    /\ phase \notin {"FADE_OUT_ARRIVAL", "SWITCH_TARGET_SCENE", "REVEAL_TARGET_SCENE"}
    /\ destination' = NoPlanet /\ traveling' = FALSE
    /\ stage' = "idle" /\ target' = NoPlanet /\ phase' = "IDLE"
    /\ flight' = "preflight"
    /\ UNCHANGED <<scale, selected, active, landed, veil, nodes, loading, isFriendsDemo,
                   late>>
    /\ BookFollows

(***************************************************************************)
(* The transition.                                                         *)
(***************************************************************************)
\* Faulty: the end of the flight is enough.
MayCommitUncovered(l) == l.flight /\ ~l.committed

MayCommit(l) == l.flight /\ l.veil /\ ~l.committed

\* The store's completeTravel; the demo ends at home in its galaxy.
CompleteTravel ==
    /\ traveling' = FALSE /\ destination' = NoPlanet /\ selected' = NoPlanet
    /\ active' = destination
    /\ scale' = IF isFriendsDemo /\ target = Home THEN "galaxy" ELSE "planet"

\* commitArrival, with l the refs so far
CommitArrival(l) ==
    IF ~MayCommit(l)
      THEN /\ landed' = l
           /\ UNCHANGED <<scale, selected, active, destination, traveling, stage,
                          nodes, loading, book>>
      ELSE /\ landed' = [l EXCEPT !.committed = TRUE]
           /\ phase' = "SWITCH_TARGET_SCENE"
           /\ CompleteTravel
           /\ stage' = IF target \notin {NoPlanet, Home} THEN "book-opening" ELSE "planet-detail"
           /\ SnapshotRestarts /\ BookFollows

\* The end of the veil's CSS transition, and handleTransitionEnd.
VeilSettles ==
    /\ veil # VeilTarget /\ veil' = VeilTarget
    /\ \/ /\ phase = "FADE_OUT_CURRENT_SCENE"
          /\ stage' = "traveling" /\ phase' = "INTRO_READY"
          /\ StartTravel(target)
          /\ UNCHANGED <<scale, active, target, landed, nodes, loading>>
          /\ BookFollows
       \/ /\ phase = "FADE_OUT_ARRIVAL"
          /\ CommitArrival([landed EXCEPT !.veil = TRUE])
          /\ ~MayCommit([landed EXCEPT !.veil = TRUE]) => UNCHANGED phase
          /\ UNCHANGED <<target, flight>>
       \/ /\ phase = "REVEAL_TARGET_SCENE"
          /\ phase' = "IDLE" /\ target' = NoPlanet /\ landed' = NotLanded
          /\ UNCHANGED <<scale, selected, active, destination, traveling, stage,
                         flight, nodes, loading, book>>
       \/ /\ phase \notin {"FADE_OUT_CURRENT_SCENE", "FADE_OUT_ARRIVAL",
                           "REVEAL_TARGET_SCENE"}
          /\ UNCHANGED <<scale, selected, active, destination, traveling, phase,
                         target, landed, stage, flight, nodes, loading, book>>
    /\ UNCHANGED <<isFriendsDemo, late>>

\* Two animation frames after the travel was started.
IntroFrames ==
    /\ phase = "INTRO_READY" /\ traveling
    /\ phase' = "TRAVEL_ACTIVE"
    /\ UNCHANGED <<scale, selected, active, destination, traveling, target, landed,
                   stage, veil, flight, nodes, loading, isFriendsDemo, late, book>>

\* Two frames and 180 ms after the target was there.
TargetReady ==
    /\ phase = "SWITCH_TARGET_SCENE" /\ ~traveling /\ active = target
    /\ phase' = "REVEAL_TARGET_SCENE"
    /\ UNCHANGED <<scale, selected, active, destination, traveling, target, landed,
                   stage, veil, flight, nodes, loading, isFriendsDemo, late, book>>

(***************************************************************************)
(* CometRide.  It is drawn, and advances, only with a route.  The preflight *)
(* takes 0.75 s or more, so that the two frames and the lifting of the veil *)
(* (280 ms) are over before the end of the flight, 7.4 s later.             *)
(***************************************************************************)
HasRoute == traveling /\ HasNode(destination)

FlightAdvances(from, to) ==
    /\ HasRoute /\ flight = from /\ flight' = to
    /\ phase # "INTRO_READY" /\ (phase = "TRAVEL_ACTIVE" => veil = "clear")

TakeOff ==
    /\ FlightAdvances("preflight", "flying")
    /\ UNCHANGED <<scale, selected, active, destination, traveling, phase, target,
                   landed, stage, veil, nodes, loading, isFriendsDemo, late, book>>

\* onApproachingArrival, 1.15 s before the end
ApproachArrival ==
    /\ FlightAdvances("flying", "fading")
    /\ phase' = IF phase = "TRAVEL_ACTIVE" THEN "FADE_OUT_ARRIVAL" ELSE phase
    /\ UNCHANGED <<scale, selected, active, destination, traveling, target, landed,
                   stage, veil, nodes, loading, isFriendsDemo, late, book>>

\* Faulty: the arrival is left to the end of the veil's transition.
ArriveWithoutCommit ==
    /\ FlightAdvances("fading", "arrived") \/ FlightAdvances("flying", "arrived")
    /\ landed' = [landed EXCEPT !.flight = TRUE]
    /\ phase' = IF phase = "TRAVEL_ACTIVE" THEN "FADE_OUT_ARRIVAL" ELSE phase
    /\ UNCHANGED <<scale, selected, active, destination, traveling, target, stage, veil,
                   nodes, loading, isFriendsDemo, late, book>>

\* onArrive, handleTravelComplete; a long frame brings the approach with it.
Arrive ==
    /\ FlightAdvances("fading", "arrived") \/ FlightAdvances("flying", "arrived")
    /\ CommitArrival([landed EXCEPT !.flight = TRUE])
    /\ ~MayCommit([landed EXCEPT !.flight = TRUE]) =>
          phase' = IF phase = "TRAVEL_ACTIVE" THEN "FADE_OUT_ARRIVAL" ELSE phase
    /\ UNCHANGED <<target, veil, isFriendsDemo, late>>

(***************************************************************************)
(* The late answers.  Both bring another home planet, with which the       *)
(* snapshot is loaded anew; hydrateCosmos also makes it the active one.    *)
(***************************************************************************)
ActiveAfter(kind) == IF kind = "cosmos" THEN Home ELSE active

LateAnswer(kind) ==
    /\ kind \in late
    /\ late' = late \ {kind}
    /\ active' = ActiveAfter(kind)
    /\ nodes' = {} /\ loading' = IF scale = "galaxy" THEN "loading" ELSE "idle"
    /\ flight' = "preflight"
    /\ UNCHANGED <<scale, selected, destination, traveling, phase, target, landed,
                   stage, veil, book, isFriendsDemo>>

LateFailure(kind) ==
    /\ kind \in late
    /\ late' = late \ {kind}
    /\ UNCHANGED <<scale, selected, active, destination, traveling, phase, target,
                   landed, stage, veil, flight, nodes, loading, book, isFriendsDemo>>

(***************************************************************************)
(* The memory book.  The number of its pages changes with the memories.    *)
(***************************************************************************)
BookStep(newStage, newBook) ==
    /\ BookShown
    /\ stage' = newStage /\ book' = newBook
    /\ UNCHANGED <<scale, selected, active, destination, traveling, phase, target,
                   landed, veil, flight, nodes, loading, isFriendsDemo, late>>

BookOpened == ~book.told /\ BookStep("book-view", [book EXCEPT !.told = TRUE])

\* What MemoryBookControls offers of a book with that many pages.
CanTurn(direction, pages) ==
    /\ ControlsReachable /\ stage # "book-opening" /\ book.told
    /\ IF direction = "previous" THEN book.page > 0 ELSE book.page + 2 < pages

\* requestPageTurn
TurnPage(direction, pages) ==
    /\ CanTurn(direction, pages) /\ book.turning = "no"
    /\ BookStep("page-turning", [book EXCEPT !.turning = direction])

\* completePageTurn: the book may have fewer pages by now
PageAfter(pages) ==
    IF book.turning = "previous"
      THEN IF book.page > 2 THEN book.page - 2 ELSE 0
      ELSE IF book.page + 2 < pages THEN book.page + 2 ELSE pages - 1

PageTurned(pages) ==
    /\ book.turning # "no"
    /\ BookStep("book-view", [book EXCEPT !.turning = "no", !.page = PageAfter(pages)])

TransitionStep == VeilSettles \/ IntroFrames \/ TargetReady
FlightStep == TakeOff \/ ApproachArrival \/ Arrive
SnapshotStep == WindowFails \/ \E some \in SUBSET Planets : WindowAnswer(some)

TravelNext ==
    \/ ExploreGalaxy \/ RequestCosmos \/ CloseDetail \/ VisitSelected \/ ReturnHome
    \/ CancelVisit
    \/ \E p \in Planets : SelectPlanet(p) \/ VisitSignal(p)
    \/ TransitionStep \/ FlightStep \/ SnapshotStep
    \/ \E kind \in late : LateAnswer(kind) \/ LateFailure(kind)
    \/ BookOpened
    \/ \E direction \in {"previous", "next"}, pages \in 1..MaxPages : TurnPage(direction, pages)
    \/ \E pages \in 1..MaxPages : PageTurned(pages)

\* The browser runs transitions, frames and timers; a window is answered or fails.
TravelFairness ==
    /\ WF_travelVars(TransitionStep)
    /\ WF_travelVars(FlightStep)
    /\ WF_travelVars(SnapshotStep)

TravelSpec == TravelInit /\ [][TravelNext]_travelVars /\ TravelFairness

(***************************************************************************)
(* Properties.                                                             *)
(***************************************************************************)

\* The travel machine does what a journey promises, however its callbacks, frames,
\* transitions and late answers are ordered: no planet becomes the active one but
\* the one that was set out for, or home with a new cosmos.
SettingOut ==
    {"FADE_OUT_CURRENT_SCENE", "INTRO_READY", "TRAVEL_ACTIVE", "FADE_OUT_ARRIVAL"}
TravelBound == IF phase \in SettingOut THEN target ELSE NoPlanet
Abstract == INSTANCE Journey WITH place <- active, bound <- TravelBound, Nowhere <- NoPlanet
IsJourney == Abstract!JourneySpec

\* The scene is switched only behind the opaque veil, and to the planet the
\* visit or the return was begun for: whichever of the flight and the veil ends
\* last commits the arrival (commitArrival, completeTravel).
ArrivesCovered ==
    [][phase' = "SWITCH_TARGET_SCENE" /\ phase # phase' =>
         veil' = "opaque" /\ active' = target /\ target \in Places]_travelVars

\* A travel and its transition go together: the store travels exactly in the
\* phases of the flight, toward the transition's own destination, and the visit
\* stage follows; no early return of the handlers leaves one without the other.
TravelInStep ==
    /\ traveling <=> phase \in {"INTRO_READY", "TRAVEL_ACTIVE", "FADE_OUT_ARRIVAL"}
    /\ traveling <=> stage = "traveling"
    /\ traveling => destination = target /\ target # NoPlanet

\* MemoryBook has its own page turn and tells the visit stage of it: once the
\* book has reported to be open the two agree, over remounts and interrupted turns.
BookInStep == BookShown /\ book.told => (book.turning # "no") = (stage = "page-turning")

\* The ways a travel may hang: its target was replaced by a cosmos that came
\* behind the veil, or the snapshot does not have it.
Overtaken == phase = "SWITCH_TARGET_SCENE" /\ active # target
Stranded == traveling /\ ~HasNode(destination)

\* Every other transition ends, whatever the order of the veil, the flight, the
\* frames, the windows and the late answers.
TravelEnds == phase # "IDLE" ~> phase = "IDLE" \/ Overtaken \/ Stranded
=============================================================================
