------------------------------ MODULE Nebula ------------------------------
(***************************************************************************)
(* The nebula scale: the groups one may join (NebulaDirectory.tsx,         *)
(* NebulaLobbyView.tsx, NebulaLobbyInfo.tsx) and the space of the one that *)
(* was entered (useNebulaSpace.ts, NebulaView.tsx and its panels), which   *)
(* is asked for in windows: each answer sets a timer for the next one.     *)
(*                                                                         *)
(* Searching and paging only change what is listed, so that the directory  *)
(* is the set of groups it shows as joined; selecting a cloud of the lobby *)
(* or a member of the space only offers what can be done with it.          *)
(***************************************************************************)
EXTENDS Naturals, Sequences, FiniteSets

CONSTANTS
    Nebulae,
    NoNebula,
    LastWindow,     \* the windows of a space are 0..LastWindow
    MaxRequests,    \* Bound: window requests on their way
    MaxNebulaTasks  \* Bound: joins and searches, started while others are on their way

ASSUME NebulaAssumption ==
    /\ NoNebula \notin Nebulae /\ LastWindow \in Nat
    /\ MaxRequests \in Nat /\ MaxNebulaTasks \in Nat

VARIABLES
    inNebulae,      \* enabled: scale = "nebula"
    activeNebula,   \* activeNebulaId
    space,          \* the nebula whose space is shown, and the windows it was given
    spaceRequest,   \* spaceRequestRef
    spaceTimers,    \* timeouts that will ask for a window; spaceTimerRef has the held one
    windowRequests, \* getNebulaSpace calls on their way
    spaceLoading,   \* loading
    nebulaeListed,  \* the directory was answered once: it has rows, and the lobby clouds
    joinedListed,   \* directory.joined
    directoryOpen,
    nebulaTasks,    \* joins and directory requests on their way
    memberOf,       \* the nebulae the server has the user in
    forsaken        \* the active nebula was entered again, or its first window failed

spaceVars == <<activeNebula, space, spaceRequest, spaceTimers, windowRequests, spaceLoading,
    forsaken>>
directoryVars == <<nebulaeListed, joinedListed, directoryOpen, nebulaTasks>>
nebulaVars == <<inNebulae, spaceVars, directoryVars, memberOf>>

Windows == 0..LastWindow
NoSpace == [of |-> NoNebula, windows |-> {}]
Spaces == [of : Nebulae, windows : SUBSET Windows]
WindowRequests == [of : Nebulae, window : Windows]
\* A join, or a listing, goes on with entering "then"; a listing knows the groups that
\* were joined when it was asked for.
NebulaTasks ==
    [step : {"join"}, then : Nebulae, since : SUBSET Nebulae]
        \union [step : {"list"}, then : Nebulae \union {NoNebula}, since : SUBSET Nebulae]
Listing == [step |-> "list", then |-> NoNebula, since |-> memberOf]

NebulaTypeOK ==
    /\ inNebulae \in BOOLEAN /\ activeNebula \in Nebulae \union {NoNebula}
    /\ space \in Spaces \union {NoSpace}
    /\ spaceRequest \in Nebulae \union {NoNebula}
    /\ spaceTimers \subseteq [of : Nebulae, window : Windows, held : BOOLEAN]
    /\ windowRequests \in Seq(WindowRequests) /\ spaceLoading \in BOOLEAN
    /\ nebulaeListed \in BOOLEAN /\ joinedListed \subseteq Nebulae /\ directoryOpen \in BOOLEAN
    /\ nebulaTasks \subseteq NebulaTasks /\ memberOf \subseteq Nebulae
    /\ forsaken \in BOOLEAN

\* The scale is kept in localStorage.  A mounting in the nebula scale lists the groups.
NebulaInit ==
    /\ inNebulae \in BOOLEAN /\ memberOf \in SUBSET Nebulae
    /\ activeNebula = NoNebula /\ space = NoSpace /\ spaceRequest = NoNebula
    /\ spaceTimers = {} /\ windowRequests = <<>> /\ spaceLoading = FALSE
    /\ nebulaeListed = FALSE /\ joinedListed = {} /\ directoryOpen = inNebulae
    /\ nebulaTasks = IF inNebulae THEN {Listing} ELSE {}
    /\ forsaken = FALSE

(***************************************************************************)
(* What is shown.                                                          *)
(***************************************************************************)
DirectoryShown == inNebulae /\ directoryOpen
LobbyShown == inNebulae /\ activeNebula = NoNebula
LobbyNebulae == IF nebulaeListed THEN Nebulae ELSE {}  \* the featured one and four others at most
NebulaHUDShown == inNebulae /\ activeNebula # NoNebula
SpaceShown == inNebulae /\ space # NoSpace

\* A row of the directory offers to enter a group that is listed as joined, and to join it
\* otherwise; so does a cloud of the lobby once it is selected, and the panel about it.
RowOffered(n) == DirectoryShown /\ nebulaeListed
CloudOffered(n) == LobbyShown /\ n \in LobbyNebulae
InfoOffered(n) == LobbyShown /\ n \in LobbyNebulae /\ ~directoryOpen
GroupOffered(n) == RowOffered(n) \/ CloudOffered(n) \/ InfoOffered(n)

\* The forms of the directory.  Its busy keeps pages from being turned and groups from being
\* created, but neither a search nor a join.
FormsOffered == DirectoryShown

\* A member of any window that was loaded: the near ones and those with a broadcast have a
\* planet of their own, the others are instances of one; all of them are in the list.
InstanceOffered(w) == SpaceShown /\ w \in space.windows
PlanetOffered(w) == SpaceShown /\ w \in space.windows
MemberListed(w) == SpaceShown /\ w \in space.windows
MemberPanelOf(w) == InstanceOffered(w) \/ PlanetOffered(w) \/ MemberListed(w)

(***************************************************************************)
(* The space.                                                              *)
(***************************************************************************)
\* mergeSpace: the windows of another version of the graph replace what there is.
MergeSpace(incoming, sameVersion) ==
    IF space.of = incoming.of /\ sameVersion
    THEN [incoming EXCEPT !.windows = @ \union space.windows] ELSE incoming

TimerCleared == {t \in spaceTimers : ~t.held}
TimerLost == {[t EXCEPT !.held = FALSE] : t \in spaceTimers}

\* enterNebula, and the effects of another active nebula: its first window and the groups
\* are asked for.  Entering the active nebula again changes no dependency of an effect.
EnterWith(n, others) ==
    LET effects == inNebulae /\ activeNebula # n
    IN  /\ activeNebula' = n /\ spaceRequest' = n /\ space' = NoSpace
        /\ spaceTimers' = TimerCleared
        /\ forsaken' = (activeNebula = n)
        /\ directoryOpen' = FALSE
        /\ IF effects
           THEN /\ Len(windowRequests) < MaxRequests
                /\ windowRequests' = Append(windowRequests, [of |-> n, window |-> 0])
                /\ spaceLoading' = TRUE
                /\ nebulaTasks' = others \union {Listing}
           ELSE nebulaTasks' = others /\ UNCHANGED <<windowRequests, spaceLoading>>

\* Faulty: the window requests on their way are still listened to.
RequestAfterLeavingKept == spaceRequest

RequestAfterLeaving == NoNebula

\* leaveNebula, with the effects of no active nebula in a scale that is shown or becomes so.
LeaveWith(entering) ==
    /\ activeNebula' = NoNebula /\ spaceRequest' = RequestAfterLeaving /\ space' = NoSpace
    /\ spaceTimers' = TimerCleared /\ spaceLoading' = FALSE
    /\ forsaken' = FALSE
    /\ IF activeNebula # NoNebula \/ entering
       THEN nebulaTasks' = nebulaTasks \union {Listing}
       ELSE UNCHANGED nebulaTasks
    /\ UNCHANGED windowRequests

Without(s, i) == SubSeq(s, 1, i - 1) \o SubSeq(s, i + 1, Len(s))

\* Faulty: any first window that is answered or fails ends the loading.
StillLoadingAny(r) == spaceLoading /\ r.window # 0

StillLoading(r) == spaceLoading /\ (r.window # 0 \/ spaceRequest # r.of)

\* An answer for the active nebula is shown and sets the timer of the next window.
WindowArrives(i, sameVersion) ==
    /\ i \in 1..Len(windowRequests)
    /\ windowRequests' = Without(windowRequests, i)
    /\ LET r == windowRequests[i]
       IN  IF spaceRequest # r.of THEN UNCHANGED <<space, spaceTimers>>
           ELSE /\ space' = MergeSpace([of |-> r.of, windows |-> {r.window}], sameVersion)
                /\ spaceTimers' = IF r.window = LastWindow THEN spaceTimers
                                  ELSE TimerLost \union
                                       {[of |-> r.of, window |-> r.window + 1, held |-> TRUE]}
    /\ spaceLoading' = StillLoading(windowRequests[i])
    /\ UNCHANGED <<inNebulae, activeNebula, spaceRequest, forsaken, directoryVars,
                   memberOf>>

SpaceWindowFails(i) ==
    /\ i \in 1..Len(windowRequests)
    /\ windowRequests' = Without(windowRequests, i)
    /\ forsaken' = (forsaken \/ (windowRequests[i].window = 0 /\ spaceRequest = windowRequests[i].of))
    /\ spaceLoading' = StillLoading(windowRequests[i])
    /\ UNCHANGED <<inNebulae, activeNebula, space, spaceRequest, spaceTimers,
                   directoryVars, memberOf>>

\* The callback does not look at spaceRequestRef before it asks.
WindowTimer(t) ==
    /\ t \in spaceTimers /\ Len(windowRequests) < MaxRequests
    /\ spaceTimers' = spaceTimers \ {t}
    /\ windowRequests' = Append(windowRequests, [of |-> t.of, window |-> t.window])
    /\ UNCHANGED <<inNebulae, activeNebula, space, spaceRequest, spaceLoading, forsaken,
                   directoryVars, memberOf>>

(***************************************************************************)
(* Entering and leaving.                                                   *)
(***************************************************************************)
\* handleScaleChange("nebula"): leaveNebula, and the effects of the scale.
ToNebulae ==
    /\ inNebulae' = TRUE /\ LeaveWith(~inNebulae) /\ directoryOpen' = ~inNebulae
    /\ UNCHANGED <<nebulaeListed, joinedListed, memberOf>>

\* Another scale.
FromNebulae ==
    /\ inNebulae /\ inNebulae' = FALSE
    /\ spaceTimers' = IF activeNebula = NoNebula THEN spaceTimers ELSE TimerCleared
    /\ directoryOpen' = FALSE
    /\ UNCHANGED <<activeNebula, space, spaceRequest, windowRequests, spaceLoading, forsaken, nebulaeListed,
                   joinedListed, nebulaTasks, memberOf>>

\* A visit to a member arrives at its planet.
VisitMember(w) == MemberPanelOf(w) /\ FromNebulae

\* handleLeaveNebula.
LeaveNebula ==
    /\ NebulaHUDShown /\ LeaveWith(FALSE) /\ directoryOpen' = FALSE
    /\ UNCHANGED <<inNebulae, nebulaeListed, joinedListed, memberOf>>

EnterNebula(n) ==
    /\ GroupOffered(n) /\ n \in joinedListed
    /\ EnterWith(n, nebulaTasks)
    /\ UNCHANGED <<inNebulae, nebulaeListed, joinedListed, memberOf>>

ToggleDirectory ==
    /\ LobbyShown \/ DirectoryShown
    /\ directoryOpen' = ~directoryOpen
    /\ UNCHANGED <<inNebulae, spaceVars, nebulaeListed, joinedListed, nebulaTasks, memberOf>>

(***************************************************************************)
(* Listing and joining.  None of it is undone by leaving: a join that is   *)
(* answered late enters the nebula wherever the user is by then.           *)
(***************************************************************************)
StartTask(task) ==
    /\ Cardinality(nebulaTasks) < MaxNebulaTasks /\ nebulaTasks' = nebulaTasks \union {task}
    /\ UNCHANGED <<inNebulae, spaceVars, nebulaeListed, joinedListed, directoryOpen, memberOf>>

Search == FormsOffered /\ StartTask(Listing)

\* By its row or its cloud, which wait for nothing, by its code, or as a new one.
Joining(n) == [step |-> "join", then |-> n, since |-> {}]

JoinNebula(n) ==
    GroupOffered(n) /\ n \notin joinedListed /\ StartTask(Joining(n))
JoinByCode(n) == FormsOffered /\ StartTask(Joining(n))
CreateNebula(n) == n \notin memberOf /\ JoinByCode(n)

\* joinNebula goes on with loadDirectory.
JoinAnswer(task) ==
    /\ task \in nebulaTasks /\ task.step = "join"
    /\ memberOf' = memberOf \union {task.then}
    /\ nebulaTasks' =
           (nebulaTasks \ {task}) \union {[task EXCEPT !.step = "list", !.since = memberOf']}
    /\ UNCHANGED <<inNebulae, spaceVars, nebulaeListed, joinedListed, directoryOpen>>

\* The answer has the groups of some moment since it was asked for.  When none is joined,
\* the directory opens by itself.
DirectoryArrives(task, known) ==
    /\ task \in nebulaTasks /\ task.step = "list"
    /\ nebulaeListed' = TRUE /\ joinedListed' = known
    /\ IF task.then # NoNebula
       THEN EnterWith(task.then, nebulaTasks \ {task})
       ELSE /\ nebulaTasks' = nebulaTasks \ {task}
            /\ directoryOpen' = (directoryOpen \/ known = {})
            /\ UNCHANGED spaceVars
    /\ UNCHANGED <<inNebulae, memberOf>>

\* A join whose listing fails is a join, which enters nothing.
TaskFails(task) ==
    /\ task \in nebulaTasks /\ nebulaTasks' = nebulaTasks \ {task}
    /\ UNCHANGED <<inNebulae, spaceVars, nebulaeListed, joinedListed, directoryOpen, memberOf>>

WindowAnswered ==
    \E i \in 1..MaxRequests :
        SpaceWindowFails(i) \/ \E sameVersion \in BOOLEAN : WindowArrives(i, sameVersion)
TaskAnswered ==
    \E task \in nebulaTasks :
        \/ JoinAnswer(task) \/ TaskFails(task)
        \/ \E known \in {task.since, memberOf} : DirectoryArrives(task, known)

NebulaNext ==
    \/ WindowAnswered \/ TaskAnswered
    \/ \E t \in spaceTimers : WindowTimer(t)
    \/ ToNebulae \/ LeaveNebula \/ FromNebulae \/ (\E w \in Windows : VisitMember(w))
    \/ ToggleDirectory \/ Search
    \/ \E n \in Nebulae : EnterNebula(n) \/ JoinNebula(n) \/ JoinByCode(n) \/ CreateNebula(n)

NebulaSpec == NebulaInit /\ [][NebulaNext]_nebulaVars

(***************************************************************************)
(* Properties.                                                             *)
(***************************************************************************)

\* The space that is shown is the active nebula's: windows that are answered after the
\* nebula was left, or another one was entered, are dropped.
SpaceIsActives == space # NoSpace => space.of = activeNebula

\* Where an entered nebula is not loading, it is shown, or its first window failed: unless
\* it was entered a second time, which empties the space and asks for nothing.
EnteredIsShown ==
    inNebulae /\ activeNebula # NoNebula /\ ~spaceLoading /\ ~forsaken
        => space # NoSpace
=============================================================================
