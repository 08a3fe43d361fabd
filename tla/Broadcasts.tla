---------------------------- MODULE Broadcasts ----------------------------
(***************************************************************************)
(* How the universe announces what friends publish: the queues of          *)
(* useCosmicBroadcasts.ts and useMemorySignalBroadcasts.ts, the meteors    *)
(* and waves that show their heads one at a time (CosmicBroadcast.tsx),    *)
(* the beacons of the galaxy (GalaxyView.tsx, GalaxyActivitySignal.tsx)    *)
(* and the read marks of useProductStore.ts.                               *)
(*                                                                         *)
(* The module is about one mounting of UniverseExperience and one friend.  *)
(* An activity is the number of its publication.  Both hooks work in       *)
(* effects, which run after every change of what they read.                *)
(***************************************************************************)
EXTENDS Naturals, Sequences, FiniteSets, FiniteSetsExt, SequencesExt

CONSTANTS
    Activities,     \* activities, in the order of publication
    OwnActivities,  \* those of the user
    Signals,        \* memory signals of the friend
    NoActivity,
    NoSignal

Sources == {"local-publish", "remote-activity", "unread-preview"}
Events == Activities \X Sources

\* An activity and a signal are told apart by what announces them.
ASSUME BroadcastAssumption ==
    /\ Activities \subseteq Nat /\ OwnActivities \subseteq Activities
    /\ IsFiniteSet(Activities) /\ IsFiniteSet(Signals) /\ Signals \cap Events = {}
    /\ NoActivity \notin Activities /\ NoSignal \notin Signals

VARIABLES
    posted,         \* the activities the server has
    seen,           \* those the server has as read by the user, or closed
    listed,         \* the store's activities
    unread,         \* those whose broadcast.visible holds
    near,           \* the friend's planet is one of the scene
    inGalaxy,       \* scale = "galaxy"
    shown,          \* the scene shows broadcasts: nobody travels, and it is not the demo
    known,          \* knownActivityIdsRef
    previewShown,   \* previewShownRef
    activeEvent,
    eventQueue,     \* queueRef of the activities
    opened,         \* selectedActivity
    marking,        \* the read marks and closes on their way
    sent,           \* the memory signals the server has
    readSignals,    \* those it has as read
    signals,        \* memorySignals of the store that are visible
    knownSignals,   \* knownIdsRef
    activeSignal,
    signalQueue,    \* queueRef of the signals
    heard,          \* what was announced, for the properties
    repeated        \* something was announced a second time

broadcastVars == <<posted, seen, listed, unread, near, inGalaxy, shown, known, previewShown,
    activeEvent, eventQueue, opened, marking, sent, readSignals, signals, knownSignals,
    activeSignal, signalQueue, heard, repeated>>
hookVars == <<listed, unread, near, inGalaxy, known, previewShown, activeEvent, eventQueue,
    signals, knownSignals, activeSignal, signalQueue, heard, repeated>>
serverSideVars == <<posted, seen, sent, readSignals>>

NoEvent == <<NoActivity, "none">>

BroadcastTypeOK ==
    /\ posted \subseteq Activities /\ seen \subseteq posted
    /\ listed \subseteq Activities /\ unread \subseteq listed
    /\ near \in BOOLEAN /\ inGalaxy \in BOOLEAN /\ shown \in BOOLEAN
    /\ known \subseteq Activities /\ previewShown \in BOOLEAN
    /\ activeEvent \in Events \union {NoEvent} /\ eventQueue \in Seq(Events)
    /\ opened \in Activities \union {NoActivity} /\ marking \subseteq Activities
    /\ sent \subseteq Signals /\ readSignals \subseteq sent /\ signals \subseteq Signals
    /\ knownSignals \subseteq Signals
    /\ activeSignal \in Signals \union {NoSignal} /\ signalQueue \in Seq(Signals)
    /\ heard \subseteq Events \union Signals /\ repeated \in BOOLEAN

(***************************************************************************)
(* The hooks.                                                              *)
(***************************************************************************)
Heard(announced) ==
    /\ heard' = heard \union Range(announced)
    /\ repeated' = (repeated \/ Range(announced) \cap heard # {}
                             \/ Cardinality(Range(announced)) < Len(announced))

\* setActiveEvent(current => ...): the first one is shown, the others wait.
Enqueued(current, none, queue, more) ==
    IF current # none \/ more = <<>> THEN <<current, queue \o more>>
    ELSE <<Head(more), queue \o Tail(more)>>

Announceable(acts, unr, nr) ==
    IF nr THEN {a \in acts \ OwnActivities : a \in unr} ELSE {}

\* The preview is of the newest unread activity, once, in the galaxy, and when nothing
\* was shown by the render whose effects run.
Previews(current, acts, unr, nr, gal) ==
    IF gal /\ ~previewShown /\ current = NoEvent /\ Announceable(acts, unr, nr) # {}
    THEN <<<<Max(Announceable(acts, unr, nr)), "unread-preview">>>>
    ELSE <<>>

\* Faulty: what was announced is not remembered.
KnownAfterForgetful(acts) == known

KnownAfter(acts) == known \union acts

\* The effects of both hooks, for what the store and the scene have by now; each is
\* idle when nothing that it reads has changed.
Effects(acts, unr, visible, nr, gal, current, queue, signal, waiting) ==
    \E remote \in SetToSeqs(Announceable(acts, unr, nr) \ known),
       fresh \in SetToSeqs(IF gal /\ nr THEN visible \ knownSignals ELSE {}) :
        LET preview == Previews(current, acts, unr, nr, gal)
            events == [i \in 1..Len(remote) |-> <<remote[i], "remote-activity">>] \o preview
            after == Enqueued(current, NoEvent, queue, events)
            afterSignals == Enqueued(signal, NoSignal, waiting, fresh)
        IN  /\ listed' = acts /\ unread' = unr /\ signals' = visible
            /\ near' = nr /\ inGalaxy' = gal
            /\ known' = KnownAfter(acts)
            /\ knownSignals' = IF gal THEN knownSignals \union visible ELSE knownSignals
            /\ previewShown' = (previewShown \/ preview # <<>>)
            /\ activeEvent' = after[1] /\ eventQueue' = after[2]
            /\ activeSignal' = afterSignals[1] /\ signalQueue' = afterSignals[2]
            /\ Heard(events \o fresh)

StoreChanges(acts, unr, visible) ==
    Effects(acts, unr, visible, near, inGalaxy, activeEvent, eventQueue, activeSignal, signalQueue)

\* completeActiveBroadcast, completeActiveSignal: the next one takes the place.
NextOf(queue, none) == IF queue = <<>> THEN none ELSE Head(queue)
RestOf(queue) == IF queue = <<>> THEN <<>> ELSE Tail(queue)

EventEnds(unr) ==
    Effects(listed, unr, signals, near, inGalaxy, NextOf(eventQueue, NoEvent), RestOf(eventQueue),
            activeSignal, signalQueue)

SignalEnds(visible) ==
    Effects(listed, unread, visible, near, inGalaxy, activeEvent, eventQueue,
            NextOf(signalQueue, NoSignal), RestOf(signalQueue))

\* What there is when the universe is entered is known; the preview may be of it.
BroadcastInit ==
    /\ posted \in SUBSET Activities /\ OwnActivities \cap posted = {}
    /\ seen \in SUBSET posted
    /\ listed = posted /\ unread = posted \ seen /\ known = posted
    /\ near \in BOOLEAN /\ inGalaxy = FALSE /\ shown = TRUE
    /\ previewShown = FALSE /\ activeEvent = NoEvent /\ eventQueue = <<>>
    /\ opened = NoActivity /\ marking = {}
    /\ sent \in SUBSET Signals /\ readSignals = {} /\ signals = sent
    /\ knownSignals = {} /\ activeSignal = NoSignal /\ signalQueue = <<>>
    /\ heard = {} /\ repeated = FALSE

(***************************************************************************)
(* What changes.                                                           *)
(***************************************************************************)
FriendPublishes(a) ==
    /\ a \in Activities \ (posted \union OwnActivities)
    /\ posted' = posted \union {a}
    /\ UNCHANGED <<hookVars, seen, sent, readSignals, shown, opened, marking>>

FriendShares(s) ==
    /\ s \in Signals \ sent /\ sent' = sent \union {s}
    /\ UNCHANGED <<hookVars, posted, seen, readSignals, shown, opened, marking>>

\* An answer with the whole cosmos: what was published is the server's by now.
CosmosArrives ==
    /\ StoreChanges(posted, posted \ seen, sent \ readSignals)
    /\ UNCHANGED <<serverSideVars, shown, opened, marking>>

\* The twelve-second poll.
SignalsArrive ==
    /\ StoreChanges(listed, unread, sent \ readSignals)
    /\ UNCHANGED <<serverSideVars, shown, opened, marking>>

\* The planets of the scene change with its windows and with the scale.
SceneChanges(nr, gal) ==
    /\ shown
    /\ Effects(listed, unread, signals, nr, gal, activeEvent, eventQueue, activeSignal, signalQueue)
    /\ UNCHANGED <<serverSideVars, shown, opened, marking>>

\* The user publishes: the optimistic post and emitLocalPublication.
PublishLocal(a) ==
    /\ a \in OwnActivities \ (posted \union listed)
    /\ posted' = posted \union {a}
    /\ LET after == Enqueued(activeEvent, NoEvent, eventQueue, <<<<a, "local-publish">>>>)
       IN  Effects(listed \union {a}, unread \union {a}, signals, near, inGalaxy,
                   after[1], after[2], activeSignal, signalQueue)
    /\ UNCHANGED <<seen, sent, readSignals, shown, opened, marking>>

\* A journey, or the lobby of the nebulae, hides the broadcasts; the hooks go on.
ShownChanges ==
    /\ shown' = ~shown
    /\ UNCHANGED <<hookVars, serverSideVars, opened, marking>>

(***************************************************************************)
(* What is shown of it.                                                    *)
(***************************************************************************)
\* A signal takes the place of the event.
MeteorOfSignal == shown /\ activeSignal # NoSignal
EventShown == shown /\ activeSignal = NoSignal /\ activeEvent # NoEvent
WaveOfOwn == EventShown /\ activeEvent[2] = "local-publish"
MeteorOfEvent == EventShown /\ activeEvent[2] # "local-publish"

\* The beacon of a planet is its newest activity, while that is unread.
Beacons ==
    LET newest(acts) == IF acts = {} THEN {} ELSE {Max(acts)}
    IN  (newest(listed \cap OwnActivities) \union newest(listed \ OwnActivities)) \cap unread

BeaconShown(a) == shown /\ inGalaxy /\ a \in Beacons /\ (a \in OwnActivities \/ near)

\* The panel of a planet lists its activities.
LifePanelLists(a) == shown /\ ~inGalaxy /\ a \in listed

DetailShown == opened # NoActivity

\* Faulty: the animation of a wave does not tell its end.
EventCompletesMeteor ==
    /\ MeteorOfEvent /\ EventEnds(unread)
    /\ UNCHANGED <<serverSideVars, shown, opened, marking>>

\* The last frame of the animation, once.
EventCompletes ==
    /\ WaveOfOwn \/ MeteorOfEvent
    /\ EventEnds(unread)
    /\ UNCHANGED <<serverSideVars, shown, opened, marking>>

SignalCompletes ==
    /\ MeteorOfSignal /\ SignalEnds(signals)
    /\ UNCHANGED <<serverSideVars, shown, opened, marking>>

(***************************************************************************)
(* What the user does with it.  A friend's unread activity that is opened  *)
(* is marked as read in the store at once, on the server by a request.     *)
(***************************************************************************)
OpenActivity(a) ==
    /\ opened' = a
    /\ marking' = IF a \in unread \ OwnActivities THEN marking \union {a} ELSE marking

UnreadAfter(a) == unread \ ({a} \ OwnActivities)

SelectBeacon(a) ==
    /\ BeaconShown(a) \/ LifePanelLists(a)
    /\ OpenActivity(a) /\ StoreChanges(listed, UnreadAfter(a), signals)
    /\ UNCHANGED <<serverSideVars, shown>>

SelectBroadcast ==
    /\ MeteorOfEvent
    /\ OpenActivity(activeEvent[1]) /\ EventEnds(UnreadAfter(activeEvent[1]))
    /\ UNCHANGED <<serverSideVars, shown>>

\* closeActivityBroadcast, of the user's own beacon.
CloseBroadcast(a) ==
    /\ BeaconShown(a) /\ a \in OwnActivities
    /\ marking' = marking \union {a}
    /\ StoreChanges(listed, unread \ {a}, signals)
    /\ UNCHANGED <<serverSideVars, shown, opened>>

\* The answer to a read mark brings the whole cosmos, to a close the activity.
MarkAnswer(a) ==
    /\ a \in marking /\ marking' = marking \ {a}
    /\ seen' = seen \union ({a} \cap posted)
    /\ IF a \in OwnActivities THEN StoreChanges(listed, unread \ {a}, signals)
       ELSE StoreChanges(posted, posted \ seen', sent \ readSignals)
    /\ UNCHANGED <<posted, sent, readSignals, shown, opened>>

MarkFails(a) ==
    /\ a \in marking /\ marking' = marking \ {a}
    /\ UNCHANGED <<hookVars, serverSideVars, shown, opened>>

\* A signal that is selected is read, and its sender visited.
SelectSignal ==
    /\ MeteorOfSignal
    /\ readSignals' \in {readSignals, readSignals \union ({activeSignal} \cap sent)}
    /\ SignalEnds(signals \ {activeSignal})
    /\ shown' = FALSE
    /\ UNCHANGED <<posted, seen, sent, opened, marking>>

CloseDetailOf ==
    /\ DetailShown /\ opened' = NoActivity
    /\ UNCHANGED <<hookVars, serverSideVars, shown, marking>>

BroadcastNext ==
    \/ \E a \in Activities : FriendPublishes(a) \/ PublishLocal(a) \/ SelectBeacon(a)
                             \/ CloseBroadcast(a) \/ MarkAnswer(a) \/ MarkFails(a)
    \/ \E s \in Signals : FriendShares(s)
    \/ CosmosArrives \/ SignalsArrive \/ ShownChanges \/ CloseDetailOf
    \/ \E nr, gal \in BOOLEAN : SceneChanges(nr, gal)
    \/ EventCompletes \/ SignalCompletes \/ SelectBroadcast \/ SelectSignal

\* Frames are drawn while the scene shows a broadcast, and no pointer stays on a meteor.
BroadcastFairness == WF_broadcastVars(EventCompletes) /\ WF_broadcastVars(SignalCompletes)

BroadcastSpec == BroadcastInit /\ [][BroadcastNext]_broadcastVars /\ BroadcastFairness

(***************************************************************************)
(* Properties.                                                             *)
(***************************************************************************)

\* Nothing is announced twice from the same source, however often the store's lists
\* are replaced and the scene changes; and what the user published is never
\* announced as a friend's.
AnnouncedOnce ==
    /\ ~repeated
    /\ \A e \in heard \cap Events : e[1] \notin OwnActivities

\* In a scene that stays, every broadcast and every signal that waits has its turn.
BroadcastsDrain ==
    <>[]shown => <>[](activeEvent = NoEvent /\ eventQueue = <<>> /\ activeSignal = NoSignal
                      /\ signalQueue = <<>>)
=============================================================================
