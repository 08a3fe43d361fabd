----------------------------- MODULE PanelProofs ------------------------------
(***************************************************************************)
(* Proofs about the panels of the web client that keep a screen's state:   *)
(* the nebulae, the chat with friends, the memory archive, adding a        *)
(* friend, and making and editing a world.  They hold for any friends,     *)
(* memories, people, nebulae, names and worlds, and any bounds on          *)
(* requests.  Each part has its inductive invariant first.                 *)
(***************************************************************************)
EXTENDS Nebula, FriendChat, MemoryLibrary, Connections, Onboarding, TLAPS, SequenceTheorems

(***************************************************************************)
(* Nebula: the space shown is the active nebula's, and an entered nebula   *)
(* is shown once its loading has ended.                                    *)
(***************************************************************************)

\* The ref that window answers are compared with follows the active nebula.
RequestIsActives == spaceRequest = activeNebula

\* A nebula that was entered once is loading until it is shown.
LoadingOrShown ==
    inNebulae /\ activeNebula # NoNebula /\ ~forsaken => spaceLoading \/ space # NoSpace

NebulaInv ==
    /\ NebulaTypeOK
    /\ RequestIsActives
    /\ SpaceIsActives
    /\ LoadingOrShown

-----------------------------------------------------------------------------
LEMMA WithoutType ==
    ASSUME NEW S, NEW q \in Seq(S), NEW i \in 1..Len(q)
    PROVE  Without(q, i) \in Seq(S)
<1>1. SubSeq(q, 1, i - 1) \in Seq(S) /\ SubSeq(q, i + 1, Len(q)) \in Seq(S)
  BY SubSeqProperties
<1>2. QED
  BY <1>1, ConcatProperties DEF Without

LEMMA NebulaInitInv == NebulaInit => NebulaInv
<1> SUFFICES ASSUME NebulaInit PROVE NebulaInv
  OBVIOUS
<1>1. windowRequests \in Seq(WindowRequests)
  BY DEF NebulaInit
<1>2. nebulaTasks \subseteq NebulaTasks
  BY DEF NebulaInit, Listing, NebulaTasks
<1>3. NebulaTypeOK
  BY <1>1, <1>2 DEF NebulaInit, NebulaTypeOK
<1>4. QED
  BY <1>3 DEF NebulaInit, NebulaInv, RequestIsActives, SpaceIsActives, LoadingOrShown

LEMMA StutterInv == NebulaInv /\ UNCHANGED nebulaVars => NebulaInv'
BY DEF NebulaInv, nebulaVars, spaceVars, directoryVars, NebulaTypeOK, RequestIsActives,
       SpaceIsActives, LoadingOrShown

-----------------------------------------------------------------------------
\* A window of the active nebula, added to the space or replacing it.
LEMMA MergeType ==
    ASSUME NebulaTypeOK, NEW n \in Nebulae, NEW w \in Windows, NEW sameVersion \in BOOLEAN
    PROVE  LET merged == MergeSpace([of |-> n, windows |-> {w}], sameVersion)
           IN  merged \in Spaces /\ merged.of = n /\ merged # NoSpace
<1> DEFINE incoming == [of |-> n, windows |-> {w}]
           merged == MergeSpace(incoming, sameVersion)
<1>1. incoming \in Spaces /\ incoming.of = n
  BY DEF Spaces
<1>2. n # NoNebula
  BY NebulaAssumption
<1>3. CASE space.of = incoming.of /\ sameVersion
  <2>1. space \in Spaces
    BY <1>1, <1>2, <1>3 DEF NebulaTypeOK, NoSpace
  <2>2. merged = [incoming EXCEPT !.windows = @ \union space.windows]
    BY <1>3 DEF MergeSpace
  <2>3. merged \in Spaces /\ merged.of = n
    BY <1>1, <2>1, <2>2 DEF Spaces
  <2>4. QED
    BY <1>2, <2>3 DEF NoSpace
<1>4. CASE ~(space.of = incoming.of /\ sameVersion)
  <2>1. merged = incoming
    BY <1>4 DEF MergeSpace
  <2>2. QED
    BY <1>1, <1>2, <2>1 DEF NoSpace
<1>5. QED
  BY <1>3, <1>4

LEMMA WindowsKeepInv ==
    ASSUME NebulaInv,
           \/ \E i \in 1..MaxRequests, sameVersion \in BOOLEAN : WindowArrives(i, sameVersion)
           \/ \E i \in 1..MaxRequests : SpaceWindowFails(i)
           \/ \E t \in spaceTimers : WindowTimer(t)
    PROVE  NebulaInv'
<1> USE DEF NebulaInv
<1>1. ASSUME NEW i \in 1..MaxRequests, NEW sameVersion \in BOOLEAN, WindowArrives(i, sameVersion)
      PROVE  NebulaInv'
  <2> DEFINE r == windowRequests[i]
  <2>1. i \in 1..Len(windowRequests) /\ windowRequests \in Seq(WindowRequests)
    BY <1>1 DEF WindowArrives, NebulaTypeOK
  <2>2. windowRequests' \in Seq(WindowRequests)
    BY <1>1, <2>1, WithoutType DEF WindowArrives
  <2>3. r \in WindowRequests
    BY <2>1
  <2>4. r.of \in Nebulae /\ r.window \in Windows
    BY <2>3 DEF WindowRequests
  <2>5. /\ UNCHANGED <<inNebulae, activeNebula, spaceRequest, forsaken, directoryVars, memberOf>>
        /\ spaceLoading' = (spaceLoading /\ (r.window # 0 \/ spaceRequest # r.of))
    BY <1>1 DEF WindowArrives, StillLoading
  <2>6. CASE spaceRequest # r.of
    <3>1. UNCHANGED <<space, spaceTimers>>
      BY <1>1, <2>6 DEF WindowArrives
    <3>2. spaceLoading' = spaceLoading
      BY <2>5, <2>6 DEF NebulaTypeOK
    <3>3. QED
      BY <2>2, <2>5, <3>1, <3>2
         DEF NebulaTypeOK, directoryVars, RequestIsActives, SpaceIsActives, LoadingOrShown
  <2>7. CASE spaceRequest = r.of
    <3>1. /\ space' = MergeSpace([of |-> r.of, windows |-> {r.window}], sameVersion)
          /\ spaceTimers' = IF r.window = LastWindow THEN spaceTimers
                            ELSE TimerLost \union
                                 {[of |-> r.of, window |-> r.window + 1, held |-> TRUE]}
      BY <1>1, <2>7 DEF WindowArrives
    <3> HIDE DEF r
    <3>2. space' \in Spaces /\ space'.of = r.of /\ space' # NoSpace
      BY <2>4, <3>1, MergeType
    <3>3. spaceTimers' \subseteq [of : Nebulae, window : Windows, held : BOOLEAN]
      <4>1. TimerLost \subseteq [of : Nebulae, window : Windows, held : BOOLEAN]
        BY DEF TimerLost, NebulaTypeOK
      <4>2. r.window # LastWindow => r.window + 1 \in Windows
        BY <2>4, NebulaAssumption DEF Windows
      <4>3. CASE r.window = LastWindow
        BY <3>1, <4>3 DEF NebulaTypeOK
      <4>4. CASE r.window # LastWindow
        <5> DEFINE timer == [of |-> r.of, window |-> r.window + 1, held |-> TRUE]
        <5>1. timer \in [of : Nebulae, window : Windows, held : BOOLEAN]
          BY <2>4, <4>2, <4>4
        <5>2. spaceTimers' = TimerLost \union {timer}
          BY <3>1, <4>4
        <5> HIDE DEF timer
        <5>3. QED
          BY <4>1, <5>1, <5>2
      <4>5. QED
        BY <4>3, <4>4
    <3>4. NebulaTypeOK'
      BY <2>2, <2>5, <3>2, <3>3 DEF NebulaTypeOK, directoryVars
    <3>5. QED
      BY <2>5, <2>7, <3>2, <3>4 DEF RequestIsActives, SpaceIsActives, LoadingOrShown
  <2>8. QED
    BY <2>6, <2>7
<1>2. ASSUME NEW i \in 1..MaxRequests, SpaceWindowFails(i)
      PROVE  NebulaInv'
  <2> DEFINE r == windowRequests[i]
  <2>1. i \in 1..Len(windowRequests) /\ windowRequests \in Seq(WindowRequests)
    BY <1>2 DEF SpaceWindowFails, NebulaTypeOK
  <2>2. windowRequests' \in Seq(WindowRequests)
    BY <1>2, <2>1, WithoutType DEF SpaceWindowFails
  <2>3. /\ UNCHANGED <<inNebulae, activeNebula, space, spaceRequest, spaceTimers,
                       directoryVars, memberOf>>
        /\ spaceLoading' = (spaceLoading /\ (r.window # 0 \/ spaceRequest # r.of))
        /\ forsaken' = (forsaken \/ (r.window = 0 /\ spaceRequest = r.of))
    BY <1>2 DEF SpaceWindowFails, StillLoading
  <2> HIDE DEF r
  <2>4. NebulaTypeOK'
    BY <2>2, <2>3 DEF NebulaTypeOK, directoryVars
  <2>5. QED
    BY <2>3, <2>4 DEF RequestIsActives, SpaceIsActives, LoadingOrShown, NebulaTypeOK
<1>3. ASSUME NEW t \in spaceTimers, WindowTimer(t)
      PROVE  NebulaInv'
  <2>1. [of |-> t.of, window |-> t.window] \in WindowRequests
    BY DEF NebulaTypeOK, WindowRequests
  <2>2. windowRequests' \in Seq(WindowRequests)
    BY <1>3, <2>1, AppendProperties DEF WindowTimer, NebulaTypeOK
  <2>3. NebulaTypeOK'
    BY <1>3, <2>2 DEF WindowTimer, NebulaTypeOK, directoryVars
  <2>4. QED
    BY <1>3, <2>3
       DEF WindowTimer, RequestIsActives, SpaceIsActives, LoadingOrShown
<1>4. QED
  BY <1>1, <1>2, <1>3

-----------------------------------------------------------------------------
LEMMA TimersType ==
    ASSUME NebulaTypeOK
    PROVE  TimerCleared \subseteq [of : Nebulae, window : Windows, held : BOOLEAN]
BY DEF NebulaTypeOK, TimerCleared

LEMMA ListingType == NebulaTypeOK => Listing \in NebulaTasks
BY DEF NebulaTypeOK, Listing, NebulaTasks

\* Entering: the nebula is the active one, and either it loads or it is forsaken.
LEMMA EnterWithInv ==
    ASSUME NebulaInv, NEW n \in Nebulae, NEW others \in SUBSET NebulaTasks, EnterWith(n, others),
           nebulaeListed' \in BOOLEAN, joinedListed' \subseteq Nebulae,
           UNCHANGED <<inNebulae, memberOf>>
    PROVE  NebulaInv'
<1>1. /\ activeNebula' = n /\ spaceRequest' = n /\ space' = NoSpace
      /\ spaceTimers' = TimerCleared /\ forsaken' = (activeNebula = n) /\ directoryOpen' = FALSE
  BY DEF EnterWith
<1>2. CASE inNebulae /\ activeNebula # n
  <2>1. /\ windowRequests' = Append(windowRequests, [of |-> n, window |-> 0])
        /\ spaceLoading' = TRUE /\ nebulaTasks' = others \union {Listing}
    BY <1>2 DEF EnterWith
  <2>2. [of |-> n, window |-> 0] \in WindowRequests
    BY NebulaAssumption DEF WindowRequests, Windows
  <2>3. windowRequests' \in Seq(WindowRequests)
    BY <2>1, <2>2, AppendProperties DEF NebulaInv, NebulaTypeOK
  <2>4. NebulaTypeOK'
    BY <1>1, <2>1, <2>3, TimersType, ListingType DEF NebulaInv, NebulaTypeOK
  <2>5. QED
    BY <1>1, <2>1, <2>4 DEF NebulaInv, RequestIsActives, SpaceIsActives, LoadingOrShown
<1>3. CASE ~(inNebulae /\ activeNebula # n)
  <2>1. nebulaTasks' = others /\ UNCHANGED <<windowRequests, spaceLoading>>
    BY <1>3 DEF EnterWith
  <2>2. NebulaTypeOK'
    BY <1>1, <2>1, TimersType DEF NebulaInv, NebulaTypeOK
  <2>3. QED
    BY <1>1, <1>3, <2>1, <2>2 DEF NebulaInv, RequestIsActives, SpaceIsActives, LoadingOrShown
<1>4. QED
  BY <1>2, <1>3

LEMMA LeaveWithInv ==
    ASSUME NebulaInv, NEW entering \in BOOLEAN, LeaveWith(entering),
           inNebulae' \in BOOLEAN, directoryOpen' \in BOOLEAN,
           UNCHANGED <<nebulaeListed, joinedListed, memberOf>>
    PROVE  NebulaInv'
<1>1. /\ activeNebula' = NoNebula /\ spaceRequest' = NoNebula /\ space' = NoSpace
      /\ spaceTimers' = TimerCleared /\ spaceLoading' = FALSE /\ forsaken' = FALSE
      /\ nebulaTasks' \in {nebulaTasks, nebulaTasks \union {Listing}} /\ UNCHANGED windowRequests
  BY DEF LeaveWith, RequestAfterLeaving
<1>2. NebulaTypeOK'
  BY <1>1, TimersType, ListingType DEF NebulaInv, NebulaTypeOK
<1>3. QED
  BY <1>1, <1>2 DEF NebulaInv, RequestIsActives, SpaceIsActives, LoadingOrShown

LEMMA ScalesKeepInv ==
    ASSUME NebulaInv,
           ToNebulae \/ LeaveNebula \/ FromNebulae \/ (\E w \in Windows : VisitMember(w))
    PROVE  NebulaInv'
<1>1. CASE ToNebulae
  <2>1. inNebulae \in BOOLEAN /\ (~inNebulae) \in BOOLEAN
    BY DEF NebulaInv, NebulaTypeOK
  <2>2. QED
    BY <1>1, <2>1, LeaveWithInv DEF ToNebulae
<1>2. CASE LeaveNebula
  BY <1>2, LeaveWithInv DEF LeaveNebula, NebulaInv, NebulaTypeOK
<1>3. ASSUME FromNebulae
      PROVE  NebulaInv'
  <2>1. spaceTimers' \subseteq [of : Nebulae, window : Windows, held : BOOLEAN]
    BY <1>3, TimersType DEF FromNebulae, NebulaInv, NebulaTypeOK
  <2>2. NebulaTypeOK'
    BY <1>3, <2>1 DEF FromNebulae, NebulaInv, NebulaTypeOK
  <2>3. QED
    BY <1>3, <2>2
       DEF FromNebulae, NebulaInv, RequestIsActives, SpaceIsActives, LoadingOrShown
<1>4. QED
  BY <1>1, <1>2, <1>3 DEF VisitMember

LEMMA GroupsKeepInv ==
    ASSUME NebulaInv,
           \/ ToggleDirectory \/ Search
           \/ \E n \in Nebulae : EnterNebula(n) \/ JoinNebula(n) \/ JoinByCode(n) \/ CreateNebula(n)
    PROVE  NebulaInv'
<1> USE DEF NebulaInv
<1>1. ASSUME NEW task \in NebulaTasks, StartTask(task)
      PROVE  NebulaInv'
  <2>1. NebulaTypeOK'
    BY <1>1 DEF StartTask, NebulaTypeOK, spaceVars
  <2>2. QED
    BY <1>1, <2>1 DEF StartTask, spaceVars, RequestIsActives, SpaceIsActives, LoadingOrShown
<1>2. CASE ToggleDirectory
  BY <1>2
     DEF ToggleDirectory, spaceVars, NebulaTypeOK, RequestIsActives, SpaceIsActives, LoadingOrShown
<1>3. CASE Search
  BY <1>1, <1>3, ListingType DEF Search
<1>4. ASSUME NEW n \in Nebulae, EnterNebula(n)
      PROVE  NebulaInv'
  BY <1>4, EnterWithInv DEF EnterNebula, NebulaTypeOK
<1>5. ASSUME NEW n \in Nebulae, JoinNebula(n) \/ JoinByCode(n) \/ CreateNebula(n)
      PROVE  NebulaInv'
  <2>1. Joining(n) \in NebulaTasks
    BY DEF Joining, NebulaTasks
  <2>2. QED
    BY <1>1, <1>5, <2>1 DEF JoinNebula, JoinByCode, CreateNebula
<1>6. QED
  BY <1>2, <1>3, <1>4, <1>5

LEMMA TasksKeepInv ==
    ASSUME NebulaInv, TaskAnswered
    PROVE  NebulaInv'
<1> USE DEF NebulaInv
<1>1. ASSUME NEW task \in nebulaTasks, JoinAnswer(task)
      PROVE  NebulaInv'
  <2>1. task \in NebulaTasks /\ task.step = "join"
    BY <1>1 DEF JoinAnswer, NebulaTypeOK
  <2>2. task.then \in Nebulae
    BY <2>1 DEF NebulaTasks
  <2>3. /\ memberOf' = memberOf \union {task.then}
        /\ nebulaTasks' =
               (nebulaTasks \ {task}) \union {[task EXCEPT !.step = "list", !.since = memberOf']}
        /\ UNCHANGED <<inNebulae, spaceVars, nebulaeListed, joinedListed, directoryOpen>>
    BY <1>1 DEF JoinAnswer
  <2>4. memberOf' \subseteq Nebulae
    BY <2>2, <2>3 DEF NebulaTypeOK
  <2>5. [task EXCEPT !.step = "list", !.since = memberOf'] \in NebulaTasks
    BY <2>1, <2>2, <2>4 DEF NebulaTasks
  <2>6. nebulaTasks' \subseteq NebulaTasks
    BY <2>3, <2>5 DEF NebulaTypeOK
  <2>7. NebulaTypeOK'
    BY <2>3, <2>4, <2>6 DEF NebulaTypeOK, spaceVars
  <2>8. QED
    BY <2>3, <2>7 DEF spaceVars, RequestIsActives, SpaceIsActives, LoadingOrShown
<1>2. ASSUME NEW task \in nebulaTasks, TaskFails(task)
      PROVE  NebulaInv'
  <2>1. NebulaTypeOK'
    BY <1>2 DEF TaskFails, NebulaTypeOK, spaceVars
  <2>2. QED
    BY <1>2, <2>1 DEF TaskFails, spaceVars, RequestIsActives, SpaceIsActives, LoadingOrShown
<1>3. ASSUME NEW task \in nebulaTasks, NEW known \in {task.since, memberOf},
             DirectoryArrives(task, known)
      PROVE  NebulaInv'
  <2>1. task.then \in Nebulae \union {NoNebula} /\ task.since \subseteq Nebulae
    BY DEF NebulaTypeOK, NebulaTasks
  <2>2. known \subseteq Nebulae
    BY <2>1 DEF NebulaTypeOK
  <2>3. /\ nebulaeListed' = TRUE /\ joinedListed' = known /\ UNCHANGED <<inNebulae, memberOf>>
    BY <1>3 DEF DirectoryArrives
  <2>4. CASE task.then # NoNebula
    <3>1. task.then \in Nebulae /\ nebulaTasks \ {task} \in SUBSET NebulaTasks
      BY <2>1, <2>4 DEF NebulaTypeOK
    <3>2. EnterWith(task.then, nebulaTasks \ {task})
      BY <1>3, <2>4 DEF DirectoryArrives
    <3>3. QED
      BY <2>2, <2>3, <3>1, <3>2, EnterWithInv
  <2>5. CASE task.then = NoNebula
    <3>1. /\ nebulaTasks' = nebulaTasks \ {task}
          /\ directoryOpen' = (directoryOpen \/ known = {}) /\ UNCHANGED spaceVars
      BY <1>3, <2>5 DEF DirectoryArrives
    <3>2. NebulaTypeOK'
      BY <2>2, <2>3, <3>1 DEF NebulaTypeOK, spaceVars
    <3>3. QED
      BY <2>3, <3>1, <3>2 DEF spaceVars, RequestIsActives, SpaceIsActives, LoadingOrShown
  <2>6. QED
    BY <2>4, <2>5
<1>4. QED
  BY <1>1, <1>2, <1>3 DEF TaskAnswered

LEMMA StepKeepsInv == NebulaInv /\ [NebulaNext]_nebulaVars => NebulaInv'
BY StutterInv, WindowsKeepInv, ScalesKeepInv, GroupsKeepInv, TasksKeepInv
   DEF NebulaNext, WindowAnswered

LEMMA NebulaInductive == NebulaSpec => []NebulaInv
BY NebulaInitInv, StepKeepsInv, PTL DEF NebulaSpec

-----------------------------------------------------------------------------
\* Type correctness of the space, its requests and timers, and the directory.
THEOREM NebulaTypes == NebulaSpec => []NebulaTypeOK
<1>1. NebulaInv => NebulaTypeOK
  BY DEF NebulaInv
<1>2. QED
  BY <1>1, NebulaInductive, PTL

\* No window that is answered late shows the space of a nebula that was left
\* (useNebulaSpace.ts).
THEOREM SpaceOfTheActive == NebulaSpec => []SpaceIsActives
<1>1. NebulaInv => SpaceIsActives
  BY DEF NebulaInv
<1>2. QED
  BY <1>1, NebulaInductive, PTL

\* An entered nebula is loading, is shown, or was forsaken.
THEOREM EnteredNebulaIsShown == NebulaSpec => []EnteredIsShown
<1>1. NebulaInv => EnteredIsShown
  BY DEF NebulaInv, NebulaTypeOK, LoadingOrShown, EnteredIsShown
<1>2. QED
  BY <1>1, NebulaInductive, PTL

(***************************************************************************)
(* FriendChat: what the bubbles say of the messages.                       *)
(***************************************************************************)

\* The stored message of every bubble that is not being sent.
SentIsStored == \A b \in bubbles : b.sent => messages[b.n].stored

\* Until the friends were listed again, nothing else is on its way.
AcknowledgedIsShown == acknowledged => sending # 0 /\ \A b \in bubbles : b.sent

ChatInv == ChatTypeOK /\ SendingIsOnItsWay /\ SentIsStored /\ AcknowledgedIsShown

Bubbles == [n : Sent, sent : BOOLEAN]
Message == [to : OrNobody, text : Texts \union {NoText}, stored : BOOLEAN]

LEMMA ChatInitInv == ChatInit => ChatInv
<1> SUFFICES ASSUME ChatInit PROVE ChatInv
  OBVIOUS
<1>1. Unsent \in Message /\ Nobody \in OrNobody
  BY DEF Unsent, Message, OrNobody
<1>2. messages \in [Sent -> Message]
  BY <1>1 DEF ChatInit
<1>3. ChatTypeOK
  <2>1. /\ refreshes \in 0..1 /\ sending \in {0} \union Sent
        /\ hasThread \subseteq ChatFriends /\ bubbles \subseteq [n : Sent, sent : BOOLEAN]
    BY DEF ChatInit
  <2>2. /\ chatOpen \in BOOLEAN /\ threadRequest \in BOOLEAN /\ chatLoading \in BOOLEAN
        /\ acknowledged \in BOOLEAN
    BY Zenon DEF ChatInit
  <2>3. QED
    BY <1>1, <1>2, <2>1, <2>2 DEF ChatInit, ChatTypeOK, Message
<1>4. QED
  BY <1>3 DEF ChatInit, ChatInv, SendingIsOnItsWay, SentIsStored, AcknowledgedIsShown

\* A step that shows no other bubble, and sends nothing, keeps what the bubbles say.
LEMMA BubblesKept ==
    ASSUME ChatInv, bubbles' \subseteq bubbles, UNCHANGED sendVars
    PROVE  SendingIsOnItsWay' /\ SentIsStored' /\ AcknowledgedIsShown'
BY DEF ChatInv, sendVars, SendingIsOnItsWay, SentIsStored, AcknowledgedIsShown

LEMMA PageType ==
    ASSUME ChatTypeOK, NEW f
    PROVE  Page(f) \subseteq Bubbles /\ \A b \in Page(f) : b.sent = TRUE /\ messages[b.n].stored
<1>1. ASSUME NEW b \in Page(f)
      PROVE  b \in Bubbles /\ b.sent = TRUE /\ messages[b.n].stored
  <2>1. PICK n \in Sent : messages[n].stored /\ b = [n |-> n, sent |-> TRUE]
    BY DEF Page, StoredWith
  <2>2. QED
    BY <2>1 DEF Bubbles
<1>2. QED
  BY <1>1

LEMMA FriendsKeep ==
    ASSUME ChatInv,
           \/ OpenChat \/ CloseChat \/ FriendsListed \/ ThreadCreated \/ ThreadNotCreated
           \/ (\E f \in ChatFriends : OpenFriend(f)) \/ BackToFriends
           \/ ThreadFails \/ LoadEarlier \/ EarlierFails \/ (\E t \in Texts : Write(t))
    PROVE  ChatInv'
<1> USE DEF OpenChat, CloseChat, FriendsListed, ThreadCreated, ThreadNotCreated, OpenFriend, Selects,
        BackToFriends, ThreadFails, LoadEarlier, EarlierFails, Write
<1>1. bubbles' \subseteq bubbles /\ UNCHANGED sendVars
  BY DEF threadVars
<1>2. ChatTypeOK'
  <2> USE DEF ChatInv, ChatTypeOK, openingVars
  <2>1. bubbles' \subseteq [n : Sent, sent : BOOLEAN]
    BY <1>1
  <2>2. /\ sending' \in {0} \union Sent /\ acknowledged' \in BOOLEAN
        /\ messages' \in [Sent -> [to : OrNobody, text : Texts \union {NoText}, stored : BOOLEAN]]
    BY <1>1 DEF sendVars
  <2>3. chatOpen' \in BOOLEAN /\ friend' \in OrNobody /\ opening' \in OrNobody
    BY DEF OrNobody
  <2>4. hasThread' \subseteq ChatFriends /\ refreshes' \in 0..1
    BY DEF OrNobody
  <2>5. threadRequest' \in BOOLEAN /\ chatLoading' \in BOOLEAN
    BY DEF threadVars
  <2>6. earlier' \in OrNobody /\ cursorOf' \in OrNobody /\ input' \in Texts \union {NoText}
    BY DEF OrNobody, threadVars
  <2>7. QED
    BY <2>1, <2>2, <2>3, <2>4, <2>5, <2>6
<1>3. QED
  BY <1>1, <1>2, BubblesKept DEF ChatInv

LEMMA PagesKeep ==
    ASSUME ChatInv, ThreadArrives \/ EarlierArrives
    PROVE  ChatInv'
<1>1. PICK f : bubbles' \subseteq bubbles \union Page(f)
  BY DEF ThreadArrives, EarlierArrives
<1>2. UNCHANGED sendVars
  BY DEF ThreadArrives, EarlierArrives
<1>3. ChatTypeOK'
  BY <1>1, <1>2, PageType DEF ThreadArrives, EarlierArrives, ChatInv, ChatTypeOK, openingVars, sendVars,
     OrNobody, Bubbles
<1>4. SendingIsOnItsWay' /\ SentIsStored' /\ AcknowledgedIsShown'
  BY <1>1, <1>2, PageType
     DEF ChatInv, sendVars, SendingIsOnItsWay, SentIsStored, AcknowledgedIsShown
<1>5. QED
  BY <1>3, <1>4 DEF ChatInv

LEMMA SendKeeps ==
    ASSUME ChatInv, NEW n \in Sent, SendMessage(n)
    PROVE  ChatInv'
<1>1. /\ sending = 0 /\ sending' = n /\ acknowledged' = FALSE /\ n # 0
      /\ ~messages[n].stored
      /\ bubbles' = bubbles \union {[n |-> n, sent |-> FALSE]}
      /\ messages' = [messages EXCEPT ![n] = [to |-> friend, text |-> input, stored |-> FALSE]]
  BY DEF SendMessage, SendOffered, ChatBusy, Fresh, Unsent, Sent
<1>2. \A b \in bubbles : b.sent = TRUE
  BY <1>1 DEF ChatInv, SendingIsOnItsWay, ChatTypeOK, Sent
<1>3. ChatTypeOK'
  <2>1. [to |-> friend, text |-> input, stored |-> FALSE] \in Message
    BY DEF ChatInv, ChatTypeOK, Message
  <2>2. messages' \in [Sent -> Message]
    BY <1>1, <2>1 DEF ChatInv, ChatTypeOK, Message
  <2>3. bubbles' \subseteq Bubbles
    <3>1. [n |-> n, sent |-> FALSE] \in Bubbles
      BY DEF Bubbles
    <3>2. bubbles \subseteq Bubbles
      BY DEF ChatInv, ChatTypeOK, Bubbles
    <3>3. QED
      BY <1>1, <3>1, <3>2
  <2>4. QED
    BY <1>1, <2>2, <2>3 DEF SendMessage, ChatInv, ChatTypeOK, openingVars, Message, Bubbles
<1>4. SendingIsOnItsWay'
  BY <1>1, <1>2 DEF SendingIsOnItsWay
<1>5. SentIsStored'
  <2>1. \A k \in Sent \ {n} : messages'[k] = messages[k]
    BY <1>1 DEF ChatInv, ChatTypeOK
  <2>2. \A b \in bubbles : b.n \in Sent \ {n}
    BY <1>1, <1>2 DEF ChatInv, ChatTypeOK, SentIsStored
  <2>3. QED
    BY <1>1, <1>2, <2>1, <2>2 DEF ChatInv, SentIsStored
<1>6. QED
  BY <1>1, <1>3, <1>4, <1>5 DEF ChatInv, AcknowledgedIsShown

LEMMA MessageStoredKeeps ==
    ASSUME ChatInv, MessageStored
    PROVE  ChatInv'
<1>1. /\ sending \in Sent /\ messages' = [messages EXCEPT ![sending].stored = TRUE]
      /\ UNCHANGED <<chatOpen, friend, openingVars, threadVars, input, sending, acknowledged>>
  BY DEF MessageStored, ChatInv, ChatTypeOK
<1>2. messages' \in [Sent -> Message]
  BY <1>1 DEF ChatInv, ChatTypeOK, Message
<1>3. \A n \in Sent : messages[n].stored => messages'[n].stored
  BY <1>1 DEF ChatInv, ChatTypeOK
<1>4. ChatTypeOK'
  BY <1>1, <1>2 DEF ChatInv, ChatTypeOK, openingVars, threadVars, Message
<1>5. SentIsStored'
  BY <1>1, <1>3 DEF ChatInv, SentIsStored, ChatTypeOK, threadVars
<1>6. QED
  BY <1>1, <1>4, <1>5 DEF ChatInv, SendingIsOnItsWay, AcknowledgedIsShown, threadVars

\* The bubble of the message on its way is the only one that is shown as being sent.
LEMMA OptimisticIsLast ==
    ASSUME ChatInv
    PROVE  \A b \in bubbles : ~b.sent => b \in Optimistic
BY DEF ChatInv, ChatTypeOK, SendingIsOnItsWay, Optimistic

LEMMA AnswersKeep ==
    ASSUME ChatInv, SendAnswer \/ SendEnds \/ SendFails
    PROVE  ChatInv'
<1>1. CASE SendAnswer
  <2>1. /\ sending \in Sent /\ messages[sending].stored /\ acknowledged' = TRUE
        /\ UNCHANGED <<chatOpen, friend, openingVars, threadRequest, earlier, chatLoading, cursorOf,
                       input, sending, messages>>
    BY <1>1 DEF SendAnswer, ChatInv, ChatTypeOK
  <2>2. [n |-> sending, sent |-> TRUE] \in Bubbles
    BY <2>1 DEF Bubbles
  <2>3. bubbles' \subseteq (bubbles \ Optimistic) \union {[n |-> sending, sent |-> TRUE]}
    BY <1>1 DEF SendAnswer, Optimistic
  <2>4. \A b \in bubbles' : b.sent /\ messages[b.n].stored
    BY <2>1, <2>3, OptimisticIsLast DEF ChatInv, SentIsStored
  <2>5. ChatTypeOK'
    BY <2>1, <2>2, <2>3 DEF ChatInv, ChatTypeOK, openingVars, Bubbles
  <2>6. QED
    BY <2>1, <2>4, <2>5
       DEF ChatInv, SendingIsOnItsWay, SentIsStored, AcknowledgedIsShown, Sent
<1>2. CASE SendEnds
  <2>1. /\ \A b \in bubbles : b.sent
        /\ sending' = 0 /\ acknowledged' = FALSE /\ hasThread' = ChatFriends
        /\ UNCHANGED <<chatOpen, friend, opening, refreshes, threadVars, input, messages>>
    BY <1>2 DEF SendEnds, ChatInv, AcknowledgedIsShown
  <2>2. QED
    BY <2>1 DEF ChatInv, ChatTypeOK, threadVars, SendingIsOnItsWay, SentIsStored, AcknowledgedIsShown
<1>3. CASE SendFails
  <2>1. /\ sending \in Sent /\ sending' = 0 /\ acknowledged' = FALSE
        /\ bubbles' = bubbles \ Optimistic /\ input' = messages[sending].text
        /\ UNCHANGED <<chatOpen, friend, openingVars, threadRequest, earlier, chatLoading, cursorOf,
                       messages>>
    BY <1>3 DEF SendFails, BubblesAfterFailure, ChatInv, ChatTypeOK
  <2>2. \A b \in bubbles' : b.sent
    BY <2>1, OptimisticIsLast
  <2>3. ChatTypeOK'
    BY <2>1 DEF ChatInv, ChatTypeOK, openingVars
  <2>4. QED
    BY <2>1, <2>2, <2>3 DEF ChatInv, SendingIsOnItsWay, SentIsStored, AcknowledgedIsShown
<1>4. QED
  BY <1>1, <1>2, <1>3

LEMMA ChatInductive == ChatSpec => []ChatInv
<1>1. ChatInv /\ UNCHANGED chatVars => ChatInv'
  BY DEF chatVars, ChatInv, ChatTypeOK, SendingIsOnItsWay, SentIsStored, AcknowledgedIsShown
<1>2. ChatInv /\ [ChatNext]_chatVars => ChatInv'
  BY <1>1, FriendsKeep, PagesKeep, SendKeeps, MessageStoredKeeps, AnswersKeep DEF ChatNext
<1>3. QED
  BY <1>2, ChatInitInv, PTL DEF ChatSpec

\* The chat stays in its type.
THEOREM ChatTypes == ChatSpec => []ChatTypeOK
<1>1. ChatInv => ChatTypeOK
  BY DEF ChatInv
<1>2. QED
  BY <1>1, ChatInductive, PTL

\* SendingIsOnItsWay: a bubble that says it is being sent is of the message whose request is
\* on its way, whatever answers arrive, fail or come late around it (useFriendChat.ts).
THEOREM SendingHasItsRequest == ChatSpec => []SendingIsOnItsWay
<1>1. ChatInv => SendingIsOnItsWay
  BY DEF ChatInv
<1>2. QED
  BY <1>1, ChatInductive, PTL

\* A bubble that says it was sent is of a message the server has stored: no answer of
\* another friend's thread, and no failure, shows as sent what is not.
THEOREM SentWasStored == ChatSpec => []SentIsStored
<1>1. ChatInv => SentIsStored
  BY DEF ChatInv
<1>2. QED
  BY <1>1, ChatInductive, PTL

(***************************************************************************)
(* MemoryLibrary: what is edited was made from the version its request     *)
(* expects.                                                                *)
(***************************************************************************)

Editors == [document : Documents, version : 1..MaxVersion]
Changes == [kind : {"save", "delete"}, id : Memories, sent : Editors, done : BOOLEAN]

\* What is edited was made from the version that its request will expect.
EditsItsVersion == editor # NoEditor => editor.document.made = editor.version
SendsItsVersion == change # NoChange => change.sent.document.made = change.sent.version

\* A revision that was stored has a version of its own.
StoredHasNext == change # NoChange /\ change.kind = "save" /\ change.done => change.sent.version < MaxVersion

DrawerTypeOK ==
    /\ libraryOpen \in BOOLEAN /\ selectedMemory \in Memories \union {NoMemory}
    /\ detailRequest \in Memories \union {NoMemory}
    /\ archive \in [items : SUBSET Memories, filter : Filters, next : BOOLEAN]
    /\ pageRequests \subseteq PageRequests /\ archiveLoading \in BOOLEAN

EditTypeOK ==
    /\ editor \in Editors \union {NoEditor} /\ change \in Changes \union {NoChange}
    /\ revised \in [Memories -> 0..MaxVersion] /\ overwritten \in BOOLEAN

EditInv == EditTypeOK /\ EditsItsVersion /\ SendsItsVersion /\ StoredHasNext /\ RevisedFromStored

LEMMA LibraryTypeParts == LibraryTypeOK <=> DrawerTypeOK /\ EditTypeOK
BY DEF LibraryTypeOK, DrawerTypeOK, EditTypeOK, Editors, Changes

LEMMA EditingType ==
    ASSUME NEW m \in Memories, NEW v \in 1..MaxVersion
    PROVE  Editing(m, v) \in Editors /\ Editing(m, v).document.made = Editing(m, v).version
BY DEF Editing, Editors, Documents

LEMMA NoChangeIsNone ==
    /\ NoChange.kind = "none" /\ NoChange \notin Changes /\ NoEditor \notin Editors
<1>1. NoChange.kind = "none"
  BY DEF NoChange
<1>2. NoEditor.version = 0 /\ \A e \in Editors : e.version # 0
  BY DEF NoEditor, Editors
<1>3. \A c \in Changes : c.kind # "none"
  BY DEF Changes
<1>4. QED
  BY <1>1, <1>2, <1>3

LEMMA LibraryInitInv == LibraryInit => DrawerTypeOK /\ EditInv
<1> SUFFICES ASSUME LibraryInit PROVE DrawerTypeOK /\ EditInv
  OBVIOUS
<1>1. DrawerTypeOK
  <2>1. PICK f \in Filters : archive = [items |-> {}, filter |-> f, next |-> FALSE]
    BY DEF LibraryInit
  <2>2. archive \in [items : SUBSET Memories, filter : Filters, next : BOOLEAN]
    BY <2>1
  <2>3. QED
    BY <2>2 DEF LibraryInit, DrawerTypeOK
<1>2. EditTypeOK
  <2>1. revised \in [Memories -> 0..MaxVersion]
    BY LibraryAssumption DEF LibraryInit
  <2>2. QED
    BY <2>1 DEF LibraryInit, EditTypeOK
<1>3. QED
  BY <1>1, <1>2, LibraryTypeParts DEF LibraryInit, EditInv, EditsItsVersion, SendsItsVersion,
     StoredHasNext, RevisedFromStored

-----------------------------------------------------------------------------
(* The list, and the requests for its pages. *)

LEMMA ListsForType ==
    ASSUME DrawerTypeOK, NEW f \in Filters, ListsFor(f)
    PROVE  /\ archive' \in [items : SUBSET Memories, filter : Filters, next : BOOLEAN]
           /\ pageRequests' \subseteq PageRequests /\ archiveLoading' \in BOOLEAN
<1>1. [filter |-> f, more |-> FALSE] \in PageRequests
  BY DEF PageRequests
<1>2. pageRequests' \subseteq PageRequests
  BY <1>1 DEF ListsFor, DrawerTypeOK
<1>3. archive' \in [items : SUBSET Memories, filter : Filters, next : BOOLEAN]
  BY DEF ListsFor, DrawerTypeOK
<1>4. QED
  BY <1>2, <1>3 DEF ListsFor

LEMMA ArchivePageType ==
    ASSUME DrawerTypeOK, NEW r \in pageRequests, PageArrives(r) \/ PageFails(r)
    PROVE  DrawerTypeOK'
<1>1. pageRequests' \subseteq PageRequests /\ archiveLoading' \in BOOLEAN
  BY DEF DrawerTypeOK, PageArrives, PageFails
<1>2. archive' \in [items : SUBSET Memories, filter : Filters, next : BOOLEAN]
  <2>1. CASE PageFails(r)
    BY <2>1 DEF DrawerTypeOK, PageFails
  <2>2. CASE PageArrives(r)
    <3>1. PICK page \in SUBSET Listed(r.filter) :
             archive' = [archive EXCEPT !.items = MergeMemories(r, page),
                                        !.next = page # Listed(r.filter)]
      BY <2>2 DEF PageArrives
    <3>2. r.filter \in Filters
      BY DEF DrawerTypeOK, PageRequests
    <3>3. page \subseteq Memories
      BY <3>2, LibraryAssumption DEF Listed
    <3>4. MergeMemories(r, page) \in SUBSET Memories
      BY <3>3 DEF MergeMemories, DrawerTypeOK
    <3>5. QED
      BY <3>1, <3>4 DEF DrawerTypeOK
  <2>3. QED
    BY <2>1, <2>2
<1>3. QED
  BY <1>1, <1>2 DEF DrawerTypeOK, PageArrives, PageFails

LEMMA DrawerTypes ==
    ASSUME DrawerTypeOK, LibraryNext
    PROVE  DrawerTypeOK'
<1>1. archive.filter \in Filters
  BY DEF DrawerTypeOK
<1>2. CASE OpenLibrary
  BY <1>1, <1>2, ListsForType DEF OpenLibrary, DrawerTypeOK
<1>3. CASE CloseLibrary
  BY <1>3 DEF CloseLibrary, ListingStops, DrawerTypeOK
<1>4. ASSUME NEW f \in Filters, Narrow(f) PROVE DrawerTypeOK'
  BY <1>4, ListsForType DEF Narrow, DrawerTypeOK
<1>5. CASE LoadMore
  <2>1. [filter |-> archive.filter, more |-> TRUE] \in PageRequests
    BY <1>1 DEF PageRequests
  <2>2. QED
    BY <1>5, <2>1 DEF LoadMore, DrawerTypeOK
<1>6. CASE PageAnswered
  BY <1>6, ArchivePageType DEF PageAnswered
<1>7. ASSUME NEW m \in Memories, SelectMemory(m) PROVE DrawerTypeOK'
  BY <1>7 DEF SelectMemory, ListingStops, DrawerTypeOK
<1>8. CASE BackToList
  BY <1>1, <1>8, ListsForType DEF BackToList, DrawerTypeOK
<1>9. CASE SaveAnswered
  BY <1>1, <1>9, ListsForType DEF SaveAnswered, ChangeNotified, DrawerTypeOK, listVars
<1>10. CASE DeletionAnswer
  <2>1. [filter |-> archive.filter, more |-> FALSE] \in PageRequests
    BY <1>1 DEF PageRequests
  <2>2. pageRequests' \subseteq PageRequests /\ archiveLoading' \in BOOLEAN
    BY <1>10, <2>1 DEF DeletionAnswer, DrawerTypeOK
  <2>3. archive' = [archive EXCEPT !.items = archive.items \ {change.id}]
    BY <1>10 DEF DeletionAnswer
  <2>4. archive' \in [items : SUBSET Memories, filter : Filters, next : BOOLEAN]
    BY <2>3 DEF DrawerTypeOK
  <2>5. QED
    BY <1>10, <2>2, <2>4 DEF DeletionAnswer, DrawerTypeOK
<1>11. CASE \/ DetailArrives \/ DetailFails \/ Save \/ RemoveMemory \/ SaveStored \/ DeletionStored
            \/ ChangeFails \/ \E m \in Memories : OtherDeviceRevises(m)
  BY <1>11 DEF DetailArrives, DetailFails, Save, RemoveMemory, SaveStored, DeletionStored, ChangeFails,
     OtherDeviceRevises, listVars, DrawerTypeOK
<1>12. QED
  BY <1>2, <1>3, <1>4, <1>5, <1>6, <1>7, <1>8, <1>9, <1>10, <1>11 DEF LibraryNext

-----------------------------------------------------------------------------
(* What is edited, sent and stored. *)

LEMMA EditedSent ==
    ASSUME EditInv, EditorShown, ~Busy, NEW kind \in {"save", "delete"}, selectedMemory \in Memories,
           change' = [kind |-> kind, id |-> selectedMemory, sent |-> editor, done |-> FALSE],
           UNCHANGED <<editor, revised, overwritten>>
    PROVE  EditInv'
<1>1. editor \in Editors /\ editor.document.made = editor.version
  BY DEF EditInv, EditTypeOK, EditorShown, EditsItsVersion
<1>2. /\ change' \in Changes /\ change'.sent = editor /\ change'.done = FALSE
  BY <1>1 DEF Changes
<1>3. QED
  BY <1>1, <1>2 DEF EditInv, EditTypeOK, EditsItsVersion, SendsItsVersion, StoredHasNext,
     RevisedFromStored

LEMMA StoredKeeps ==
    ASSUME EditInv, SaveStored \/ DeletionStored
    PROVE  EditInv'
<1>1. change \in Changes /\ change # NoChange /\ change' = [change EXCEPT !.done = TRUE]
  BY NoChangeIsNone DEF EditInv, EditTypeOK, SaveStored, DeletionStored
<1>2. /\ change' \in Changes /\ change'.sent = change.sent /\ change'.kind = change.kind
      /\ change.id \in Memories /\ change.sent \in Editors
  BY <1>1 DEF Changes
<1>3. CASE SaveStored
  <2>1. /\ change.kind = "save" /\ Revises(change) /\ revised[change.id] < MaxVersion
        /\ revised' = [revised EXCEPT ![change.id] = revised[change.id] + 1]
        /\ overwritten' = (\/ overwritten
                           \/ change.sent.document # [of |-> change.id, made |-> revised[change.id]])
        /\ UNCHANGED editor
    BY <1>3 DEF SaveStored
  <2>2. change.sent.document \in Documents /\ change.sent.document.made = change.sent.version
    BY <1>1, <1>2 DEF EditInv, SendsItsVersion, Editors
  <2>3. change.sent.document = [of |-> change.id, made |-> revised[change.id]]
    BY <2>1, <2>2 DEF Revises, Documents
  <2>4. overwritten' = FALSE
    BY <2>1, <2>3 DEF EditInv, RevisedFromStored
  <2>5. change.sent.version < MaxVersion
    BY <2>1 DEF Revises
  <2>6. revised' \in [Memories -> 0..MaxVersion]
    <3>1. revised[change.id] \in 0..MaxVersion
      BY <1>2 DEF EditInv, EditTypeOK
    <3>2. revised[change.id] + 1 \in 0..MaxVersion
      BY <2>1, <3>1, LibraryAssumption
    <3>3. QED
      BY <2>1, <3>2 DEF EditInv, EditTypeOK
  <2>7. EditTypeOK'
    BY <1>2, <2>1, <2>4, <2>6 DEF EditInv, EditTypeOK
  <2>8. QED
    BY <1>2, <2>1, <2>2, <2>4, <2>5, <2>7
       DEF EditInv, EditsItsVersion, SendsItsVersion, StoredHasNext, RevisedFromStored
<1>4. CASE DeletionStored
  <2>1. /\ change.kind = "delete" /\ revised' = [revised EXCEPT ![change.id] = 0]
        /\ UNCHANGED <<editor, overwritten>>
    BY <1>4 DEF DeletionStored
  <2>2. revised' \in [Memories -> 0..MaxVersion]
    <3>1. 0 \in 0..MaxVersion
      BY LibraryAssumption
    <3>2. QED
      BY <2>1, <3>1 DEF EditInv, EditTypeOK
  <2>3. EditTypeOK'
    BY <1>2, <2>1, <2>2 DEF EditInv, EditTypeOK
  <2>4. QED
    BY <1>1, <1>2, <2>1, <2>3
       DEF EditInv, EditsItsVersion, SendsItsVersion, StoredHasNext, RevisedFromStored
<1>5. QED
  BY <1>3, <1>4

LEMMA EditKeeps ==
    ASSUME DrawerTypeOK, EditInv, LibraryNext
    PROVE  EditInv'
<1> USE DEF EditInv
<1>1. CASE editor' \in {editor, NoEditor} /\ change' \in {change, NoChange} /\ UNCHANGED <<revised, overwritten>>
  BY <1>1 DEF EditTypeOK, EditsItsVersion, SendsItsVersion, StoredHasNext, RevisedFromStored
<1>2. CASE \/ OpenLibrary \/ CloseLibrary \/ (\E f \in Filters : Narrow(f)) \/ LoadMore \/ PageAnswered
           \/ (\E m \in Memories : SelectMemory(m)) \/ BackToList \/ DetailFails \/ DeletionAnswer
           \/ ChangeFails
  BY <1>1, <1>2 DEF OpenLibrary, CloseLibrary, Narrow, LoadMore, PageAnswered, PageArrives, PageFails,
     SelectMemory, BackToList, DetailFails, DeletionAnswer, ChangeFails
<1>3. CASE DetailArrives
  <2>1. detailRequest \in Memories /\ revised[detailRequest] \in 1..MaxVersion
    BY <1>3 DEF DetailArrives, DrawerTypeOK, EditTypeOK
  <2>2. editor' \in Editors /\ editor'.document.made = editor'.version
    BY <1>3, <2>1, EditingType DEF DetailArrives
  <2>3. QED
    BY <1>3, <2>2 DEF DetailArrives, EditTypeOK, EditsItsVersion, SendsItsVersion, StoredHasNext,
       RevisedFromStored
<1>4. CASE Save \/ RemoveMemory
  <2>1. EditorShown /\ ~Busy /\ selectedMemory \in Memories /\ UNCHANGED <<editor, revised, overwritten>>
    BY <1>4 DEF Save, RemoveMemory, EditorShown, DrawerTypeOK
  <2>2. PICK kind \in {"save", "delete"} :
           change' = [kind |-> kind, id |-> selectedMemory, sent |-> editor, done |-> FALSE]
    BY <1>4 DEF Save, RemoveMemory
  <2>3. QED
    BY <2>1, <2>2, EditedSent
<1>5. CASE SaveStored \/ DeletionStored
  BY <1>5, StoredKeeps
<1>6. CASE SaveAnswered
  <2>1. change.kind = "save" /\ change.done /\ change # NoChange /\ change \in Changes
    BY <1>6, NoChangeIsNone DEF SaveAnswered, EditTypeOK
  <2>2. change.id \in Memories /\ change.sent.version \in 1..MaxVersion /\ change.sent.version < MaxVersion
    BY <2>1 DEF Changes, Editors, StoredHasNext
  <2>3. change.sent.version + 1 \in 1..MaxVersion
    BY <2>2, LibraryAssumption
  <2>4. \/ editor' = NoEditor
        \/ editor' \in Editors /\ editor'.document.made = editor'.version
    <3>1. editor' \in {NoEditor, Editing(change.id, change.sent.version + 1)}
      BY <1>6 DEF SaveAnswered
    <3>2. QED
      BY <2>2, <2>3, <3>1, EditingType
  <2>5. QED
    BY <1>6, <2>4 DEF SaveAnswered, EditTypeOK, EditsItsVersion, SendsItsVersion, StoredHasNext,
       RevisedFromStored
<1>7. ASSUME NEW m \in Memories, OtherDeviceRevises(m) PROVE EditInv'
  <2>1. revised[m] + 1 \in 0..MaxVersion
    BY <1>7, LibraryAssumption DEF OtherDeviceRevises
  <2>2. revised' \in [Memories -> 0..MaxVersion]
    BY <1>7, <2>1 DEF OtherDeviceRevises, EditTypeOK
  <2>3. QED
    BY <1>7, <2>2 DEF OtherDeviceRevises, EditTypeOK, EditsItsVersion, SendsItsVersion, StoredHasNext,
       RevisedFromStored
<1>8. QED
  BY <1>2, <1>3, <1>4, <1>5, <1>6, <1>7 DEF LibraryNext

LEMMA LibraryInductive == LibrarySpec => [](DrawerTypeOK /\ EditInv)
<1>1. LibraryInit => DrawerTypeOK /\ EditInv
  BY LibraryInitInv
<1>2. DrawerTypeOK /\ EditInv /\ UNCHANGED libraryVars => (DrawerTypeOK /\ EditInv)'
  BY DEF libraryVars, DrawerTypeOK, EditInv, EditTypeOK, EditsItsVersion, SendsItsVersion, StoredHasNext,
     RevisedFromStored
<1>3. DrawerTypeOK /\ EditInv /\ [LibraryNext]_libraryVars => (DrawerTypeOK /\ EditInv)'
  BY <1>2, DrawerTypes, EditKeeps
<1>4. QED
  BY <1>1, <1>3, PTL DEF LibrarySpec

\* The memory library stays in its type.
THEOREM LibraryTypes == LibrarySpec => []LibraryTypeOK
<1>1. DrawerTypeOK /\ EditInv => LibraryTypeOK
  BY LibraryTypeParts DEF EditInv
<1>2. QED
  BY <1>1, LibraryInductive, PTL

\* RevisedFromStored: a revision is stored only over the version it was written from,
\* whatever another device revises meanwhile.
THEOREM RevisionsAreOfStored == LibrarySpec => []RevisedFromStored
<1>1. EditInv => RevisedFromStored
  BY DEF EditInv
<1>2. QED
  BY <1>1, LibraryInductive, PTL

(***************************************************************************)
(* Connections: an answer that is taken is of what was typed last.         *)
(***************************************************************************)

SearchTypeOK ==
    /\ relationshipEditorOpen \in BOOLEAN /\ refining \in BOOLEAN
    /\ query \in Queries /\ searchTimer \in {-1} \union Queries /\ searches \subseteq Queries
    /\ people \in [found : SUBSET People, free : SUBSET People, query : Queries]
    /\ candidate \in OrNoPerson /\ discovering \in BOOLEAN
    /\ affinity \in [People -> {"unasked", "loading", "resolved"}]

DataTypeOK ==
    /\ adding \subseteq People /\ relationships \subseteq People
    /\ dataOpen \in BOOLEAN /\ dataLoads \in 0..MaxLoads /\ dataLoading \in BOOLEAN
    /\ profileForm \in {"stored", "typed"}
    /\ profileSaving \in {"no", "patch", "cosmos", "load"}

SearchInv == SearchTypeOK /\ ListIsOfTheQuery

LEMMA NoneFound ==
    /\ 0 \in Queries /\ NoTimer \in {-1} \union Queries /\ NoPerson \in OrNoPerson
    /\ NoPeople \in [found : SUBSET People, free : SUBSET People, query : Queries]
    /\ Unknown \in [People -> {"unasked", "loading", "resolved"}]
<1>1. 0 \in Queries
  BY ConnectionsAssumption DEF Queries
<1>2. QED
  BY <1>1 DEF NoTimer, OrNoPerson, NoPeople, Unknown

LEMMA NoneFoundFor ==
    ASSUME NEW q \in Queries
    PROVE  [NoPeople EXCEPT !.query = q] = [found |-> {}, free |-> {}, query |-> q]
BY DEF NoPeople

LEMMA ConnectionsInitInv == ConnectionsInit => SearchInv /\ DataTypeOK
<1> SUFFICES ASSUME ConnectionsInit PROVE SearchInv /\ DataTypeOK
  OBVIOUS
<1>1. SearchTypeOK
  <2>1. /\ relationshipEditorOpen \in BOOLEAN /\ refining \in BOOLEAN /\ discovering \in BOOLEAN
    BY DEF ConnectionsInit
  <2>2. searches \subseteq Queries
    BY DEF ConnectionsInit
  <2>3. QED
    BY <2>1, <2>2, NoneFound DEF ConnectionsInit, SearchTypeOK
<1>2. DataTypeOK
  <2>1. dataOpen \in BOOLEAN /\ dataLoading \in BOOLEAN
    BY DEF ConnectionsInit
  <2>2. dataLoads \in 0..MaxLoads
    BY ConnectionsAssumption DEF ConnectionsInit
  <2>3. QED
    BY <2>1, <2>2 DEF ConnectionsInit, DataTypeOK
<1>3. ListIsOfTheQuery
  BY DEF ConnectionsInit, ListIsOfTheQuery, SearchOffered
<1>4. QED
  BY <1>1, <1>2, <1>3 DEF SearchInv

LEMMA EditorMountsInv ==
    ASSUME (\E known \in BOOLEAN : EditorMounts(known)) \/ EditorUnmounts
    PROVE  SearchInv'
<1>1. SearchTypeOK'
  BY NoneFound DEF EditorMounts, EditorUnmounts, SearchTypeOK
<1>2. ListIsOfTheQuery'
  BY DEF EditorMounts, EditorUnmounts, ListIsOfTheQuery, SearchOffered, NoTimer
<1>3. QED
  BY <1>1, <1>2 DEF SearchInv

LEMMA AffinityWithType ==
    ASSUME SearchTypeOK, NEW t, NEW free \in SUBSET People, AffinityWith(t, free)
    PROVE  affinity' \in [People -> {"unasked", "loading", "resolved"}]
BY DEF AffinityWith, SearchTypeOK

\* An answer that is taken is of what was typed last, and ends the wait.
LEMMA SearchAnswersInv ==
    ASSUME SearchInv, NEW q \in searches, relationships \subseteq People,
           SearchFails(q) \/ \E found \in SUBSET People : SearchArrives(q, found)
    PROVE  SearchInv'
<1>1. q \in Queries /\ searches' \subseteq Queries
  BY DEF SearchInv, SearchTypeOK, SearchFails, SearchArrives
<1>2. CASE ~AnswersQuery(q)
  BY <1>1, <1>2 DEF SearchFails, SearchArrives, SearchInv, SearchTypeOK, ListIsOfTheQuery, SearchOffered
<1>3. CASE AnswersQuery(q)
  <2>1. /\ people'.query = q /\ q = query /\ query' = query
        /\ people' \in [found : SUBSET People, free : SUBSET People, query : Queries]
    <3>1. q = query /\ query' = query
      BY <1>3 DEF SearchFails, SearchArrives, AnswersQuery
    <3>2. \E found, free \in SUBSET People : people' = [found |-> found, free |-> free, query |-> q]
      <4>1. CASE SearchFails(q)
        BY <1>1, <1>3, <4>1, NoneFoundFor DEF SearchFails
      <4>2. CASE \E found \in SUBSET People : SearchArrives(q, found)
        BY <1>3, <4>2 DEF SearchArrives
      <4>3. QED
        BY <4>1, <4>2
    <3>3. QED
      BY <1>1, <3>1, <3>2
  <2>2. candidate' \in OrNoPerson /\ affinity' \in [People -> {"unasked", "loading", "resolved"}]
    <3>1. CASE SearchFails(q)
      BY <1>3, <3>1, NoneFound DEF SearchFails, SearchInv, SearchTypeOK
    <3>2. ASSUME NEW found \in SUBSET People, SearchArrives(q, found)
          PROVE  candidate' \in OrNoPerson /\ affinity' \in [People -> {"unasked", "loading", "resolved"}]
      <4> DEFINE free == found \ relationships
      <4>1. free \in SUBSET People /\ AffinityWith(candidate', free)
        BY <1>3, <3>2 DEF SearchArrives
      <4>2. candidate' \in free \union {NoPerson}
        BY <1>3, <3>2 DEF SearchArrives
      <4>3. QED
        BY <4>1, <4>2, AffinityWithType DEF SearchInv, OrNoPerson
    <3>3. QED
      BY <3>1, <3>2
  <2>3. /\ UNCHANGED <<relationshipEditorOpen, refining, query, searchTimer>>
        /\ discovering' = FALSE
    BY <1>3 DEF SearchFails, SearchArrives
  <2>4. QED
    BY <1>1, <2>1, <2>2, <2>3 DEF SearchInv, SearchTypeOK, ListIsOfTheQuery
<1>4. QED
  BY <1>2, <1>3

LEMMA SearchKeeps ==
    ASSUME SearchInv, DataTypeOK, ConnectionsNext
    PROVE  SearchInv'
<1>1. CASE UNCHANGED editorVars
  BY <1>1 DEF editorVars, SearchInv, SearchTypeOK, ListIsOfTheQuery, SearchOffered
<1>2. CASE \/ (\E known \in BOOLEAN : OpenRelationshipEditor(known)) \/ CloseRelationshipEditor
           \/ (\E p \in People : FriendAdded(p))
  BY <1>2, EditorMountsInv DEF OpenRelationshipEditor, CloseRelationshipEditor, FriendAdded
<1>3. CASE TypeQuery
  <2>1. query + 1 \in Queries /\ query + 1 # NoTimer
    BY <1>3, ConnectionsAssumption DEF TypeQuery, SearchInv, SearchTypeOK, Queries, NoTimer
  <2>2. QED
    BY <1>3, <2>1 DEF TypeQuery, SearchInv, SearchTypeOK, ListIsOfTheQuery
<1>4. CASE SearchStarts
  <2>1. searchTimer \in Queries
    BY <1>4 DEF SearchStarts, SearchInv, SearchTypeOK, NoTimer
  <2>2. QED
    BY <1>4, <2>1 DEF SearchStarts, SearchInv, SearchTypeOK, ListIsOfTheQuery, NoTimer
<1>5. CASE \E q \in searches : SearchFails(q) \/ \E found \in SUBSET People : SearchArrives(q, found)
  BY <1>5, SearchAnswersInv DEF DataTypeOK
<1>6. ASSUME NEW p \in People, ChoosePerson(p) \/ AffinityResolved(p)
      PROVE  SearchInv'
  <2>1. /\ candidate' \in OrNoPerson
        /\ UNCHANGED <<relationshipEditorOpen, refining, query, searchTimer, searches, people, discovering>>
    BY <1>6 DEF ChoosePerson, AffinityResolved, SearchInv, SearchTypeOK, OrNoPerson
  <2>2. affinity' \in [People -> {"unasked", "loading", "resolved"}]
    <3>1. people.free \in SUBSET People
      BY DEF SearchInv, SearchTypeOK
    <3>2. QED
      BY <1>6, <3>1, AffinityWithType DEF ChoosePerson, AffinityResolved, SearchInv, SearchTypeOK
  <2>3. QED
    BY <2>1, <2>2 DEF SearchInv, SearchTypeOK, ListIsOfTheQuery, SearchOffered
<1>7. CASE \/ (\E p \in People : AddFails(p)) \/ AddFriend
           \/ OpenData \/ CloseData \/ PollArrives \/ RefreshData \/ DataLoaded \/ TypeProfile
           \/ SaveProfile \/ ProfilePatched \/ CosmosAnswered \/ SaveProfileFails
  BY <1>1, <1>7 DEF AddFails, AddFriend, OpenData, CloseData, PollArrives, RefreshData, DataLoaded,
     TypeProfile, SaveProfile, ProfilePatched, CosmosAnswered, SaveProfileFails
<1>8. QED
  BY <1>2, <1>3, <1>4, <1>5, <1>6, <1>7 DEF ConnectionsNext

LEMMA ProfileArrivesType ==
    ASSUME DataTypeOK, NEW form \in {"no", "patch", "cosmos", "load"}, ProfileArrives(form)
    PROVE  /\ dataOpen' \in BOOLEAN /\ dataLoads' \in 0..MaxLoads /\ dataLoading' \in BOOLEAN
           /\ profileForm' \in {"stored", "typed"}
           /\ profileSaving' \in {"no", "patch", "cosmos", "load"}
<1>1. CASE dataOpen
  BY <1>1, ConnectionsAssumption DEF ProfileArrives, DataTypeOK
<1>2. CASE ~dataOpen
  BY <1>2 DEF ProfileArrives, DataTypeOK
<1>3. QED
  BY <1>1, <1>2

LEMMA DataKeeps ==
    ASSUME SearchInv, DataTypeOK, ConnectionsNext
    PROVE  DataTypeOK'
<1>1. CASE \/ (\E known \in BOOLEAN : OpenRelationshipEditor(known)) \/ CloseRelationshipEditor
           \/ TypeQuery \/ SearchStarts
           \/ (\E q \in searches : SearchFails(q) \/ \E found \in SUBSET People : SearchArrives(q, found))
           \/ (\E p \in People : ChoosePerson(p) \/ AffinityResolved(p) \/ AddFails(p))
  <2>1. adding' \subseteq adding /\ UNCHANGED <<relationships, dataVars>>
    BY <1>1 DEF OpenRelationshipEditor, CloseRelationshipEditor, TypeQuery, SearchStarts, SearchFails,
       SearchArrives, ChoosePerson, AffinityResolved, AddFails
  <2>2. QED
    BY <2>1 DEF DataTypeOK, dataVars
<1>2. CASE AddFriend
  <2>1. candidate \in People
    <3>1. people.free \subseteq People
      BY DEF SearchInv, SearchTypeOK
    <3>2. QED
      BY <1>2, <3>1, ConnectionsAssumption DEF AddFriend, AddOffered, SelectedPerson
  <2>2. QED
    BY <1>2, <2>1 DEF AddFriend, DataTypeOK, dataVars
<1>3. CASE (\E p \in People : FriendAdded(p)) \/ PollArrives \/ ProfilePatched
  <2>1. PICK form \in {"no", "patch", "cosmos", "load"} : ProfileArrives(form)
    BY <1>3 DEF FriendAdded, PollArrives, ProfilePatched, DataTypeOK
  <2>2. adding' \subseteq adding /\ relationships' \subseteq People
    BY <1>3 DEF FriendAdded, PollArrives, ProfilePatched, DataTypeOK
  <2>3. QED
    BY <2>1, <2>2, ProfileArrivesType DEF DataTypeOK
<1>4. CASE \/ OpenData \/ CloseData \/ RefreshData \/ DataLoaded \/ TypeProfile
           \/ SaveProfile \/ CosmosAnswered \/ SaveProfileFails
  <2>1. dataLoads' \in 0..MaxLoads
    BY <1>4, ConnectionsAssumption DEF OpenData, CloseData, RefreshData, DataLoaded, TypeProfile,
       SaveProfile, CosmosAnswered, SaveProfileFails, DataTypeOK
  <2>2. profileForm' \in {"stored", "typed"} /\ profileSaving' \in {"no", "patch", "cosmos", "load"}
    BY <1>4 DEF OpenData, CloseData, RefreshData, DataLoaded, TypeProfile, SaveProfile, CosmosAnswered,
       SaveProfileFails, DataTypeOK
  <2>3. dataOpen' \in BOOLEAN /\ dataLoading' \in BOOLEAN /\ UNCHANGED <<adding, relationships>>
    BY <1>4 DEF OpenData, CloseData, RefreshData, DataLoaded, TypeProfile, SaveProfile, CosmosAnswered,
       SaveProfileFails, DataTypeOK
  <2>4. QED
    BY <2>1, <2>2, <2>3 DEF DataTypeOK
<1>5. QED
  BY <1>1, <1>2, <1>3, <1>4 DEF ConnectionsNext

LEMMA ConnectionsInductive == ConnectionsSpec => [](SearchInv /\ DataTypeOK)
<1>1. SearchInv /\ DataTypeOK /\ UNCHANGED connectionVars => (SearchInv /\ DataTypeOK)'
  BY DEF connectionVars, editorVars, dataVars, SearchInv, SearchTypeOK, DataTypeOK, ListIsOfTheQuery,
     SearchOffered
<1>2. SearchInv /\ DataTypeOK /\ [ConnectionsNext]_connectionVars => (SearchInv /\ DataTypeOK)'
  BY <1>1, SearchKeeps, DataKeeps
<1>3. QED
  BY <1>2, ConnectionsInitInv, PTL DEF ConnectionsSpec

\* Adding a friend and the data of the cosmos stay in their types.
THEOREM ConnectionsTypes == ConnectionsSpec => []ConnectionsTypeOK
<1>1. SearchInv /\ DataTypeOK => ConnectionsTypeOK
  BY DEF SearchInv, SearchTypeOK, DataTypeOK, ConnectionsTypeOK
<1>2. QED
  BY <1>1, ConnectionsInductive, PTL

\* ListIsOfTheQuery: once nothing waits, the people listed are those of what was typed
\* last, in whatever order the searches were answered (RelationshipEditor.tsx).
THEOREM ListAnswersTheQuery == ConnectionsSpec => []ListIsOfTheQuery
<1>1. SearchInv => ListIsOfTheQuery
  BY DEF SearchInv
<1>2. QED
  BY <1>1, ConnectionsInductive, PTL

(***************************************************************************)
(* Onboarding: a world is made once, then edited.  Whatever is on its way  *)
(* when an editor is closed, the drafts are those of the world that the    *)
(* server has, or a request that loads it is still to be answered.         *)
(***************************************************************************)

\* Two worlds that differ in what is computed for them only.
SameWorld(a, b) == a # NoWorld /\ b # NoWorld /\ a.name = b.name /\ a.look = b.look

\* The requests that wait with the flow, and those that make a world.
Waiting(t) == t.kind \in {"saveGuide", "launch", "enter"}
Making(t) == t.kind \in {"launch", "enter"}

\* While a world is made there is one such request; what it makes is in the drafts, which
\* cannot be edited until it has answered.
MakesDrafts(t) ==
    Making(t) /\ t.body.name # "" => /\ onStep \in {"profile", "matching", "review"}
                                     /\ SameWorld(t.body, drafts)
HasMade(t) == t.kind = "enter" => t.body.name # "" /\ SameWorld(t.body, stored)

Creating ==
    /\ screen = "onboarding" /\ mounted /\ ~editing
    /\ \A i \in Slots : /\ tasks[i].kind \in {"none", "discover", "connect", "leave"} \/ Waiting(tasks[i])
                        /\ tasks[i].kind # "none" => tasks[i].live
                        /\ Waiting(tasks[i]) => saving
                        /\ MakesDrafts(tasks[i]) /\ HasMade(tasks[i])
    /\ \A i, j \in Slots : Waiting(tasks[i]) /\ Waiting(tasks[j]) => i = j

Reloading == \E i \in Slots : tasks[i].kind = "reload"

\* In the universe nothing is made anew; the planet is the stored world unless it is loaded
\* again or could not be, and so are the drafts, outside an editor.
HasWorld ==
    /\ screen = "universe" /\ (mounted => editing) /\ (~mounted => intake = "none")
    /\ planet # NoWorld /\ stored # NoWorld
    /\ \A i \in Slots : ~Making(tasks[i])
    /\ \/ unseen \/ Reloading
       \/ SameWorld(planet, stored) /\ (mounted \/ SameWorld(drafts, planet))

\* What is created is a world.
CreatesWorlds == \A i \in Slots : tasks[i].kind \in {"create", "launch"} => tasks[i].body \in Worlds

OnboardingInv == OnboardingTypeOK /\ CreatesWorlds /\ (signedIn => Creating \/ HasWorld)

LEMMA TasksAre ==
    /\ NoTask \notin Tasks /\ NoTask.kind = "none" /\ ~NoTask.live
    /\ \A t \in Tasks : t.kind \in TaskKinds /\ t.live \in BOOLEAN /\ t.body \in Worlds \union {NoWorld}
                        /\ t.kind # "none"
BY DEF NoTask, TaskOf, Tasks, TaskKinds

LEMMA TaskFields ==
    ASSUME NEW ts \in [Slots -> Tasks \union {NoTask}]
    PROVE  /\ \A i \in Slots, kind \in TaskKinds, live \in BOOLEAN, body \in Worlds \union {NoWorld} :
                 [ts EXCEPT ![i] = TaskOf(kind, live, body)] \in [Slots -> Tasks \union {NoTask}]
           /\ \A i \in Slots : [ts EXCEPT ![i] = NoTask] \in [Slots -> Tasks \union {NoTask}]
           /\ Orphaned(ts) \in [Slots -> Tasks \union {NoTask}]
<1>1. \A kind \in TaskKinds, live \in BOOLEAN, body \in Worlds \union {NoWorld} :
         TaskOf(kind, live, body) \in Tasks
  BY DEF TaskOf, Tasks
<1>2. ASSUME NEW t \in Tasks \union {NoTask}
      PROVE  TaskOf(t.kind, FALSE, t.body) \in Tasks \union {NoTask}
  <2>1. CASE t \in Tasks
    <3>1. t.kind \in TaskKinds /\ t.body \in Worlds \union {NoWorld}
      BY <2>1 DEF Tasks
    <3>2. QED
      BY <3>1, <1>1
  <2>2. CASE t = NoTask
    <3>1. t.kind = "none" /\ t.body = NoWorld
      BY <2>2 DEF NoTask, TaskOf
    <3>2. QED
      BY <3>1 DEF NoTask
  <2>3. QED
    BY <2>1, <2>2
<1>3. ASSUME NEW i \in Slots, NEW t \in Tasks \union {NoTask}
      PROVE  [ts EXCEPT ![i] = t] \in [Slots -> Tasks \union {NoTask}]
  OBVIOUS
<1>4. Orphaned(ts) \in [Slots -> Tasks \union {NoTask}]
  <2> DEFINE none == Tasks \union {NoTask}
  <2>1. \A i \in Slots : ts[i] \in none
    OBVIOUS
  <2>2. \A i \in Slots : TaskOf(ts[i].kind, FALSE, ts[i].body) \in none
    BY <2>1, <1>2
  <2> HIDE DEF none
  <2>3. [i \in Slots |-> TaskOf(ts[i].kind, FALSE, ts[i].body)] \in [Slots -> none]
    BY <2>2
  <2>4. QED
    BY <2>3 DEF none, Orphaned
<1>5. QED
  BY <1>1, <1>3, <1>4

\* A request in its slot: its kind is known by the slot it has.
LEMMA OrphansKeepKinds ==
    ASSUME NEW ts \in [Slots -> Tasks \union {NoTask}], NEW i \in Slots
    PROVE  /\ Orphaned(ts)[i].kind = ts[i].kind /\ Orphaned(ts)[i].body = ts[i].body
           /\ ~Orphaned(ts)[i].live
BY DEF Orphaned, Tasks, NoTask, TaskOf

AskedTypeOK == tasks \in [Slots -> Tasks \union {NoTask}]

LEMMA AskType ==
    ASSUME OnboardingTypeOK, NEW kind \in TaskKinds, NEW body \in Worlds \union {NoWorld},
           Ask(kind, body)
    PROVE  tasks' \in [Slots -> Tasks \union {NoTask}]
<1>1. PICK i \in Slots : tasks' = [tasks EXCEPT ![i] = TaskOf(kind, TRUE, body)]
  BY DEF Ask
<1>2. tasks \in [Slots -> Tasks \union {NoTask}]
  BY DEF OnboardingTypeOK
<1>3. QED
  BY <1>1, <1>2, TaskFields

LEMMA StepNames == OnSteps[1] = "personality" /\ OnSteps[2] = "planet" /\ OnSteps[3] = "profile"
                   /\ OnSteps[4] = "matching" /\ OnSteps[5] = "review"
BY DEF OnSteps

LEMMA StepSet ==
    {OnSteps[i] : i \in 1..5} = {"personality", "planet", "profile", "matching", "review"}
<1>1. \A i \in 1..5 : i = 1 \/ i = 2 \/ i = 3 \/ i = 4 \/ i = 5
  OBVIOUS
<1>2. QED
  BY <1>1, StepNames

LEMMA OnboardingInitType == OnboardingInit => OnboardingTypeOK
<1> SUFFICES ASSUME OnboardingInit PROVE OnboardingTypeOK
  OBVIOUS
<1>1. PICK look \in Looks :
         drafts = IF screen = "onboarding" THEN BlankDraft(look)
                  ELSE [BlankDraft(look) EXCEPT !.name = "A world", !.radius = "scored"]
  BY DEF OnboardingInit
<1>2. drafts \in Worlds
  BY <1>1 DEF BlankDraft, Worlds, Names
<1>3. QED
  <2>1. onStep \in {OnSteps[i] : i \in 1..5}
    BY StepSet DEF OnboardingInit
  <2>2. tasks \in [Slots -> Tasks \union {NoTask}]
    BY DEF OnboardingInit, NoTasks
  <2>3. field \in 0..LastField
    BY OnboardingAssumption DEF OnboardingInit
  <2>4. /\ screen \in {"auth", "onboarding", "universe"} /\ intake \in {"none", "asked"}
        /\ planet \in Worlds \union {NoWorld} /\ ritual \in Rituals \union Prelude
    BY <1>2 DEF OnboardingInit, Rituals
  <2>5. mounted \in BOOLEAN
    BY DEF OnboardingInit
  <2>6. QED
    BY <1>2, <2>1, <2>2, <2>3, <2>4, <2>5 DEF OnboardingInit, OnboardingTypeOK

FlowTypeOK ==
    /\ mounted \in BOOLEAN /\ editing \in BOOLEAN
    /\ onStep \in {"personality", "planet", "profile", "matching", "review"} /\ persona \in BOOLEAN
    /\ field \in 0..LastField /\ intake \in {"none", "asked"}
    /\ creation \in {"idle", "ritual", "prelude"} /\ ritual \in Rituals \union Prelude

WorldTypeOK ==
    /\ screen \in {"auth", "onboarding", "universe"} /\ signedIn \in BOOLEAN
    /\ drafts \in Worlds /\ planet \in Worlds \union {NoWorld}
    /\ stored \in Worlds \union {NoWorld} /\ unseen \in BOOLEAN

LEMMA OnboardingTypeParts ==
    OnboardingTypeOK <=> WorldTypeOK /\ FlowTypeOK /\ saving \in BOOLEAN /\ AskedTypeOK
BY StepSet DEF OnboardingTypeOK, WorldTypeOK, FlowTypeOK, AskedTypeOK

LEMMA TypePartsNext ==
    WorldTypeOK' /\ FlowTypeOK' /\ saving' \in BOOLEAN /\ AskedTypeOK' => OnboardingTypeOK'
BY StepSet DEF OnboardingTypeOK, WorldTypeOK, FlowTypeOK, AskedTypeOK

LEMMA StepIndexIs ==
    ASSUME FlowTypeOK
    PROVE  /\ StepIndex \in 1..5 /\ OnSteps[StepIndex] = onStep
           /\ StepIndex > 1 => OnSteps[StepIndex - 1] \in
                 CASE onStep = "planet" -> {"personality"} [] onStep = "profile" -> {"planet"}
                   [] onStep = "matching" -> {"profile"} [] OTHER -> {"matching"}
<1>1. \E i \in 1..5 : OnSteps[i] = onStep
  <2>1. onStep \in {OnSteps[i] : i \in 1..5}
    BY StepSet DEF FlowTypeOK
  <2>2. QED
    BY <2>1
<1>2. StepIndex \in 1..5 /\ OnSteps[StepIndex] = onStep
  BY <1>1 DEF StepIndex
<1>3. StepIndex = 1 \/ StepIndex = 2 \/ StepIndex = 3 \/ StepIndex = 4 \/ StepIndex = 5
  BY <1>2
<1>4. QED
  BY <1>2, <1>3, StepNames

LEMMA RitualAfterType == \A r \in Rituals \union Prelude : RitualAfter(r) \in Rituals
BY DEF RitualAfter, Rituals, Prelude

\* The steps at which a world may be in the making.
AfterPlanet == {"profile", "matching", "review"}

\* A step that moves the flow opens an editor or keeps what is mounted, and goes back to the
\* choice of the planet only when nothing is saved.
Moved ==
    /\ FlowTypeOK' /\ UNCHANGED <<accountVars, drafts, saving, tasks>>
    /\ IF mounted THEN mounted' /\ editing' = editing ELSE mounted' => editing'
    /\ ~mounted' => intake' \in {intake, "none"}
    /\ ~editing /\ mounted /\ saving /\ onStep \in AfterPlanet => onStep' \in AfterPlanet

LEMMA RitualsMove ==
    ASSUME FlowTypeOK, RitualStep \/ RitualFinishes(TRUE) \/ PreludeFinishes(TRUE)
    PROVE  Moved
<1>1. PICK c \in {"idle", "ritual", "prelude"}, r \in Rituals \union Prelude, s \in {onStep, "profile"} :
         RitualMoves(c, r, s)
  <2>1. RitualAfter(ritual) \in Rituals
    BY RitualAfterType DEF FlowTypeOK
  <2>2. CASE RitualTimer \/ FormationFrame
    BY <2>1, <2>2 DEF RitualTimer, FormationFrame
  <2>3. CASE RitualFinishes(TRUE) \/ RitualFinishes(FALSE) \/ PreludeLine
    BY <2>3 DEF RitualFinishes, PreludeLine, Prelude
  <2>4. CASE PreludeFinishes(TRUE) \/ PreludeFinishes(FALSE)
    BY <2>4 DEF PreludeFinishes, Rituals
  <2>5. QED
    BY <2>2, <2>3, <2>4 DEF RitualStep
<1>2. QED
  BY <1>1 DEF RitualMoves, Moved, FlowTypeOK, accountVars, AfterPlanet

LEMMA FlowMoves ==
    ASSUME FlowTypeOK, saving \in BOOLEAN,
           \/ NextStep \/ BeginRitual \/ GoBack \/ NextField \/ OpenEditor \/ IntakeFails
           \/ \E i \in 1..5 : Navigate(OnSteps[i])
    PROVE  Moved
<1>1. ASSUME NEW s \in {"personality", "planet", "profile", "matching", "review"}, GoTo(s),
             mounted, editing \/ ~saving \/ onStep \notin AfterPlanet \/ s \in AfterPlanet
      PROVE  Moved
  BY <1>1 DEF GoTo, Moved, FlowTypeOK, accountVars
<1>2. ASSUME NEW f \in 0..LastField, GoToField(f)
      PROVE  Moved
  BY <1>2 DEF GoToField, Moved, FlowTypeOK, accountVars
<1>3. CASE NextStep
  BY <1>1, <1>3 DEF NextStep, NextEnabled, FooterShown
<1>4. CASE BeginRitual
  BY <1>4 DEF BeginRitual, Moved, FlowTypeOK, accountVars, Rituals, NextEnabled, FooterShown
<1>5. CASE GoBack
  <2>1. CASE onStep = "profile" /\ field > 0
    <3>1. field - 1 \in 0..LastField
      BY <2>1, OnboardingAssumption DEF FlowTypeOK
    <3>2. QED
      BY <1>2, <1>5, <2>1, <3>1 DEF GoBack
  <2>2. CASE ~(onStep = "profile" /\ field > 0)
    <3>1. StepIndex > 1 /\ GoTo(OnSteps[StepIndex - 1])
      BY <1>5, <2>2 DEF GoBack
    <3>2. mounted /\ (onStep = "profile" => editing \/ ~saving)
      BY <1>5 DEF GoBack, FooterShown, JourneyEnabled, GuideFormShown, StepShown
    <3>3. PICK s \in {"personality", "planet", "profile", "matching"} :
             /\ GoTo(s)
             /\ onStep \in {"matching", "review"} => s \in AfterPlanet
      BY <3>1, StepIndexIs DEF AfterPlanet
    <3>4. QED
      BY <1>1, <3>2, <3>3 DEF AfterPlanet
  <2>3. QED
    BY <2>1, <2>2
<1>6. CASE NextField
  <2>1. field + 1 \in 0..LastField
    BY <1>6, OnboardingAssumption DEF NextField, FlowTypeOK
  <2>2. QED
    BY <1>2, <1>6, <2>1 DEF NextField
<1>7. CASE OpenEditor
  <2>1. 0 \in 0..LastField
    BY OnboardingAssumption
  <2>2. QED
    BY <1>7, <2>1 DEF OpenEditor, Moved, FlowTypeOK, accountVars
<1>8. CASE IntakeFails
  BY <1>8 DEF IntakeFails, Moved, FlowTypeOK, accountVars
<1>9. CASE \E i \in 1..5 : Navigate(OnSteps[i])
  <2>1. PICK i \in 1..5 : Navigate(OnSteps[i])
    BY <1>9
  <2>2. OnSteps[i] \in {"personality", "planet", "profile", "matching", "review"}
    BY StepSet
  <2>3. QED
    BY <1>1, <2>1, <2>2 DEF Navigate, HeaderShown
<1>10. QED
  BY <1>3, <1>4, <1>5, <1>6, <1>7, <1>8, <1>9

\* Moving the flow keeps the worlds and the requests as they are.
LEMMA MovedKeeps ==
    ASSUME OnboardingInv, Moved
    PROVE  OnboardingInv'
<1>1. OnboardingTypeOK' /\ CreatesWorlds'
  BY OnboardingTypeParts, TypePartsNext
     DEF Moved, OnboardingInv, WorldTypeOK, AskedTypeOK, accountVars, CreatesWorlds
<1>2. CASE Creating
  <2>1. screen' = "onboarding" /\ mounted' /\ ~editing'
    BY <1>2 DEF Creating, Moved, accountVars
  <2>2. tasks' = tasks /\ drafts' = drafts /\ stored' = stored /\ saving' = saving
    BY DEF Moved, accountVars
  <2>3. \A i \in Slots : MakesDrafts(tasks[i])'
    BY <1>2, <2>2 DEF Moved, Creating, MakesDrafts, Making, Waiting, AfterPlanet, SameWorld
  <2>4. Creating'
    BY <1>2, <2>1, <2>2, <2>3 DEF Creating, Waiting, HasMade, SameWorld
  <2>5. QED
    BY <1>1, <2>4 DEF OnboardingInv
<1>3. CASE HasWorld
  <2>1. HasWorld'
    BY <1>3 DEF HasWorld, Moved, accountVars, Making, Reloading, SameWorld
  <2>2. QED
    BY <1>1, <2>1 DEF OnboardingInv
<1>4. CASE ~signedIn
  BY <1>1, <1>4 DEF OnboardingInv, Moved, accountVars
<1>5. QED
  BY <1>2, <1>3, <1>4 DEF OnboardingInv

LEMMA IntakeKeeps ==
    ASSUME OnboardingInv, NEW look \in Looks, NEW known \in BOOLEAN, IntakeAnswer(known, look)
    PROVE  OnboardingInv'
<1>1. drafts' \in Worlds /\ (drafts.name # "" => drafts' = drafts)
  BY DEF OnboardingInv, OnboardingTypeOK, IntakeAnswer, FirstOption, Worlds, Names
<1>2. OnboardingTypeOK' /\ CreatesWorlds'
  <2>1. persona \in BOOLEAN /\ persona' = (persona \/ known)
    BY DEF OnboardingInv, OnboardingTypeOK, IntakeAnswer
  <2>2. persona' \in BOOLEAN
    BY <2>1, Zenon
  <2>3. /\ intake' = "none"
        /\ UNCHANGED <<accountVars, mounted, editing, onStep, field, creation, ritual, saving, tasks>>
    BY DEF IntakeAnswer
  <2>4. WorldTypeOK /\ FlowTypeOK /\ saving \in BOOLEAN /\ AskedTypeOK
    BY OnboardingTypeParts DEF OnboardingInv
  <2>5. FlowTypeOK'
    BY <2>2, <2>3, <2>4 DEF FlowTypeOK
  <2>6. WorldTypeOK' /\ saving' \in BOOLEAN /\ AskedTypeOK'
    BY <1>1, <2>3, <2>4 DEF WorldTypeOK, AskedTypeOK, accountVars
  <2>7. CreatesWorlds'
    BY <2>3 DEF OnboardingInv, CreatesWorlds
  <2>8. QED
    BY <2>5, <2>6, <2>7, TypePartsNext
<1>3. CASE Creating
  <2>1. \A i \in Slots : MakesDrafts(tasks[i])'
    BY <1>1, <1>3 DEF IntakeAnswer, Creating, MakesDrafts, Making, SameWorld
  <2>2. Creating'
    BY <1>3, <2>1 DEF Creating, IntakeAnswer, accountVars, Waiting, HasMade, SameWorld
  <2>3. QED
    BY <1>2, <2>2 DEF OnboardingInv
<1>4. CASE HasWorld
  <2>1. HasWorld'
    BY <1>4 DEF HasWorld, IntakeAnswer, accountVars, Making, Reloading, SameWorld
  <2>2. QED
    BY <1>2, <2>1 DEF OnboardingInv
<1>5. CASE ~signedIn
  BY <1>2, <1>5 DEF OnboardingInv, IntakeAnswer, accountVars
<1>6. QED
  BY <1>3, <1>4, <1>5 DEF OnboardingInv

LEMMA ChoicesKeep ==
    ASSUME OnboardingInv, NEW d \in Worlds, DraftChanges(d), persona' \in BOOLEAN,
           mounted, onStep \in {"personality", "planet"}
    PROVE  OnboardingInv'
<1>1. OnboardingTypeOK' /\ CreatesWorlds'
  BY OnboardingTypeParts, TypePartsNext
     DEF DraftChanges, IntakeFollows, OnboardingInv, WorldTypeOK, FlowTypeOK, AskedTypeOK, accountVars,
         CreatesWorlds
<1>2. CASE Creating
  <2>1. \A i \in Slots : MakesDrafts(tasks[i])'
    BY <1>2 DEF DraftChanges, Creating, MakesDrafts, Making
  <2>2. Creating'
    BY <1>2, <2>1 DEF Creating, DraftChanges, accountVars, Waiting, HasMade, SameWorld
  <2>3. QED
    BY <1>1, <2>2 DEF OnboardingInv
<1>3. CASE HasWorld
  <2>1. HasWorld'
    BY <1>3 DEF HasWorld, DraftChanges, accountVars, Making, Reloading, SameWorld
  <2>2. QED
    BY <1>1, <2>1 DEF OnboardingInv
<1>4. CASE ~signedIn
  BY <1>1, <1>4 DEF OnboardingInv, DraftChanges, accountVars
<1>5. QED
  BY <1>2, <1>3, <1>4 DEF OnboardingInv

\* A request is made: one that waits only when none does.
LEMMA AskKeeps ==
    ASSUME OnboardingInv, NEW kind \in TaskKinds, NEW body \in Worlds \union {NoWorld}, Ask(kind, body),
           UNCHANGED <<accountVars, drafts, flowVars>>, saving' \in BOOLEAN,
           kind \in {"connect", "leave"} => saving' = saving,
           kind \notin {"connect", "leave"} => saving' = TRUE,
           ~editing => \/ kind \in {"connect", "leave"}
                       \/ kind = "saveGuide" /\ ~saving
                       \/ kind = "launch" /\ ~saving /\ onStep = "review" /\ body = drafts,
           mounted, editing => kind \notin {"launch", "enter"}, kind # "create",
           kind = "launch" => body \in Worlds
    PROVE  OnboardingInv'
<1>1. PICK i \in Slots : /\ tasks[i] = NoTask
                         /\ tasks' = [tasks EXCEPT ![i] = TaskOf(kind, TRUE, body)]
  BY DEF Ask
<1>2. /\ tasks \in [Slots -> Tasks \union {NoTask}] /\ tasks' \in [Slots -> Tasks \union {NoTask}]
      /\ drafts \in Worlds /\ drafts # NoWorld
  BY AskType, OnboardingAssumption DEF OnboardingInv, OnboardingTypeOK
<1>10. OnboardingTypeOK'
  BY <1>2, OnboardingTypeParts, TypePartsNext
     DEF OnboardingInv, WorldTypeOK, FlowTypeOK, AskedTypeOK, accountVars, flowVars
<1>4. /\ tasks'[i].kind = kind /\ tasks'[i].live /\ tasks'[i].body = body
      /\ \A j \in Slots \ {i} : tasks'[j] = tasks[j]
      /\ tasks[i].kind = "none"
  BY <1>1, <1>2 DEF TaskOf, NoTask
<1>3. OnboardingTypeOK' /\ CreatesWorlds'
  BY <1>2, <1>4, <1>10 DEF OnboardingInv, CreatesWorlds
<1>5. UNCHANGED <<screen, signedIn, planet, stored, unseen, drafts, mounted, editing, onStep, intake>>
  BY DEF accountVars, flowVars
<1>6. CASE Creating
  <2>1. \A j \in Slots \ {i} : MakesDrafts(tasks[j])' /\ HasMade(tasks[j])'
    <3> SUFFICES ASSUME NEW j \in Slots \ {i} PROVE MakesDrafts(tasks[j])' /\ HasMade(tasks[j])'
      OBVIOUS
    <3>1. tasks'[j] = tasks[j] /\ MakesDrafts(tasks[j]) /\ HasMade(tasks[j])
      BY <1>4, <1>6 DEF Creating
    <3>2. QED
      BY <1>5, <3>1 DEF MakesDrafts, Making, HasMade, SameWorld
  <2>2. MakesDrafts(tasks[i])' /\ HasMade(tasks[i])'
    BY <1>2, <1>4, <1>5, <1>6 DEF Creating, MakesDrafts, Making, HasMade, SameWorld
  <2>3. \A j, k \in Slots : Waiting(tasks[j])' /\ Waiting(tasks[k])' => j = k
    BY <1>4, <1>6 DEF Creating, Waiting
  <2>4. \A j \in Slots : Waiting(tasks[j])' => saving'
    BY <1>4, <1>6 DEF Creating, Waiting
  <2>5. \A j \in Slots : /\ tasks'[j].kind \in {"none", "discover", "connect", "leave"}
                                \/ Waiting(tasks[j])'
                         /\ tasks'[j].kind # "none" => tasks'[j].live
    BY <1>4, <1>6 DEF Creating, Waiting
  <2>6. Creating'
    BY <1>5, <1>6, <2>1, <2>2, <2>3, <2>4, <2>5 DEF Creating
  <2>7. QED
    BY <1>3, <2>6 DEF OnboardingInv
<1>7. CASE HasWorld
  <2>1. \A j \in Slots : ~Making(tasks[j])'
    BY <1>4, <1>7 DEF HasWorld, Making
  <2>2. Reloading => Reloading'
    BY <1>4 DEF Reloading
  <2>3. HasWorld'
    BY <1>5, <1>7, <2>1, <2>2 DEF HasWorld, SameWorld
  <2>4. QED
    BY <1>3, <2>3 DEF OnboardingInv
<1>8. CASE ~signedIn
  BY <1>3, <1>5, <1>8 DEF OnboardingInv
<1>9. QED
  BY <1>6, <1>7, <1>8 DEF OnboardingInv

\* What the buttons of the flow ask for.
LEMMA ButtonsKeep ==
    ASSUME OnboardingInv, SaveReview \/ SaveGuide \/ ConnectUser \/ ReturnToAuth
    PROVE  OnboardingInv'
<1>1. /\ drafts \in Worlds /\ saving \in BOOLEAN
      /\ {"saveReview", "launch", "saveGuide", "connect", "leave"} \subseteq TaskKinds
  BY DEF OnboardingInv, OnboardingTypeOK, TaskKinds
<1>2. CASE SaveReview
  BY <1>1, <1>2, AskKeeps DEF SaveReview, ReviewShown, StepShown, NextEnabled
<1>3. CASE SaveGuide
  BY <1>1, <1>3, AskKeeps DEF SaveGuide, GuideEnabled, JourneyEnabled, GuideFormShown, StepShown
<1>4. CASE ConnectUser
  BY <1>1, <1>4, AskKeeps DEF ConnectUser, MatchingShown, StepShown
<1>5. CASE ReturnToAuth
  BY <1>1, <1>5, AskKeeps DEF ReturnToAuth, HeaderShown
<1>6. QED
  BY <1>2, <1>3, <1>4, <1>5


-----------------------------------------------------------------------------
(* The answers, and the end of an editor. *)

LEMMA UnmountedTypes == Unmounts => FlowTypeOK' /\ saving' \in BOOLEAN
<1>1. 0 \in 0..LastField
  BY OnboardingAssumption
<1>2. QED
  BY <1>1 DEF Unmounts, FlowTypeOK, Rituals

LEMMA CloseKeeps ==
    ASSUME OnboardingInv, CloseEditor
    PROVE  OnboardingInv'
<1>1. /\ tasks \in [Slots -> Tasks \union {NoTask}] /\ tasks' = Orphaned(tasks)
      /\ drafts \in Worlds /\ planet \in Worlds \union {NoWorld}
  BY DEF OnboardingInv, OnboardingTypeOK, CloseEditor
<1>8. OnboardingTypeOK'
  BY <1>1, TaskFields, UnmountedTypes, OnboardingTypeParts, TypePartsNext
     DEF CloseEditor, OnboardingInv, WorldTypeOK, AskedTypeOK, accountVars
<1>3. \A i \in Slots : tasks'[i].kind = tasks[i].kind /\ tasks'[i].body = tasks[i].body
  BY <1>1, OrphansKeepKinds
<1>2. OnboardingTypeOK' /\ CreatesWorlds'
  BY <1>3, <1>8 DEF OnboardingInv, CreatesWorlds
<1>4. CASE HasWorld
  <2>1. HasWorld'
    BY <1>3, <1>4 DEF HasWorld, CloseEditor, Unmounts, accountVars, Making, Reloading, SameWorld
  <2>2. QED
    BY <1>2, <2>1 DEF OnboardingInv
<1>5. CASE Creating
  BY <1>5 DEF Creating, CloseEditor
<1>6. CASE ~signedIn
  BY <1>2, <1>6 DEF OnboardingInv, CloseEditor, accountVars
<1>7. QED
  BY <1>4, <1>5, <1>6 DEF OnboardingInv

\* What the answer of a request leaves of the others, and of itself.
LEMMA Freeing ==
    ASSUME OnboardingTypeOK, NEW i \in Slots
    PROVE  /\ Freed(i) \in [Slots -> Tasks \union {NoTask}] /\ Freed(i)[i] = NoTask
           /\ \A j \in Slots \ {i} : Freed(i)[j] = tasks[j]
BY TaskFields DEF OnboardingTypeOK, Freed

LEMMA Continuing ==
    ASSUME OnboardingTypeOK, NEW i \in Slots, NEW kind \in TaskKinds, NEW body \in Worlds \union {NoWorld},
           tasks[i].kind \in TaskKinds, Continue(i, kind, body)
    PROVE  /\ tasks' \in [Slots -> Tasks \union {NoTask}]
           /\ \A j \in Slots \ {i} : tasks'[j] = tasks[j]
           /\ tasks'[i].kind = kind /\ tasks'[i].body = body /\ tasks'[i].live = tasks[i].live
<1>1. tasks \in [Slots -> Tasks \union {NoTask}] /\ tasks[i] \in Tasks
  BY TasksAre DEF OnboardingTypeOK, TaskKinds
<1>2. tasks[i].live \in BOOLEAN
  BY <1>1, TasksAre
<1>3. tasks' = [tasks EXCEPT ![i] = TaskOf(kind, tasks[i].live, body)]
  BY DEF Continue
<1>4. tasks' \in [Slots -> Tasks \union {NoTask}]
  BY <1>1, <1>2, <1>3, TaskFields
<1>5. QED
  BY <1>1, <1>3, <1>4 DEF TaskOf

\* An answer that ends its request, and moves the flow at most to the people it has found.
LEMMA EndKeeps ==
    ASSUME OnboardingInv, NEW i \in Slots, Done(i),
           UNCHANGED <<screen, signedIn, stored, drafts, mounted, editing, persona, field, creation, ritual>>,
           onStep' \in {onStep, "matching"}, intake' \in {intake, "none"},
           saving' \in {saving, FALSE}, Waiting(tasks[i]) \/ ~tasks[i].live \/ saving' = saving \/ ~Creating,
           planet' \in {planet, stored}, unseen' \in {unseen, TRUE},
           tasks[i].kind = "reload" => unseen', tasks[i].kind # "none"
    PROVE  OnboardingInv'
<1>1. /\ tasks' \in [Slots -> Tasks \union {NoTask}] /\ tasks'[i] = NoTask
      /\ \A j \in Slots \ {i} : tasks'[j] = tasks[j]
  BY Freeing DEF Done, OnboardingInv
<1>3. tasks'[i].kind = "none"
  BY <1>1, TasksAre
<1>2. OnboardingTypeOK' /\ CreatesWorlds'
  <2>1. WorldTypeOK /\ FlowTypeOK /\ saving \in BOOLEAN
    BY OnboardingTypeParts DEF OnboardingInv
  <2>2. FlowTypeOK'
    BY <2>1 DEF FlowTypeOK
  <2>3. WorldTypeOK' /\ saving' \in BOOLEAN
    BY <2>1 DEF WorldTypeOK
  <2>4. CreatesWorlds'
    BY <1>1, <1>3 DEF OnboardingInv, CreatesWorlds
  <2>5. QED
    BY <1>1, <2>2, <2>3, <2>4, TypePartsNext DEF AskedTypeOK
<1>4. CASE Creating
  <2>1. \A j \in Slots \ {i} : MakesDrafts(tasks[j])' /\ HasMade(tasks[j])'
    <3> SUFFICES ASSUME NEW j \in Slots \ {i} PROVE MakesDrafts(tasks[j])' /\ HasMade(tasks[j])'
      OBVIOUS
    <3>1. tasks'[j] = tasks[j] /\ MakesDrafts(tasks[j]) /\ HasMade(tasks[j])
      BY <1>1, <1>4 DEF Creating
    <3>2. QED
      BY <3>1 DEF MakesDrafts, Making, HasMade, SameWorld
  <2>2. MakesDrafts(tasks[i])' /\ HasMade(tasks[i])'
    BY <1>3 DEF MakesDrafts, Making, HasMade
  <2>3. \A j, k \in Slots : Waiting(tasks[j])' /\ Waiting(tasks[k])' => j = k
    BY <1>1, <1>3, <1>4 DEF Creating, Waiting
  <2>4. \A j \in Slots : Waiting(tasks[j])' => saving'
    BY <1>1, <1>3, <1>4 DEF Creating, Waiting
  <2>5. \A j \in Slots : /\ tasks'[j].kind \in {"none", "discover", "connect", "leave"}
                                \/ Waiting(tasks[j])'
                         /\ tasks'[j].kind # "none" => tasks'[j].live
    BY <1>1, <1>3, <1>4 DEF Creating, Waiting
  <2>6. Creating'
    BY <1>4, <2>1, <2>2, <2>3, <2>4, <2>5 DEF Creating
  <2>7. QED
    BY <1>2, <2>6 DEF OnboardingInv
<1>5. CASE HasWorld
  <2>1. \A j \in Slots : ~Making(tasks[j])'
    BY <1>1, <1>3, <1>5 DEF HasWorld, Making
  <2>2. Reloading => Reloading' \/ unseen'
    BY <1>1 DEF Reloading
  <2>3. SameWorld(planet, stored) => planet' # NoWorld /\ SameWorld(planet', stored')
    BY DEF SameWorld
  <2>4. HasWorld'
    BY <1>5, <2>1, <2>2, <2>3 DEF HasWorld, SameWorld
  <2>5. QED
    BY <1>2, <2>4 DEF OnboardingInv
<1>6. CASE ~signedIn
  BY <1>2, <1>6 DEF OnboardingInv
<1>7. QED
  BY <1>4, <1>5, <1>6 DEF OnboardingInv

LEMMA EndsKeep ==
    ASSUME OnboardingInv, NEW i \in Slots, tasks[i].kind \in TaskKinds,
           Fails(i) \/ Discovered(i) \/ ConnectAnswer(i)
    PROVE  OnboardingInv'
<1>1. tasks[i].kind # "none" /\ saving \in BOOLEAN /\ unseen \in BOOLEAN
  BY DEF TaskKinds, OnboardingInv, OnboardingTypeOK
<1>2. CASE Fails(i)
  <2>1. unseen' \in {unseen, TRUE} /\ (tasks[i].kind = "reload" => unseen')
    <3>1. unseen' = (unseen \/ tasks[i].kind = "reload")
      BY <1>2 DEF Fails
    <3>2. QED
      BY <1>1, <3>1
  <2>2. saving' \in {saving, FALSE} /\ (tasks[i].kind \in {"discover", "connect"} => saving' = saving)
    <3>1. saving' = IF tasks[i].live THEN (saving /\ tasks[i].kind \in {"discover", "connect"}) ELSE saving
      BY <1>2 DEF Fails, Sets
    <3>2. QED
      BY <1>1, <3>1
  <2>3. onStep' \in {onStep, "matching"} /\ tasks[i].kind # "leave"
    BY <1>2 DEF Fails, Sets
  <2>4. /\ Done(i)
        /\ UNCHANGED <<screen, signedIn, planet, stored, drafts, mounted, editing, persona, field,
                       intake, creation, ritual>>
    BY <1>2 DEF Fails
  <2>5. Waiting(tasks[i]) \/ ~tasks[i].live \/ saving' = saving \/ ~Creating
    BY <1>1, <2>2, <2>3 DEF Creating
  <2>6. QED
    BY <1>1, <2>1, <2>2, <2>3, <2>4, <2>5, EndKeeps
<1>3. CASE Discovered(i)
  <2>1. onStep' \in {onStep, "matching"}
    BY <1>3 DEF Discovered, Sets
  <2>2. QED
    BY <1>1, <1>3, <2>1, EndKeeps DEF Discovered, accountVars
<1>4. CASE ConnectAnswer(i)
  BY <1>1, <1>4, EndKeeps DEF ConnectAnswer, IntakeFollows
<1>5. QED
  BY <1>2, <1>3, <1>4

LEMMA SavedKeeps ==
    ASSUME OnboardingInv, NEW i \in Slots, IntakeSaved(i)
    PROVE  OnboardingInv'
<1> DEFINE kind == IF tasks[i].kind = "saveGuide" THEN "discover" ELSE "create"
           body == IF tasks[i].kind = "saveGuide" THEN NoWorld ELSE drafts'
<1>1. /\ drafts' \in Worlds /\ drafts'.name = drafts.name /\ drafts'.look = drafts.look
      /\ drafts # NoWorld /\ drafts' # NoWorld
  BY OnboardingAssumption DEF OnboardingInv, OnboardingTypeOK, IntakeSaved, Worlds
<1>2. Continue(i, kind, body) /\ saving' \in {saving, TRUE, FALSE}
  BY DEF IntakeSaved, Sets
<1>3. /\ tasks' \in [Slots -> Tasks \union {NoTask}]
      /\ \A j \in Slots \ {i} : tasks'[j] = tasks[j]
      /\ tasks'[i].kind = kind /\ tasks'[i].live = tasks[i].live /\ tasks'[i].body = body
  <2>1. kind \in TaskKinds /\ body \in Worlds \union {NoWorld} /\ tasks[i].kind \in TaskKinds
    BY <1>1 DEF TaskKinds, IntakeSaved
  <2> HIDE DEF kind, body
  <2>2. QED
    BY <1>2, <2>1, Continuing DEF OnboardingInv
<1>4. intake' = "none" /\ UNCHANGED <<accountVars, mounted, editing, onStep, persona, field, creation, ritual>>
  BY DEF IntakeSaved, IntakeFollows
<1>5. OnboardingTypeOK' /\ CreatesWorlds'
  <2>1. WorldTypeOK /\ FlowTypeOK /\ saving \in BOOLEAN
    BY OnboardingTypeParts DEF OnboardingInv
  <2>2. FlowTypeOK'
    BY <1>4, <2>1 DEF FlowTypeOK
  <2>3. WorldTypeOK' /\ saving' \in BOOLEAN
    BY <1>1, <1>2, <1>4, <2>1 DEF WorldTypeOK, accountVars
  <2>4. CreatesWorlds'
    BY <1>1, <1>3 DEF OnboardingInv, CreatesWorlds
  <2>5. QED
    BY <1>3, <2>2, <2>3, <2>4, TypePartsNext DEF AskedTypeOK
<1>6. CASE Creating
  <2>1. tasks[i].kind = "saveGuide" /\ kind = "discover" /\ tasks[i].live /\ saving' = FALSE
    <3>1. tasks[i].kind = "saveGuide" /\ tasks[i].live
      BY <1>6 DEF Creating, IntakeSaved, Waiting
    <3>2. QED
      BY <3>1 DEF IntakeSaved, Sets
  <2> HIDE DEF kind, body
  <2>2. \A j \in Slots : ~Waiting(tasks[j])' /\ ~Making(tasks[j])'
    BY <1>3, <1>6, <2>1 DEF Creating, Waiting, Making
  <2>3. \A j \in Slots : /\ tasks'[j].kind \in {"none", "discover", "connect", "leave"}
                         /\ tasks'[j].kind # "none" => tasks'[j].live
    BY <1>3, <1>6, <2>1, <2>2 DEF Creating, Waiting
  <2>4. \A j \in Slots : MakesDrafts(tasks[j])' /\ HasMade(tasks[j])'
    BY <2>2 DEF MakesDrafts, Making, HasMade
  <2>5. Creating'
    BY <1>4, <1>6, <2>2, <2>3, <2>4 DEF Creating, accountVars
  <2>6. QED
    BY <1>5, <2>5 DEF OnboardingInv
<1>7. CASE HasWorld
  <2>1. \A j \in Slots : ~Making(tasks[j])'
    BY <1>3, <1>7 DEF HasWorld, Making
  <2>2. Reloading => Reloading'
    BY <1>3 DEF Reloading, IntakeSaved
  <2> HIDE DEF kind, body
  <2>3. HasWorld'
    BY <1>1, <1>4, <1>7, <2>1, <2>2 DEF HasWorld, SameWorld, accountVars
  <2>4. QED
    BY <1>5, <2>3 DEF OnboardingInv
<1>8. CASE ~signedIn
  BY <1>4, <1>5, <1>8 DEF OnboardingInv, accountVars
<1>9. QED
  BY <1>6, <1>7, <1>8 DEF OnboardingInv

LEMMA CreatedKeeps ==
    ASSUME OnboardingInv, NEW i \in Slots, WorldCreated(i)
    PROVE  OnboardingInv'
<1> DEFINE kind == IF tasks[i].kind = "create" THEN "reload" ELSE "enter"
<1>1. /\ tasks[i].kind \in {"create", "launch"} /\ tasks[i].body \in Worlds /\ tasks[i].body.name # ""
      /\ stored' = [tasks[i].body EXCEPT !.radius = "scored"] /\ signedIn
  BY DEF WorldCreated, OnboardingInv, CreatesWorlds
<1>2. stored' \in Worlds /\ stored'.name = tasks[i].body.name /\ stored'.look = tasks[i].body.look
  BY <1>1 DEF Worlds
<1>3. stored' # NoWorld /\ tasks[i].body # NoWorld
  BY <1>1, <1>2, OnboardingAssumption
<1>4. /\ tasks' \in [Slots -> Tasks \union {NoTask}]
      /\ \A j \in Slots \ {i} : tasks'[j] = tasks[j]
      /\ tasks'[i].kind = kind /\ tasks'[i].live = tasks[i].live /\ tasks'[i].body = stored'
  <2>1. Continue(i, kind, stored') /\ kind \in TaskKinds /\ tasks[i].kind \in TaskKinds
    BY <1>1 DEF WorldCreated, TaskKinds
  <2> HIDE DEF kind
  <2>2. QED
    BY <1>2, <2>1, Continuing DEF OnboardingInv
<1>5. UNCHANGED <<screen, signedIn, planet, unseen, drafts, saving>> /\ UNCHANGED flowVars
  BY DEF WorldCreated
<1>6. OnboardingTypeOK' /\ CreatesWorlds'
  <2>1. WorldTypeOK /\ FlowTypeOK /\ saving \in BOOLEAN
    BY OnboardingTypeParts DEF OnboardingInv
  <2>2. FlowTypeOK' /\ WorldTypeOK' /\ saving' \in BOOLEAN
    BY <1>2, <1>5, <2>1 DEF FlowTypeOK, WorldTypeOK, flowVars
  <2>3. CreatesWorlds'
    BY <1>4 DEF OnboardingInv, CreatesWorlds
  <2>4. QED
    BY <1>4, <2>2, <2>3, TypePartsNext DEF AskedTypeOK
<1>7. CASE Creating
  <2>1. tasks[i].kind = "launch" /\ kind = "enter" /\ tasks[i].live /\ saving
    BY <1>1, <1>7 DEF Creating, Waiting
  <2> HIDE DEF kind
  <2>2. \A j \in Slots \ {i} : ~Waiting(tasks[j]) /\ ~Making(tasks[j])
    BY <1>7, <2>1 DEF Creating, Waiting, Making
  <2>3. MakesDrafts(tasks[i])' /\ HasMade(tasks[i])'
    <3>1. MakesDrafts(tasks[i])
      BY <1>7 DEF Creating
    <3>2. onStep \in {"profile", "matching", "review"} /\ SameWorld(tasks[i].body, drafts)
      BY <1>1, <2>1, <3>1 DEF MakesDrafts, Making
    <3>3. onStep' = onStep
      BY <1>5 DEF flowVars
    <3>4. QED
      BY <1>1, <1>2, <1>3, <1>4, <1>5, <2>1, <3>2, <3>3 DEF MakesDrafts, HasMade, SameWorld
  <2>4. \A j \in Slots \ {i} : MakesDrafts(tasks[j])' /\ HasMade(tasks[j])'
    BY <1>4, <2>2 DEF MakesDrafts, HasMade, Waiting, Making
  <2>5. \A j, k \in Slots : Waiting(tasks[j])' /\ Waiting(tasks[k])' => j = k
    BY <1>4, <2>2 DEF Waiting
  <2>6. \A j \in Slots : /\ \/ tasks'[j].kind \in {"none", "discover", "connect", "leave"}
                            \/ Waiting(tasks[j])'
                         /\ tasks'[j].kind # "none" => tasks'[j].live
    BY <1>4, <1>7, <2>1 DEF Creating, Waiting
  <2>7. Creating'
    BY <1>5, <1>7, <2>1, <2>3, <2>4, <2>5, <2>6 DEF Creating, flowVars
  <2>8. QED
    BY <1>6, <2>7 DEF OnboardingInv
<1>8. CASE HasWorld
  <2>1. tasks[i].kind = "create" /\ kind = "reload"
    BY <1>1, <1>8 DEF HasWorld, Making
  <2> HIDE DEF kind
  <2>2. \A j \in Slots : ~Making(tasks[j])'
    BY <1>4, <1>8, <2>1 DEF HasWorld, Making
  <2>3. Reloading'
    BY <1>4, <2>1 DEF Reloading
  <2>4. HasWorld'
    BY <1>3, <1>5, <1>8, <2>2, <2>3 DEF HasWorld, flowVars
  <2>5. QED
    BY <1>6, <2>4 DEF OnboardingInv
<1>9. QED
  BY <1>1, <1>7, <1>8 DEF OnboardingInv

\* The flow is left by an answer: its requests are nobody's.
LEMMA LeftKeeps ==
    ASSUME OnboardingInv, NEW i \in Slots, tasks' = Orphaned(Freed(i)),
           IF mounted THEN Unmounts ELSE UNCHANGED <<flowVars, saving>>,
           WorldTypeOK'
    PROVE  /\ OnboardingTypeOK' /\ CreatesWorlds'
           /\ tasks'[i].kind = "none"
           /\ \A j \in Slots \ {i} : tasks'[j].kind = tasks[j].kind
           /\ ~mounted' /\ ((mounted \/ intake = "none") => intake' = "none")
<1>1. /\ Freed(i) \in [Slots -> Tasks \union {NoTask}] /\ Freed(i)[i] = NoTask
      /\ \A j \in Slots \ {i} : Freed(i)[j] = tasks[j]
  BY Freeing DEF OnboardingInv
<1>2. /\ tasks' \in [Slots -> Tasks \union {NoTask}]
      /\ \A j \in Slots : tasks'[j].kind = Freed(i)[j].kind /\ tasks'[j].body = Freed(i)[j].body
  BY <1>1, TaskFields, OrphansKeepKinds
<1>3. tasks'[i].kind = "none"
  BY <1>1, <1>2, TasksAre
<1>4. \A j \in Slots \ {i} : tasks'[j].kind = tasks[j].kind /\ tasks'[j].body = tasks[j].body
  BY <1>1, <1>2
<1>5. CreatesWorlds'
  BY <1>3, <1>4 DEF OnboardingInv, CreatesWorlds
<1>6. FlowTypeOK' /\ saving' \in BOOLEAN
  <2>1. FlowTypeOK /\ saving \in BOOLEAN
    BY OnboardingTypeParts DEF OnboardingInv
  <2>2. CASE mounted
    BY <2>2, UnmountedTypes
  <2>3. CASE ~mounted
    BY <2>1, <2>3 DEF FlowTypeOK, flowVars
  <2>4. QED
    BY <2>2, <2>3
<1>7. ~mounted' /\ ((mounted \/ intake = "none") => intake' = "none")
  BY DEF Unmounts, flowVars
<1>8. QED
  BY <1>2, <1>3, <1>4, <1>5, <1>6, <1>7, TypePartsNext DEF AskedTypeOK

LEMMA AnswersLeave ==
    ASSUME OnboardingInv, NEW i \in Slots, Reloaded(i) \/ Entered(i) \/ SignedOut(i)
    PROVE  OnboardingInv'
<1>1. /\ WorldTypeOK /\ tasks' = Orphaned(Freed(i))
      /\ IF mounted THEN Unmounts ELSE UNCHANGED <<flowVars, saving>>
  BY OnboardingTypeParts DEF OnboardingInv, Reloaded, Entered, SignedOut
<1>2. CASE Reloaded(i)
  <2>1. /\ planet' = stored /\ drafts' = (IF stored # NoWorld THEN stored ELSE drafts)
        /\ unseen' = FALSE /\ UNCHANGED <<screen, signedIn, stored>> /\ tasks[i].kind = "reload"
    BY <1>2 DEF Reloaded
  <2>2. WorldTypeOK'
    BY <1>1, <2>1 DEF WorldTypeOK
  <2>3. /\ OnboardingTypeOK' /\ CreatesWorlds' /\ tasks'[i].kind = "none" /\ ~mounted'
        /\ \A j \in Slots \ {i} : tasks'[j].kind = tasks[j].kind
        /\ (mounted \/ intake = "none") => intake' = "none"
    BY <1>1, <2>2, LeftKeeps
  <2>4. CASE HasWorld
    <3>1. \A j \in Slots : ~Making(tasks[j])'
      BY <2>3, <2>4 DEF HasWorld, Making
    <3>2. SameWorld(planet', stored') /\ SameWorld(drafts', planet')
      BY <2>1, <2>4 DEF HasWorld, SameWorld
    <3>3. HasWorld'
      BY <2>1, <2>3, <2>4, <3>1, <3>2 DEF HasWorld, SameWorld
    <3>4. QED
      BY <2>3, <3>3 DEF OnboardingInv
  <2>5. CASE Creating
    BY <2>1, <2>5 DEF Creating, Waiting
  <2>6. CASE ~signedIn
    BY <2>1, <2>3, <2>6 DEF OnboardingInv
  <2>7. QED
    BY <2>4, <2>5, <2>6 DEF OnboardingInv
<1>3. CASE Entered(i)
  <2>1. /\ planet' \in {stored, tasks[i].body} /\ screen' = "universe" /\ tasks[i].kind = "enter"
        /\ UNCHANGED <<signedIn, stored, unseen, drafts>>
    BY <1>3 DEF Entered
  <2>2. tasks[i].body \in Worlds \union {NoWorld}
    <3>1. tasks[i] \in Tasks
      BY <2>1, TasksAre DEF OnboardingInv, OnboardingTypeOK
    <3>2. QED
      BY <3>1, TasksAre
  <2>3. WorldTypeOK'
    BY <1>1, <2>1, <2>2 DEF WorldTypeOK
  <2>4. /\ OnboardingTypeOK' /\ CreatesWorlds' /\ tasks'[i].kind = "none" /\ ~mounted'
        /\ \A j \in Slots \ {i} : tasks'[j].kind = tasks[j].kind
        /\ (mounted \/ intake = "none") => intake' = "none"
    BY <1>1, <2>3, LeftKeeps
  <2>5. CASE Creating
    <3>1. \A j \in Slots : ~Making(tasks[j])'
      BY <2>1, <2>4, <2>5 DEF Creating, Waiting, Making
    <3>2. MakesDrafts(tasks[i]) /\ HasMade(tasks[i])
      BY <2>5 DEF Creating
    <3>3. SameWorld(tasks[i].body, stored) /\ SameWorld(tasks[i].body, drafts)
      BY <2>1, <3>2 DEF MakesDrafts, HasMade, Making
    <3>4. SameWorld(planet', stored) /\ SameWorld(drafts, planet')
      BY <2>1, <3>3 DEF SameWorld
    <3>5. HasWorld'
      BY <2>1, <2>4, <2>5, <3>1, <3>4 DEF HasWorld, Creating, SameWorld
    <3>6. QED
      BY <2>4, <3>5 DEF OnboardingInv
  <2>6. CASE HasWorld
    BY <2>1, <2>6 DEF HasWorld, Making
  <2>7. CASE ~signedIn
    BY <2>1, <2>4, <2>7 DEF OnboardingInv
  <2>8. QED
    BY <2>5, <2>6, <2>7 DEF OnboardingInv
<1>4. CASE SignedOut(i)
  <2>1. /\ signedIn' = FALSE /\ screen' = "auth" /\ planet' = NoWorld
        /\ drafts' = BlankDraft(drafts.look) /\ UNCHANGED <<stored, unseen>>
    BY <1>4 DEF SignedOut
  <2>2. drafts' \in Worlds
    BY <1>1, <2>1 DEF WorldTypeOK, Worlds, BlankDraft, Names
  <2>3. WorldTypeOK'
    BY <1>1, <2>1, <2>2 DEF WorldTypeOK
  <2>4. QED
    BY <1>1, <2>1, <2>3, LeftKeeps DEF OnboardingInv
<1>5. QED
  BY <1>2, <1>3, <1>4

LEMMA OnboardingInitInv == OnboardingInit => OnboardingInv
<1> SUFFICES ASSUME OnboardingInit PROVE OnboardingInv
  OBVIOUS
<1>1. OnboardingTypeOK /\ drafts # NoWorld
  BY OnboardingInitType, OnboardingAssumption DEF OnboardingTypeOK
<1>2. \A i \in Slots : tasks[i].kind = "none"
  BY TasksAre DEF OnboardingInit, NoTasks
<1>3. CreatesWorlds
  BY <1>2 DEF CreatesWorlds
<1>4. CASE screen = "onboarding"
  <2>1. Creating
    BY <1>2, <1>4 DEF OnboardingInit, Creating, Waiting, MakesDrafts, HasMade, Making
  <2>2. QED
    BY <1>1, <1>3, <2>1 DEF OnboardingInv
<1>5. CASE screen = "universe"
  <2>1. HasWorld
    BY <1>1, <1>2, <1>5 DEF OnboardingInit, HasWorld, Making, SameWorld
  <2>2. QED
    BY <1>1, <1>3, <2>1 DEF OnboardingInv
<1>6. QED
  BY <1>4, <1>5 DEF OnboardingInit

LEMMA OnboardingStepInv == OnboardingInv /\ [OnboardingNext]_onboardingVars => OnboardingInv'
<1> SUFFICES ASSUME OnboardingInv, [OnboardingNext]_onboardingVars PROVE OnboardingInv'
  OBVIOUS
<1>1. OnboardingTypeOK /\ FlowTypeOK /\ saving \in BOOLEAN /\ drafts \in Worlds
  BY OnboardingTypeParts DEF OnboardingInv, WorldTypeOK
<1>2. ASSUME NEW look \in Looks, NEW known \in BOOLEAN, IntakeAnswer(known, look) PROVE OnboardingInv'
  BY <1>2, IntakeKeeps
<1>3. CASE \/ NextStep \/ BeginRitual \/ GoBack \/ NextField \/ OpenEditor \/ IntakeFails
           \/ \E i \in 1..5 : Navigate(OnSteps[i])
  BY <1>1, <1>3, FlowMoves, MovedKeeps
<1>4. CASE RitualStep \/ RitualFinishes(TRUE) \/ PreludeFinishes(TRUE)
  BY <1>1, <1>4, RitualsMove, MovedKeeps
<1>5. ASSUME NEW look \in Looks, ChoosePersonality(look) \/ ChooseWorld(look) PROVE OnboardingInv'
  <2>1. [drafts EXCEPT !.look = look] \in Worlds
    BY <1>1 DEF Worlds
  <2>2. [drafts EXCEPT !.look = look,
                       !.name = IF drafts.name = "" THEN "A world" ELSE drafts.name] \in Worlds
    BY <1>1 DEF Worlds, Names
  <2>3. CASE ChoosePersonality(look)
    BY <2>2, <2>3, ChoicesKeep DEF ChoosePersonality, SelectorShown, StepShown
  <2>4. CASE ChooseWorld(look)
    <3>1. persona' \in BOOLEAN
      BY <1>1, <2>4 DEF ChooseWorld, FlowTypeOK
    <3>2. QED
      BY <2>1, <2>4, <3>1, ChoicesKeep DEF ChooseWorld, ChooserShown, StepShown
  <2>5. QED
    BY <1>5, <2>3, <2>4
<1>6. ASSUME NEW name \in Names, NameWorld(name) PROVE OnboardingInv'
  <2>1. [drafts EXCEPT !.name = name] \in Worlds
    BY <1>1, <1>6 DEF Worlds
  <2>2. persona' \in BOOLEAN
    BY <1>1, <1>6 DEF NameWorld, FlowTypeOK
  <2>3. QED
    BY <1>6, <2>1, <2>2, ChoicesKeep DEF NameWorld, ChooserShown, StepShown
<1>7. CASE SaveReview \/ SaveGuide \/ ConnectUser \/ ReturnToAuth
  BY <1>7, ButtonsKeep
<1>8. CASE CloseEditor
  BY <1>8, CloseKeeps
<1>9. ASSUME NEW kind \in TaskKinds, NEW live \in BOOLEAN, Answers(kind, live) PROVE OnboardingInv'
  <2>1. PICK i \in Slots : tasks[i].kind = kind /\ Answer(i)
    BY <1>9 DEF Answers
  <2>2. QED
    BY <2>1, EndsKeep, SavedKeeps, CreatedKeeps, AnswersLeave DEF Answer
<1>10. CASE UNCHANGED onboardingVars
  <2>1. Moved
    BY <1>1, <1>10 DEF onboardingVars, Moved, accountVars, FlowTypeOK, AfterPlanet
  <2>2. QED
    BY <2>1, MovedKeeps
<1>11. QED
  BY <1>2, <1>3, <1>4, <1>5, <1>6, <1>7, <1>8, <1>9, <1>10 DEF OnboardingNext

LEMMA OnboardingInductive == OnboardingInit /\ [][OnboardingNext]_onboardingVars => []OnboardingInv
BY OnboardingInitInv, OnboardingStepInv, PTL

-----------------------------------------------------------------------------
\* Making and editing a world stays in its types: there are never more requests than slots.
THEOREM OnboardingTypes == OnboardingSpec => []OnboardingTypeOK
<1>1. OnboardingInv => OnboardingTypeOK
  BY DEF OnboardingInv
<1>2. QED
  BY <1>1, OnboardingInductive, PTL DEF OnboardingSpec

\* ClosedEditorLeavesNoChoice: once nothing is on its way, the drafts outside an editor are
\* those of the planet, whatever editors were closed over requests, and whichever of these
\* were answered late or failed (OnboardingFlow.tsx).
THEOREM ClosedEditorLeftNothing == OnboardingSpec => []ClosedEditorLeavesNoChoice
<1>1. OnboardingInv => ClosedEditorLeavesNoChoice
  <2> SUFFICES ASSUME OnboardingInv, screen = "universe", signedIn, ~mounted, tasks = NoTasks, ~unseen
               PROVE  planet # NoWorld /\ drafts.name = planet.name /\ drafts.look = planet.look
    BY DEF ClosedEditorLeavesNoChoice
  <2>1. HasWorld
    BY DEF OnboardingInv, Creating
  <2>2. ~Reloading
    BY TasksAre DEF Reloading, NoTasks
  <2>3. QED
    BY <2>1, <2>2 DEF HasWorld, SameWorld
<1>2. QED
  BY <1>1, OnboardingInductive, PTL DEF OnboardingSpec
===============================================================================
