----------------------------- MODULE StoreProofs ------------------------------
(***************************************************************************)
(* Proofs about what the store of the web client holds and announces: the  *)
(* session, the posts that are published, the broadcasts, and the travels  *)
(* between planets.  They hold for any accounts, files, posts, planets,    *)
(* finitely many activities and signals, any length of a memory book, and  *)
(* any bounds.  Each part has its inductive invariant first.               *)
(***************************************************************************)
EXTENDS Session, Publishing, Broadcasts, CosmosTravel, TLAPS, SequenceTheorems, FiniteSetTheorems

(***************************************************************************)
(* Session: the token in force is the session's, and the store holds the   *)
(* cosmos of the account that is signed in, but for the answers the model  *)
(* names as strayed.                                                       *)
(***************************************************************************)

\* A sign-in that is referred to has been answered.
SignedIn == session \in 0..Len(owner)

\* A restoring effect that is still listened to is the present session's: every change
\* of the session runs the cleanup of the effect before.
RestoresItsSession == \A r \in restores : r.active => r.of = session

TokenAdopted == activeToken \in {0, session}

\* The sign-in that is on its way has a number left.
RoomForAnswer == busy # NoAccount => Len(owner) < MaxSignIns

SessionInv ==
    /\ SessionTypeOK
    /\ SignedIn
    /\ RestoresItsSession
    /\ TokenAdopted
    /\ RoomForAnswer
    /\ OwnCosmos

-----------------------------------------------------------------------------
\* A request that was answered is taken out of the queue.
LEMMA AnswerTaken ==
    ASSUME NEW S, NEW q \in Seq(S), NEW i \in 1..Len(q)
    PROVE  LET rest == SubSeq(q, 1, i - 1) \o SubSeq(q, i + 1, Len(q))
           IN  rest \in Seq(S) /\ Len(rest) = Len(q) - 1
<1> DEFINE before == SubSeq(q, 1, i - 1)
           after == SubSeq(q, i + 1, Len(q))
<1>1. before \in Seq(S) /\ Len(before) = i - 1
  BY SubSeqProperties
<1>2. after \in Seq(S) /\ Len(after) = Len(q) - i
  BY SubSeqProperties
<1> HIDE DEF before, after
<1>3. before \o after \in Seq(S) /\ Len(before \o after) = Len(before) + Len(after)
  BY <1>1, <1>2, ConcatProperties
<1>4. (i - 1) + (Len(q) - i) = Len(q) - 1
  OBVIOUS
<1>5. before \o after \in Seq(S) /\ Len(before \o after) = Len(q) - 1
  BY <1>1, <1>2, <1>3, <1>4
<1>6. QED
  BY <1>5 DEF before, after

LEMMA TokenType == SessionInv => Token \in {0} \union SignIns /\ Token = session
BY DEF SessionInv, SessionTypeOK, TokenAdopted, Token

LEMMA VoidedType ==
    ASSUME restores \subseteq [of : SignIns, active : BOOLEAN]
    PROVE  /\ Voided \subseteq [of : SignIns, active : BOOLEAN]
           /\ \A r \in Voided : ~r.active
BY DEF Voided

\* A restoring effect that starts is the only one that is listened to.
LEMMA RestoreStartsType ==
    ASSUME restores \subseteq [of : SignIns, active : BOOLEAN], NEW s \in SignIns, RestoreStarts(s)
    PROVE  /\ restores' \subseteq [of : SignIns, active : BOOLEAN]
           /\ \A r \in restores' : r.active => r.of = s
           /\ restoring' = TRUE /\ restoreError' = FALSE
<1> DEFINE started == [of |-> s, active |-> TRUE]
<1>1. started \in [of : SignIns, active : BOOLEAN] /\ started.of = s
  OBVIOUS
<1>2. restores' = Voided \union {started} /\ restoring' = TRUE /\ restoreError' = FALSE
  BY DEF RestoreStarts
<1> HIDE DEF started
<1>3. QED
  BY <1>1, <1>2, VoidedType

LEMMA SessionInitInv == SessionInit => SessionInv
<1> SUFFICES ASSUME SessionInit PROVE SessionInv
  OBVIOUS
<1>1. /\ session = 0 /\ activeToken = 0 /\ owner = <<>> /\ accepted = {} /\ restores = {}
      /\ leaving = <<>> /\ busy = NoAccount
  BY DEF SessionInit
<1>2. /\ <<>> \in Seq(Accounts) /\ <<>> \in Seq({0} \union SignIns) /\ Len(<<>>) = 0
  OBVIOUS
<1>3. /\ owner \in Seq(Accounts) /\ Len(owner) <= MaxSignIns
      /\ leaving \in Seq({0} \union SignIns) /\ Len(leaving) <= MaxLeaving
  BY <1>1, <1>2, SessionAssumption
<1>4. SessionTypeOK
  BY <1>1, <1>3 DEF SessionInit, SessionTypeOK
<1>5. QED
  BY <1>1, <1>2, <1>4
     DEF SessionInv, SignedIn, RestoresItsSession, TokenAdopted, RoomForAnswer, OwnCosmos

\* The steps that only answer, fail or send leave the sign-ins alone.
LEMMA StutterInv == SessionInv /\ UNCHANGED sessionVars => SessionInv'
BY DEF SessionInv, sessionVars, SessionTypeOK, SignedIn, RestoresItsSession, TokenAdopted,
       RoomForAnswer, OwnCosmos

-----------------------------------------------------------------------------
LEMMA EnteringKeepsInv ==
    ASSUME SessionInv,
           (\E account \in Accounts : Enter(account)) \/ EnterAnswer \/ EnterFails
    PROVE  SessionInv'
<1> USE DEF SessionInv
<1>1. ASSUME NEW account \in Accounts, Enter(account)
      PROVE  SessionInv'
  BY <1>1
     DEF Enter, SessionTypeOK, SignedIn, RestoresItsSession, TokenAdopted, RoomForAnswer, OwnCosmos
<1>2. CASE EnterFails
  BY <1>2
     DEF EnterFails, SessionTypeOK, SignedIn, RestoresItsSession, TokenAdopted, RoomForAnswer,
         OwnCosmos
<1>3. CASE EnterAnswer
  <2> DEFINE s == Len(owner) + 1
  <2>1. busy \in Accounts /\ Len(owner) < MaxSignIns /\ owner \in Seq(Accounts)
    BY <1>3 DEF EnterAnswer, SessionTypeOK, RoomForAnswer
  <2>2. /\ owner' = Append(owner, busy) /\ accepted' = accepted \union {s}
        /\ session' = s /\ activeToken' = s /\ RestoreStarts(s)
        /\ cosmosOf' = busy /\ strayed' = FALSE /\ entered' = TRUE /\ busy' = NoAccount
        /\ UNCHANGED <<leaving, updates>>
    BY <1>3 DEF EnterAnswer
  <2>3. /\ owner' \in Seq(Accounts) /\ Len(owner') = s /\ owner'[s] = busy
        /\ Len(owner) \in Nat
    BY <2>1, <2>2, AppendProperties
  <2>4. s \in SignIns /\ s # 0
    BY <2>1, <2>3, SessionAssumption DEF SignIns
  <2> HIDE DEF s
  <2>5. /\ restores' \subseteq [of : SignIns, active : BOOLEAN]
        /\ \A r \in restores' : r.active => r.of = s
        /\ restoring' = TRUE /\ restoreError' = FALSE
    BY <2>2, <2>4, RestoreStartsType DEF SessionTypeOK
  <2>6. accepted' \subseteq 1..Len(owner')
    <3>1. accepted \subseteq 1..Len(owner) /\ s = Len(owner) + 1
      BY DEF SessionTypeOK, s
    <3>2. 1..Len(owner) \subseteq 1..s /\ s \in 1..s
      BY <2>3, <3>1
    <3>3. QED
      BY <2>2, <2>3, <3>1, <3>2
  <2>7. Len(owner') <= MaxSignIns
    BY <2>3, <2>4, SessionAssumption DEF SignIns
  <2>8. SessionTypeOK'
    BY <2>1, <2>2, <2>3, <2>4, <2>5, <2>6, <2>7 DEF SessionTypeOK
  <2>9. SignedIn' /\ RestoresItsSession' /\ TokenAdopted' /\ RoomForAnswer' /\ OwnCosmos'
    BY <2>2, <2>3, <2>4, <2>5, SessionAssumption
       DEF SignedIn, RestoresItsSession, TokenAdopted, RoomForAnswer, OwnCosmos, SignIns
  <2>10. QED
    BY <2>8, <2>9
<1>4. QED
  BY <1>1, <1>2, <1>3

-----------------------------------------------------------------------------
\* A sign-out request is added to those on their way.
LEMMA LeavingGrows ==
    ASSUME SessionInv, Len(leaving) < MaxLeaving
    PROVE  /\ Append(leaving, Token) \in Seq({0} \union SignIns)
           /\ Len(Append(leaving, Token)) <= MaxLeaving
<1>1. Token \in {0} \union SignIns /\ leaving \in Seq({0} \union SignIns)
  BY TokenType DEF SessionInv, SessionTypeOK
<1>2. QED
  BY <1>1, AppendProperties, SessionAssumption

LEMMA RestoringKeepsInv ==
    ASSUME SessionInv, RestoreEnded \/ Retry
    PROVE  SessionInv'
<1> USE DEF SessionInv
<1>1. ASSUME NEW r \in restores, RestoreAnswer(r)
      PROVE  SessionInv'
  <2>1. /\ r.of \in 1..Len(owner) /\ owner[r.of] \in Accounts /\ r.active \in BOOLEAN
    <3>1. r.of \in 1..Len(owner) /\ owner \in Seq(Accounts) /\ r.active \in BOOLEAN
      BY <1>1 DEF RestoreAnswer, SessionTypeOK
    <3>2. QED
      BY <3>1
  <2>2. cosmosOf' = (IF r.active THEN owner[r.of] ELSE cosmosOf) /\ restores' = restores \ {r}
        /\ strayed' = (strayed /\ ~r.active)
        /\ restoring' = (restoring /\ ~r.active)
        /\ UNCHANGED <<entered, session, activeToken, owner, accepted, busy, restoreError,
                       leaving, updates>>
    BY <1>1 DEF RestoreAnswer, Hydrates
  <2>3. SessionTypeOK'
    BY <2>1, <2>2 DEF SessionTypeOK
  <2>4. QED
    BY <2>1, <2>2, <2>3 DEF SignedIn, RestoresItsSession, TokenAdopted, RoomForAnswer, OwnCosmos
<1>2. ASSUME NEW r \in restores, RestoreFails(r)
      PROVE  SessionInv'
  <2>1. r.active \in BOOLEAN
    BY DEF SessionTypeOK
  <2>2. QED
    BY <1>2, <2>1
       DEF RestoreFails, SessionTypeOK, SignedIn, RestoresItsSession, TokenAdopted,
           RoomForAnswer, OwnCosmos
<1>3. ASSUME NEW r \in restores, RestoreRefused(r)
      PROVE  SessionInv'
  <2>1. r.active \in BOOLEAN
    BY DEF SessionTypeOK
  <2>2. leaving' \in Seq({0} \union SignIns) /\ Len(leaving') <= MaxLeaving
    BY <1>3, LeavingGrows DEF RestoreRefused, SessionTypeOK
  <2>3. QED
    BY <1>3, <2>1, <2>2
       DEF RestoreRefused, SessionTypeOK, SignedIn, RestoresItsSession, TokenAdopted,
           RoomForAnswer, OwnCosmos
<1>4. CASE Retry
  <2>1. session \in SignIns
    BY <1>4 DEF Retry, RetryShown, SessionTypeOK
  <2>2. /\ restores' \subseteq [of : SignIns, active : BOOLEAN]
        /\ \A r \in restores' : r.active => r.of = session
        /\ restoring' = TRUE /\ restoreError' = FALSE
    BY <1>4, <2>1, RestoreStartsType DEF Retry, SessionTypeOK
  <2>3. QED
    BY <1>4, <2>2
       DEF Retry, SessionTypeOK, SignedIn, RestoresItsSession, TokenAdopted, RoomForAnswer,
           OwnCosmos
<1>5. QED
  BY <1>1, <1>2, <1>3, <1>4 DEF RestoreEnded

-----------------------------------------------------------------------------
LEMMA LeavingKeepsInv ==
    ASSUME SessionInv,
           SignOut \/ \E i \in 1..Len(leaving), ended \in BOOLEAN : SignOutAnswer(i, ended)
    PROVE  SessionInv'
<1> USE DEF SessionInv
<1>1. CASE SignOut
  <2>1. leaving' \in Seq({0} \union SignIns) /\ Len(leaving') <= MaxLeaving
    BY <1>1, LeavingGrows DEF SignOut
  <2>2. QED
    BY <1>1, <2>1
       DEF SignOut, SessionTypeOK, SignedIn, RestoresItsSession, TokenAdopted, RoomForAnswer,
           OwnCosmos
<1>2. ASSUME NEW i \in 1..Len(leaving), NEW ended \in BOOLEAN, SignOutAnswer(i, ended)
      PROVE  SessionInv'
  <2>1. /\ leaving' = SubSeq(leaving, 1, i - 1) \o SubSeq(leaving, i + 1, Len(leaving))
        /\ accepted' \subseteq accepted /\ activeToken' = 0
        /\ session' = 0 /\ cosmosOf' = NoAccount /\ strayed' = FALSE
        /\ IF session # 0 THEN RestoreStops ELSE UNCHANGED <<restores, restoring, restoreError>>
        /\ UNCHANGED <<entered, owner, busy, updates>>
    BY <1>2 DEF SignOutAnswer, TokenAfterSignOut
  <2>2. leaving \in Seq({0} \union SignIns) /\ Len(leaving) <= MaxLeaving /\ Len(leaving) \in Nat
    BY DEF SessionTypeOK
  <2>3. leaving' \in Seq({0} \union SignIns) /\ Len(leaving') = Len(leaving) - 1
    BY <2>1, <2>2, AnswerTaken
  <2>4. Len(leaving') <= MaxLeaving
    BY <2>2, <2>3, SessionAssumption
  <2>5. restores \subseteq [of : SignIns, active : BOOLEAN] /\ 0 \notin SignIns
    BY DEF SessionTypeOK, SignIns
  <2>6. /\ restores' \subseteq [of : SignIns, active : BOOLEAN]
        /\ \A r \in restores' : ~r.active
        /\ restoring' \in BOOLEAN /\ restoreError' \in BOOLEAN
    <3>1. CASE session # 0
      BY <2>1, <2>5, <3>1, VoidedType DEF RestoreStops
    <3>2. CASE session = 0
      BY <2>1, <2>5, <3>2 DEF RestoresItsSession, SessionTypeOK
    <3>3. QED
      BY <3>1, <3>2
  <2>7. SessionTypeOK'
    BY <2>1, <2>3, <2>4, <2>6 DEF SessionTypeOK
  <2>8. owner \in Seq(Accounts) /\ Len(owner) \in Nat
    BY DEF SessionTypeOK
  <2>9. SignedIn' /\ RoomForAnswer'
    BY <2>1, <2>8 DEF SignedIn, RoomForAnswer
  <2>10. QED
    BY <2>1, <2>6, <2>7, <2>9
       DEF SignedIn, RestoresItsSession, TokenAdopted, RoomForAnswer, OwnCosmos
<1>3. QED
  BY <1>1, <1>2

LEMMA OthersKeepInv ==
    ASSUME SessionInv,
           \/ RequestUpdate
           \/ \E s \in updates, answered \in BOOLEAN : UpdateAnswer(s, answered)
           \/ \E s \in accepted : Expire(s)
           \/ Reload
    PROVE  SessionInv'
<1> USE DEF SessionInv, SignedIn, RestoresItsSession, TokenAdopted, RoomForAnswer
<1>1. CASE RequestUpdate
  BY <1>1, TokenType DEF RequestUpdate, SessionTypeOK, OwnCosmos
<1>2. ASSUME NEW s \in updates, NEW answered \in BOOLEAN, UpdateAnswer(s, answered)
      PROVE  SessionInv'
  <2>1. answered => owner[s] \in Accounts
    BY <1>2 DEF UpdateAnswer, SessionTypeOK
  <2>2. SessionTypeOK'
    BY <1>2, <2>1 DEF UpdateAnswer, SessionTypeOK
  <2>3. OwnCosmos'
    BY <1>2 DEF UpdateAnswer, OwnCosmos
  <2>4. QED
    BY <1>2, <2>2, <2>3 DEF UpdateAnswer
<1>3. ASSUME NEW s \in accepted, Expire(s)
      PROVE  SessionInv'
  BY <1>3 DEF Expire, SessionTypeOK, OwnCosmos
<1>4. CASE Reload
  <2>1. leaving' = <<>> /\ <<>> \in Seq({0} \union SignIns) /\ Len(<<>>) = 0
    BY <1>4 DEF Reload
  <2>2. leaving' \in Seq({0} \union SignIns) /\ Len(leaving') <= MaxLeaving
    BY <2>1, SessionAssumption
  <2>3. SessionTypeOK'
    BY <1>4, <2>2 DEF Reload, SessionTypeOK
  <2>4. QED
    BY <1>4, <2>3 DEF Reload, OwnCosmos
<1>5. QED
  BY <1>1, <1>2, <1>3, <1>4

LEMMA StepKeepsInv == SessionInv /\ [SessionNext]_sessionVars => SessionInv'
BY StutterInv, EnteringKeepsInv, RestoringKeepsInv, LeavingKeepsInv, OthersKeepInv
   DEF SessionNext

LEMMA SessionInductive == SessionSpec => []SessionInv
BY SessionInitInv, StepKeepsInv, PTL DEF SessionSpec

-----------------------------------------------------------------------------
\* Type correctness of the session, its requests and its sign-ins.
THEOREM SessionTypes == SessionSpec => []SessionTypeOK
<1>1. SessionInv => SessionTypeOK
  BY DEF SessionInv
<1>2. QED
  BY <1>1, SessionInductive, PTL

\* The token a request carries (apiClient.ts) is that of the session the store has
\* (useProductStore.ts), whatever sign-outs are answered late or twice.
THEOREM TokenOfTheSession == SessionSpec => []TokenIsSessions
<1>1. SessionInv => TokenIsSessions
  BY TokenType DEF TokenIsSessions
<1>2. QED
  BY <1>1, SessionInductive, PTL

\* No answer of a restoring effect that was cleaned up (ProductApp.tsx) brings the
\* cosmos of another account.
THEOREM CosmosOfTheSession == SessionSpec => []OwnCosmos
<1>1. SessionInv => OwnCosmos
  BY DEF SessionInv
<1>2. QED
  BY <1>1, SessionInductive, PTL

(***************************************************************************)
(* Publishing: the limit of selected files, that a post shown as           *)
(* uploading has its task, and that what the server has of a post is       *)
(* complete.                                                               *)
(***************************************************************************)

\* What Cardinality is taken of is finite.
SelectionFinite == IsFiniteSet(mediaItems) /\ IsFiniteSet(recorderSaw)

\* A task uploads the files of its post, all of them.
TaskUploadsPost == \A p \in tasked : posts[p] # NoPost /\ DOMAIN uploads[p] = posts[p]

\* The server has nothing of a post that was not published.
CreatedWasPosted == \A p \in DOMAIN created : posts[p] # NoPost

TaskInv == TaskUploadsPost /\ CreatedWasPosted /\ UploadingIsTasked /\ CreatedComplete

\* The parts of the type invariant that the composer and the tasks keep.
ComposerTypeOK ==
    /\ composing \in BOOLEAN /\ hasText \in BOOLEAN
    /\ mediaItems \subseteq Files /\ Cardinality(mediaItems) <= MaxMedia
    /\ recorder \in {"idle", "asking", "recording"} /\ recorderSaw \subseteq Files
    /\ previews \subseteq Files

TaskTypeOK ==
    /\ DOMAIN posts = Posts /\ \A p \in Posts : posts[p] = NoPost \/ posts[p] \subseteq Files
    /\ delivery \in [Posts -> Deliveries]
    /\ DOMAIN uploads = Posts
    /\ \A p \in Posts : DOMAIN uploads[p] \subseteq Files
                        /\ \A f \in DOMAIN uploads[p] : uploads[p][f] \in Rejected..Accepted
    /\ backingOff \subseteq Posts \X Files /\ tasked \subseteq Posts
    /\ DOMAIN created \subseteq Posts /\ \A p \in DOMAIN created : created[p] \subseteq Files

ComposerInv == ComposerTypeOK /\ SelectionFinite
TasksInv == TaskTypeOK /\ TaskInv
PublishingInv == ComposerInv /\ TasksInv

LEMMA NothingSelected == IsFiniteSet({}) /\ Cardinality({}) <= MaxMedia
BY FS_EmptySet, PublishingAssumption

LEMMA ComposerUnchanged == ComposerInv /\ UNCHANGED composerVars => ComposerInv'
BY DEF ComposerInv, ComposerTypeOK, SelectionFinite, composerVars

LEMMA TasksUnchanged == TasksInv /\ UNCHANGED taskVars => TasksInv'
BY DEF TasksInv, TaskTypeOK, TaskInv, TaskUploadsPost, CreatedWasPosted, UploadingIsTasked,
       CreatedComplete, taskVars

-----------------------------------------------------------------------------
LEMMA PublishingInitInv == PublishingInit => PublishingInv
<1> SUFFICES ASSUME PublishingInit PROVE PublishingInv
  OBVIOUS
<1>1. ComposerInv
  BY NothingSelected DEF PublishingInit, ComposerInv, ComposerTypeOK, SelectionFinite
<1>2. TaskTypeOK
  BY DEF PublishingInit, TaskTypeOK, NoUploads, Deliveries
<1>3. TaskInv
  BY DEF PublishingInit, TaskInv, TaskUploadsPost, CreatedWasPosted, UploadingIsTasked,
         CreatedComplete
<1>4. QED
  BY <1>1, <1>2, <1>3 DEF PublishingInv, TasksInv

-----------------------------------------------------------------------------
\* A file is added to files its caller saw, now or before: never more than MaxMedia.
LEMMA SelectMediaKeeps ==
    ASSUME ComposerInv, NEW file \in Files, NEW saw, saw \in {mediaItems, recorderSaw},
           SelectMedia(file, saw)
    PROVE  /\ mediaItems' \subseteq Files /\ IsFiniteSet(mediaItems')
           /\ Cardinality(mediaItems') <= MaxMedia
           /\ previews' \subseteq Files
<1>1. saw \subseteq Files /\ IsFiniteSet(saw)
  BY DEF ComposerInv, ComposerTypeOK, SelectionFinite
<1>2. /\ IsFiniteSet(saw \union {file})
      /\ Cardinality(saw) \in Nat
      /\ Cardinality(saw) < MaxMedia => Cardinality(saw \union {file}) <= MaxMedia
  <2>1. Cardinality(saw) \in Nat
    BY <1>1, FS_CardinalityType
  <2>2. /\ IsFiniteSet(saw \union {file})
        /\ Cardinality(saw \union {file}) \in {Cardinality(saw), Cardinality(saw) + 1}
    BY <1>1, FS_AddElement
  <2>3. QED
    BY <2>1, <2>2, PublishingAssumption
<1>3. /\ previews' \in {previews, previews \union {file}}
      /\ mediaItems' = mediaItems
         \/ (mediaItems' = saw \union {file} /\ Cardinality(saw) < MaxMedia)
  BY DEF SelectMedia
<1>4. QED
  BY <1>1, <1>2, <1>3 DEF ComposerInv, ComposerTypeOK, SelectionFinite

LEMMA ComposerKeepsInv ==
    ASSUME PublishingInv,
           \/ OpenComposer \/ CloseComposer \/ RecorderStops \/ AskRecording
           \/ \E flag \in BOOLEAN : WriteText(flag) \/ MicrophoneAnswer(flag)
           \/ \E f \in Files : ChooseFile(f) \/ RemoveMedia(f)
    PROVE  PublishingInv'
<1>1. ComposerInv /\ TasksInv
  BY DEF PublishingInv
<1> USE DEF ComposerInv, ComposerTypeOK, SelectionFinite
<1>2. UNCHANGED taskVars
  BY DEF OpenComposer, CloseComposer, RecorderStops, AskRecording, WriteText, MicrophoneAnswer,
         ChooseFile, RemoveMedia
<1>3. ComposerInv'
  <2>1. CASE OpenComposer \/ CloseComposer
    BY <1>1, <2>1, NothingSelected DEF OpenComposer, CloseComposer, Closes
  <2>2. CASE RecorderStops
    <3>1. Recording \in Files /\ SelectMedia(Recording, recorderSaw)
      BY <2>2, PublishingAssumption DEF RecorderStops
    <3>2. /\ mediaItems' \subseteq Files /\ IsFiniteSet(mediaItems')
          /\ Cardinality(mediaItems') <= MaxMedia /\ previews' \subseteq Files
      BY <1>1, <3>1, SelectMediaKeeps
    <3>3. QED
      BY <1>1, <2>2, <3>2 DEF RecorderStops
  <2>3. CASE AskRecording
    BY <1>1, <2>3 DEF AskRecording
  <2>4. ASSUME NEW flag \in BOOLEAN, WriteText(flag) \/ MicrophoneAnswer(flag)
        PROVE  ComposerInv'
    BY <1>1, <2>4 DEF WriteText, MicrophoneAnswer
  <2>5. ASSUME NEW f \in Files, ChooseFile(f)
        PROVE  ComposerInv'
    <3>1. /\ mediaItems' \subseteq Files /\ IsFiniteSet(mediaItems')
          /\ Cardinality(mediaItems') <= MaxMedia /\ previews' \subseteq Files
      BY <1>1, <2>5, SelectMediaKeeps DEF ChooseFile
    <3>2. QED
      BY <1>1, <2>5, <3>1 DEF ChooseFile
  <2>6. ASSUME NEW f \in Files, RemoveMedia(f)
        PROVE  ComposerInv'
    <3>1. f \in mediaItems /\ mediaItems' = mediaItems \ {f}
      BY <2>6 DEF RemoveMedia
    <3>2. /\ IsFiniteSet(mediaItems \ {f}) /\ Cardinality(mediaItems) \in Nat
          /\ Cardinality(mediaItems \ {f}) = Cardinality(mediaItems) - 1
      BY <1>1, <3>1, FS_RemoveElement, FS_CardinalityType
    <3>3. IsFiniteSet(mediaItems') /\ Cardinality(mediaItems') <= MaxMedia
      BY <1>1, <3>1, <3>2, PublishingAssumption
    <3>4. QED
      BY <1>1, <2>6, <3>1, <3>3 DEF RemoveMedia
  <2>7. QED
    BY <2>1, <2>2, <2>3, <2>4, <2>5, <2>6
<1>4. QED
  BY <1>1, <1>2, <1>3, TasksUnchanged DEF PublishingInv

-----------------------------------------------------------------------------
LEMMA PublishKeepsInv ==
    ASSUME PublishingInv, NEW p \in Posts, Publish(p)
    PROVE  PublishingInv'
<1>1. ComposerInv /\ TaskTypeOK /\ TaskInv
  BY DEF PublishingInv, TasksInv
<1>2. /\ mediaItems' = {} /\ previews' = previews \ mediaItems /\ composing' = FALSE
      /\ hasText' = FALSE /\ UNCHANGED <<recorder, recorderSaw>>
  BY DEF Publish, Closes
<1>3. ComposerInv'
  BY <1>1, <1>2, NothingSelected DEF ComposerInv, ComposerTypeOK, SelectionFinite
<1>4. /\ posts[p] = NoPost /\ mediaItems \subseteq Files /\ mediaItems # NoPost
      /\ posts' = [posts EXCEPT ![p] = mediaItems]
      /\ delivery' = [delivery EXCEPT ![p] = "uploading"]
      /\ uploads' = [uploads EXCEPT ![p] = [f \in mediaItems |-> Attempts]]
      /\ tasked' = tasked \union {p} /\ UNCHANGED <<backingOff, created>>
  BY <1>1, NoPostAssumption DEF Publish, ComposerInv, ComposerTypeOK, NoPost
<1>5. Attempts \in Rejected..Accepted
  BY PublishingAssumption DEF Rejected, Accepted
<1>6. TaskTypeOK'
  BY <1>1, <1>4, <1>5 DEF TaskTypeOK, Deliveries
<1>7. p \notin DOMAIN created /\ p \notin tasked
  BY <1>1, <1>4 DEF TaskInv, CreatedWasPosted, TaskUploadsPost
<1>8. TaskUploadsPost' /\ CreatedWasPosted'
  BY <1>1, <1>4, <1>7 DEF TaskTypeOK, TaskInv, TaskUploadsPost, CreatedWasPosted
<1>9. UploadingIsTasked' /\ CreatedComplete'
  BY <1>1, <1>4, <1>7 DEF TaskTypeOK, TaskInv, UploadingIsTasked, CreatedComplete
<1>10. QED
  BY <1>3, <1>6, <1>8, <1>9 DEF PublishingInv, TasksInv, TaskInv

\* An attempt of an upload ends, or its pause.
LEMMA UploadKeepsInv ==
    ASSUME PublishingInv, NEW p \in Posts, NEW f \in DOMAIN uploads[p],
           Uploaded(p, f) \/ UploadRetried(p, f) \/ UploadRefused(p, f) \/ BackoffEnds(p, f)
    PROVE  PublishingInv'
<1>1. ComposerInv /\ TaskTypeOK /\ TaskInv
  BY DEF PublishingInv, TasksInv
<1>2. UNCHANGED composerVars /\ UNCHANGED <<posts, delivery, tasked, created>>
  BY DEF Uploaded, UploadRetried, UploadRefused, BackoffEnds, UploadAnswered
<1>3. f \in Files /\ uploads[p][f] \in Rejected..Accepted
  BY <1>1 DEF TaskTypeOK
<1>4. /\ uploads' = uploads
         \/ \E result \in Rejected..Accepted : uploads' = [uploads EXCEPT ![p][f] = result]
      /\ backingOff' \subseteq backingOff \union {<<p, f>>}
  <2>1. CASE Uploaded(p, f)
    <3>1. Accepted \in Rejected..Accepted
      BY PublishingAssumption DEF Rejected, Accepted
    <3>2. QED
      BY <2>1, <3>1 DEF Uploaded, UploadAnswered
  <2>2. CASE UploadRefused(p, f)
    <3>1. Rejected \in Rejected..Accepted
      BY PublishingAssumption DEF Rejected, Accepted
    <3>2. QED
      BY <2>2, <3>1 DEF UploadRefused, UploadAnswered
  <2>3. CASE UploadRetried(p, f)
    <3>1. AttemptLeft(uploads[p][f]) \in Rejected..Accepted
      BY <1>3, <2>3, PublishingAssumption DEF UploadRetried, Uploading, AttemptLeft, Rejected, Accepted
    <3>2. QED
      BY <2>3, <3>1 DEF UploadRetried, UploadAnswered
  <2>4. CASE BackoffEnds(p, f)
    BY <2>4 DEF BackoffEnds
  <2>5. QED
    BY <2>1, <2>2, <2>3, <2>4
<1> DEFINE SameFiles ==
      /\ DOMAIN uploads' = Posts
      /\ \A q \in Posts : DOMAIN uploads'[q] = DOMAIN uploads[q]
                          /\ \A g \in DOMAIN uploads'[q] : uploads'[q][g] \in Rejected..Accepted
<1>5. SameFiles
  <2>1. CASE uploads' = uploads
    BY <1>1, <2>1 DEF TaskTypeOK
  <2>2. ASSUME NEW result \in Rejected..Accepted, uploads' = [uploads EXCEPT ![p][f] = result]
        PROVE  SameFiles
    BY <1>1, <2>2 DEF TaskTypeOK
  <2>3. QED
    BY <1>4, <2>1, <2>2
<1>6. TaskTypeOK'
  BY <1>1, <1>2, <1>3, <1>4, <1>5 DEF TaskTypeOK
<1>7. TaskInv'
  BY <1>1, <1>2, <1>5
     DEF TaskTypeOK, TaskInv, TaskUploadsPost, CreatedWasPosted, UploadingIsTasked, CreatedComplete
<1>8. QED
  BY <1>1, <1>2, <1>6, <1>7, ComposerUnchanged DEF PublishingInv, TasksInv

\* A task ends, with what the server has of its post when it was asked to create it.
LEMMA EndedTaskKeepsInv ==
    ASSUME PublishingInv, NEW p \in tasked, NEW status \in {"published", "failed"},
           Delivered(p, status),
           \/ status = "failed" /\ UNCHANGED created
           \/ MediaReady(p) /\ Created(p)
    PROVE  PublishingInv'
<1>1. ComposerInv /\ TaskTypeOK /\ TaskInv /\ p \in Posts
  BY DEF PublishingInv, TasksInv, TaskTypeOK
<1>2. /\ UNCHANGED composerVars /\ posts' = posts
      /\ delivery' = [delivery EXCEPT ![p] = IF delivery[p] = "none" THEN "none" ELSE status]
      /\ tasked' = tasked \ {p} /\ uploads' = [uploads EXCEPT ![p] = NoUploads]
      /\ backingOff' \subseteq backingOff
  BY DEF Delivered
<1>3. /\ posts[p] # NoPost /\ DOMAIN uploads[p] = posts[p] /\ posts[p] \subseteq Files
  BY <1>1 DEF TaskInv, TaskUploadsPost, TaskTypeOK
<1>4. \/ status = "failed" /\ created' = created
      \/ /\ DOMAIN created' = DOMAIN created \union {p} /\ created'[p] = posts[p]
         /\ \A q \in DOMAIN created \ {p} : created'[q] = created[q]
  <2>1. CASE MediaReady(p) /\ Created(p)
    <3>1. UploadedOf(p) = posts[p]
      BY <1>3, <2>1 DEF UploadedOf, MediaReady
    <3>2. QED
      BY <2>1, <3>1 DEF Created
  <2>2. QED
    BY <2>1
<1>5. DOMAIN uploads' = Posts /\ DOMAIN uploads'[p] = {}
      /\ \A q \in Posts \ {p} : uploads'[q] = uploads[q]
  BY <1>1, <1>2 DEF TaskTypeOK, NoUploads
<1>6. delivery' \in [Posts -> Deliveries]
  BY <1>1, <1>2 DEF TaskTypeOK, Deliveries
<1>7. DOMAIN created' \subseteq Posts /\ \A q \in DOMAIN created' : created'[q] \subseteq Files
  BY <1>1, <1>3, <1>4 DEF TaskTypeOK
<1>8. TaskTypeOK'
  BY <1>1, <1>2, <1>5, <1>6, <1>7 DEF TaskTypeOK
<1>9. TaskUploadsPost' /\ CreatedWasPosted'
  BY <1>1, <1>2, <1>3, <1>4, <1>5 DEF TaskTypeOK, TaskInv, TaskUploadsPost, CreatedWasPosted
<1>10. UploadingIsTasked' /\ CreatedComplete'
  <2>1. \A q \in DOMAIN created' : created'[q] = posts'[q]
    BY <1>1, <1>2, <1>4 DEF TaskInv, CreatedComplete
  <2>2. \A q \in Posts : delivery'[q] # "none" =>
             delivery'[q] = IF q = p THEN status ELSE delivery[q]
    BY <1>1, <1>2 DEF TaskTypeOK
  <2>3. QED
    BY <1>1, <1>2, <1>4, <2>1, <2>2 DEF TaskInv, UploadingIsTasked, CreatedComplete
<1>11. QED
  BY <1>1, <1>2, <1>8, <1>9, <1>10, ComposerUnchanged DEF PublishingInv, TasksInv, TaskInv

LEMMA TaskKeepsInv ==
    ASSUME PublishingInv, NEW p \in Posts, TaskStep(p)
    PROVE  PublishingInv'
<1>1. CASE CreateActivity(p)
  BY <1>1, EndedTaskKeepsInv DEF CreateActivity
<1>2. CASE DeliveryFails(p)
  BY <1>2, EndedTaskKeepsInv DEF DeliveryFails
<1>3. CASE CreationFails(p)
  BY <1>3, EndedTaskKeepsInv DEF CreationFails
<1>4. QED
  BY <1>1, <1>2, <1>3, UploadKeepsInv DEF TaskStep

\* The whole of the store's activities, or the whole page, goes.
LEMMA ReplacedKeepsInv ==
    ASSUME PublishingInv, CosmosReplaces \/ ReloadPage
    PROVE  PublishingInv'
<1>1. ComposerInv /\ TaskTypeOK /\ TaskInv
  BY DEF PublishingInv, TasksInv
<1>2. CASE CosmosReplaces
  <2>1. /\ UNCHANGED composerVars /\ delivery' = [p \in Posts |-> "none"]
        /\ UNCHANGED <<posts, uploads, backingOff, tasked, created>>
    BY <1>2 DEF CosmosReplaces
  <2>2. TaskTypeOK'
    BY <1>1, <2>1 DEF TaskTypeOK, Deliveries
  <2>3. TaskInv'
    BY <1>1, <2>1
       DEF TaskInv, TaskUploadsPost, CreatedWasPosted, UploadingIsTasked, CreatedComplete
  <2>4. QED
    BY <1>1, <2>1, <2>2, <2>3, ComposerUnchanged DEF PublishingInv, TasksInv
<1>3. CASE ReloadPage
  <2>1. /\ delivery' = [p \in Posts |-> IF Persisted(p) THEN delivery[p] ELSE "none"]
        /\ tasked' = {} /\ uploads' = [p \in Posts |-> NoUploads] /\ backingOff' = {}
        /\ UNCHANGED <<posts, created>>
    BY <1>3 DEF ReloadPage
  <2>2. ComposerInv'
    BY <1>3, NothingSelected DEF ReloadPage, ComposerInv, ComposerTypeOK, SelectionFinite
  <2>3. TaskTypeOK'
    BY <1>1, <2>1 DEF TaskTypeOK, Deliveries, NoUploads
  <2>4. TaskInv'
    BY <1>1, <2>1
       DEF TaskInv, TaskUploadsPost, CreatedWasPosted, UploadingIsTasked, CreatedComplete, Persisted
  <2>5. QED
    BY <2>2, <2>3, <2>4 DEF PublishingInv, TasksInv
<1>4. QED
  BY <1>2, <1>3

LEMMA PublishingStepInv == PublishingInv /\ [PublishingNext]_publishingVars => PublishingInv'
<1>1. PublishingInv /\ UNCHANGED publishingVars => PublishingInv'
  BY ComposerUnchanged, TasksUnchanged DEF PublishingInv, publishingVars, composerVars, taskVars
<1>2. PublishingInv /\ PublishingNext => PublishingInv'
  BY ComposerKeepsInv, PublishKeepsInv, TaskKeepsInv, ReplacedKeepsInv DEF PublishingNext
<1>3. QED
  BY <1>1, <1>2

LEMMA PublishingInductive == PublishingSpec => []PublishingInv
BY PublishingInitInv, PublishingStepInv, PTL DEF PublishingSpec

-----------------------------------------------------------------------------
\* Type correctness of the composer, the tasks and the server's activities; no more
\* than MaxMedia files are selected, whichever files a recording was asked for with.
THEOREM PublishingTypes == PublishingSpec => []PublishingTypeOK
<1>1. PublishingInv => PublishingTypeOK
  BY DEF PublishingInv, ComposerInv, TasksInv, PublishingTypeOK, ComposerTypeOK, TaskTypeOK
<1>2. QED
  BY <1>1, PublishingInductive, PTL

\* No post is shown as uploading without a task that uploads it (partialize of
\* useProductStore.ts).
THEOREM UploadingHasTask == PublishingSpec => []UploadingIsTasked
<1>1. PublishingInv => UploadingIsTasked
  BY DEF PublishingInv, TasksInv, TaskInv
<1>2. QED
  BY <1>1, PublishingInductive, PTL

\* What the server has of a post is complete, and what is shown as published it has
\* (apiClient.ts waits for every upload).
THEOREM CreatedIsComplete == PublishingSpec => []CreatedComplete
<1>1. PublishingInv => CreatedComplete
  BY DEF PublishingInv, TasksInv, TaskInv
<1>2. QED
  BY <1>1, PublishingInductive, PTL

(***************************************************************************)
(* Broadcasts: what was announced is known, and not announced again.       *)
(***************************************************************************)

(***************************************************************************)
(* Sequences without repetitions, and the greatest of finitely many.       *)
(***************************************************************************)
LEMMA InjectiveRange ==
    ASSUME NEW S, NEW s \in Seq(S), IsInjective(s)
    PROVE  Cardinality(Range(s)) = Len(s)
<1>1. s \in [1..Len(s) -> S] /\ DOMAIN s = 1..Len(s) /\ Len(s) \in Nat
  OBVIOUS
<1>2. s \in [1..Len(s) -> Range(s)]
  BY <1>1 DEF Range
<1>3. s \in Bijection(1..Len(s), Range(s))
  <2>1. s \in Injection(1..Len(s), Range(s))
    BY <1>2 DEF Injection
  <2>2. s \in Surjection(1..Len(s), Range(s))
    <3>1. \A x \in Range(s) : \E i \in 1..Len(s) : s[i] = x
      BY <1>1 DEF Range
    <3>2. QED
      BY <1>2, <3>1 DEF Surjection
  <2>3. QED
    BY <2>1, <2>2 DEF Bijection
<1>4. IsFiniteSet(1..Len(s)) /\ Cardinality(1..Len(s)) = Len(s)
  <2>1. 1 \in Int /\ Len(s) \in Int
    BY <1>1
  <2>2. /\ IsFiniteSet(1..Len(s))
        /\ Cardinality(1..Len(s)) = IF 1 > Len(s) THEN 0 ELSE Len(s) - 1 + 1
    BY <2>1, FS_Interval
  <2>3. QED
    BY <1>1, <2>2
<1>5. ExistsBijection(1..Len(s), Range(s))
  BY <1>3 DEF ExistsBijection
<1>6. QED
  BY <1>4, <1>5, FS_Bijection

LEMMA BothInjective ==
    ASSUME NEW S, NEW s \in Seq(S), NEW t \in Seq(S), IsInjective(s), IsInjective(t),
           Range(s) \cap Range(t) = {}
    PROVE  /\ s \o t \in Seq(S) /\ IsInjective(s \o t)
           /\ Range(s \o t) = Range(s) \union Range(t)
<1> DEFINE b == s \o t
<1>1. /\ b \in Seq(S) /\ Len(s) \in Nat /\ Len(t) \in Nat
      /\ DOMAIN s = 1..Len(s) /\ DOMAIN t = 1..Len(t) /\ DOMAIN b = 1..(Len(s) + Len(t))
      /\ \A i \in 1..Len(s) : b[i] = s[i]
      /\ \A i \in 1..Len(t) : b[Len(s) + i] = t[i]
  <2>1. b \in Seq(S) /\ Len(b) = Len(s) + Len(t)
    BY ConcatProperties
  <2>2. \A i \in 1..(Len(s) + Len(t)) : b[i] = IF i <= Len(s) THEN s[i] ELSE t[i - Len(s)]
    BY ConcatProperties
  <2>3. Len(s) \in Nat /\ Len(t) \in Nat
    OBVIOUS
  <2>4. \A i \in 1..Len(t) : Len(s) + i \in 1..(Len(s) + Len(t)) /\ Len(s) + i - Len(s) = i
                             /\ ~(Len(s) + i <= Len(s))
    BY <2>3
  <2>5. QED
    BY <2>1, <2>2, <2>3, <2>4
<1> HIDE DEF b
<1>2. \A i \in DOMAIN b : \/ i \in 1..Len(s)
                          \/ \E j \in 1..Len(t) : i = Len(s) + j
  <2> SUFFICES ASSUME NEW i \in DOMAIN b, i \notin 1..Len(s)
               PROVE  \E j \in 1..Len(t) : i = Len(s) + j
    OBVIOUS
  <2>1. i - Len(s) \in 1..Len(t) /\ i = Len(s) + (i - Len(s))
    BY <1>1
  <2>2. QED
    BY <2>1
<1>3. Range(b) = Range(s) \union Range(t)
  <2>1. ASSUME NEW x \in Range(b) PROVE x \in Range(s) \union Range(t)
    <3>1. PICK i \in DOMAIN b : x = b[i]
      BY DEF Range
    <3>2. CASE i \in 1..Len(s)
      BY <1>1, <3>1, <3>2 DEF Range
    <3>3. ASSUME NEW j \in 1..Len(t), i = Len(s) + j
          PROVE  x \in Range(t)
      BY <1>1, <3>1, <3>3 DEF Range
    <3>4. QED
      BY <1>2, <3>2, <3>3
  <2>2. ASSUME NEW x \in Range(s) PROVE x \in Range(b)
    <3>1. PICK i \in 1..Len(s) : x = s[i]
      BY <1>1 DEF Range
    <3>2. i \in DOMAIN b /\ b[i] = x
      BY <1>1, <3>1
    <3>3. QED
      BY <3>2 DEF Range
  <2>3. ASSUME NEW x \in Range(t) PROVE x \in Range(b)
    <3>1. PICK i \in 1..Len(t) : x = t[i]
      BY <1>1 DEF Range
    <3>2. Len(s) + i \in DOMAIN b /\ b[Len(s) + i] = x
      BY <1>1, <3>1
    <3>3. QED
      BY <3>2 DEF Range
  <2>4. QED
    BY <2>1, <2>2, <2>3
<1>4. ASSUME NEW i \in 1..Len(s), NEW j \in 1..Len(t) PROVE s[i] # t[j]
  BY <1>1 DEF Range
<1>5. ASSUME NEW i \in DOMAIN b, NEW j \in DOMAIN b, b[i] = b[j]
      PROVE  i = j
  <2>1. CASE i \in 1..Len(s) /\ j \in 1..Len(s)
    BY <1>1, <1>5, <2>1 DEF IsInjective
  <2>2. ASSUME NEW k \in 1..Len(t), NEW l \in 1..Len(t), i = Len(s) + k, j = Len(s) + l
        PROVE  i = j
    BY <1>1, <1>5, <2>2 DEF IsInjective
  <2>3. ASSUME NEW k \in 1..Len(t), i \in 1..Len(s), j = Len(s) + k
        PROVE  i = j
    BY <1>1, <1>4, <1>5, <2>3
  <2>4. ASSUME NEW k \in 1..Len(t), j \in 1..Len(s), i = Len(s) + k
        PROVE  i = j
    BY <1>1, <1>4, <1>5, <2>4
  <2>5. QED
    BY <1>2, <2>1, <2>2, <2>3, <2>4
<1>6. QED
  BY <1>1, <1>3, <1>5 DEF IsInjective, b

\* The greatest of a set is one of it: above any other one there are fewer.
LEMMA MaxIsOne ==
    ASSUME NEW S \in SUBSET Nat, IsFiniteSet(S), S # {}
    PROVE  Max(S) \in S
<1> DEFINE Above(x) == {y \in S : y > x}
           Aboves == {Above(x) : x \in S}
<1>1. Aboves \subseteq FiniteSubsetsOf(S) /\ Aboves # {}
  <2>1. \A x \in S : Above(x) \in SUBSET S
    OBVIOUS
  <2>2. FiniteSubsetsOf(S) = SUBSET S
    BY FS_FiniteSubsetsOfFinite
  <2>3. PICK x \in S : TRUE
    OBVIOUS
  <2> HIDE DEF Above
  <2>4. Above(x) \in Aboves
    BY <2>3
  <2>5. \A T \in Aboves : T \in SUBSET S
    BY <2>1
  <2> HIDE DEF Aboves
  <2>6. QED
    BY <2>2, <2>4, <2>5
<1>2. PICK T \in Aboves : \A U \in Aboves : ~(<<U, T>> \in StrictSubsetOrdering(S))
  BY <1>1, FS_StrictSubsetOrderingWellFounded, WFMin
<1>3. PICK x \in S : T = Above(x)
  BY <1>2
<1>4. ASSUME NEW z \in S, z > x
      PROVE  FALSE
  <2>1. Above(z) \subseteq Above(x) /\ z \in Above(x) /\ z \notin Above(z)
    <3>1. x \in Nat /\ z \in Nat /\ ~(z > z)
      OBVIOUS
    <3>2. \A y \in S : y > z => y > x
      BY <1>4, <3>1
    <3>3. QED
      BY <1>4, <3>1, <3>2
  <2>2. <<Above(z), Above(x)>> \in StrictSubsetOrdering(S)
    BY <2>1 DEF StrictSubsetOrdering
  <2>3. QED
    BY <1>2, <1>3, <2>2
<1>5. \A y \in S : x >= y
  BY <1>4
<1>6. QED
  BY <1>5 DEF Max

LEMMA SequencesOf ==
    ASSUME NEW S, IsFiniteSet(S), NEW s \in SetToSeqs(S)
    PROVE  s \in Seq(S) /\ IsInjective(s)
<1>1. Cardinality(S) \in Nat
  BY FS_CardinalityType
<1>2. s \in [1..Cardinality(S) -> S]
  BY DEF SetToSeqs
<1>3. \A i, j \in 1..Cardinality(S) : i # j => s[i] # s[j]
  BY DEF SetToSeqs
<1>4. s \in Seq(S)
  BY <1>1, <1>2
<1>5. QED
  BY <1>2, <1>3, <1>4 DEF IsInjective

(***************************************************************************)
(* What the effects of the hooks announce.                                 *)
(***************************************************************************)
\* What was announced is known: it is not announced again.
HeardKnown ==
    /\ ~repeated
    /\ heard \subseteq ((Activities \ OwnActivities) \X {"remote-activity", "unread-preview"})
                       \union Signals
    /\ \A a \in Activities : <<a, "remote-activity">> \in heard => a \in known
    /\ \A a \in Activities : <<a, "unread-preview">> \in heard => previewShown
    /\ heard \cap Signals \subseteq knownSignals

ServerTypeOK ==
    /\ posted \subseteq Activities /\ seen \subseteq posted
    /\ sent \subseteq Signals /\ readSignals \subseteq sent
    /\ shown \in BOOLEAN /\ opened \in Activities \union {NoActivity} /\ marking \subseteq Activities

HookTypeOK ==
    /\ listed \subseteq Activities /\ unread \subseteq listed
    /\ near \in BOOLEAN /\ inGalaxy \in BOOLEAN
    /\ known \subseteq Activities /\ previewShown \in BOOLEAN
    /\ activeEvent \in Events \union {NoEvent} /\ eventQueue \in Seq(Events)
    /\ signals \subseteq Signals /\ knownSignals \subseteq Signals
    /\ activeSignal \in Signals \union {NoSignal} /\ signalQueue \in Seq(Signals)
    /\ heard \subseteq Events \union Signals /\ repeated \in BOOLEAN

HooksInv == HookTypeOK /\ HeardKnown

LEMMA AnnounceableOnes ==
    ASSUME NEW acts \in SUBSET Activities, NEW unr, NEW nr
    PROVE  /\ Announceable(acts, unr, nr) \subseteq acts \ OwnActivities
           /\ IsFiniteSet(Announceable(acts, unr, nr))
<1>1. Announceable(acts, unr, nr) \in SUBSET Activities
  BY DEF Announceable
<1>2. QED
  BY <1>1, BroadcastAssumption, FS_Subset DEF Announceable

LEMMA PreviewOf ==
    ASSUME NEW acts \in SUBSET Activities, NEW unr, NEW nr, NEW gal, NEW current
    PROVE  LET preview == Previews(current, acts, unr, nr, gal)
           IN  \/ preview = <<>>
               \/ /\ ~previewShown
                  /\ \E a \in Activities \ OwnActivities : preview = <<<<a, "unread-preview">>>>
<1> DEFINE S == Announceable(acts, unr, nr)
<1>1. S \subseteq Activities \ OwnActivities /\ IsFiniteSet(S) /\ S \in SUBSET Nat
  BY AnnounceableOnes, BroadcastAssumption
<1>2. S # {} => Max(S) \in Activities \ OwnActivities
  BY <1>1, MaxIsOne
<1> HIDE DEF S
<1>3. QED
  BY <1>2 DEF Previews, S

LEMMA RemoteEvents ==
    ASSUME NEW S \in SUBSET (Activities \ OwnActivities), IsFiniteSet(S), NEW remote \in SetToSeqs(S)
    PROVE  LET events == [i \in 1..Len(remote) |-> <<remote[i], "remote-activity">>]
           IN  /\ events \in Seq(Events) /\ IsInjective(events)
               /\ \A e \in Range(events) : e \in S \X {"remote-activity"}
<1> DEFINE events == [i \in 1..Len(remote) |-> <<remote[i], "remote-activity">>]
<1>1. remote \in Seq(S) /\ IsInjective(remote)
  BY SequencesOf
<1>2. /\ Len(remote) \in Nat /\ DOMAIN remote = 1..Len(remote)
      /\ \A i \in 1..Len(remote) : remote[i] \in S
  BY <1>1
<1>3. \A i \in 1..Len(remote) : /\ events[i] = <<remote[i], "remote-activity">>
                                /\ events[i] \in S \X {"remote-activity"}
  BY <1>2
<1>4. S \X {"remote-activity"} \subseteq Events
  BY DEF Events, Sources
<1>5. events \in Seq(Events)
  BY <1>2, <1>3, <1>4
<1>6. DOMAIN events = 1..Len(remote)
  OBVIOUS
<1>7. \A i, j \in 1..Len(remote) : events[i] = events[j] => i = j
  BY <1>1, <1>2, <1>3 DEF IsInjective
<1> HIDE DEF events
<1>8. IsInjective(events) /\ \A e \in Range(events) : e \in S \X {"remote-activity"}
  BY <1>3, <1>6, <1>7 DEF IsInjective, Range
<1>9. QED
  BY <1>5, <1>8 DEF events

LEMMA PreviewEvents ==
    ASSUME NEW preview, \/ preview = <<>>
                        \/ \E a \in Activities \ OwnActivities : preview = <<<<a, "unread-preview">>>>
    PROVE  /\ preview \in Seq(Events) /\ IsInjective(preview)
           /\ \A x \in Range(preview) : /\ preview # <<>>
                                        /\ x \in (Activities \ OwnActivities) \X {"unread-preview"}
<1>1. CASE preview = <<>>
  <2>1. preview \in Seq(Events) /\ DOMAIN preview = {}
    BY <1>1
  <2>2. IsInjective(preview)
    BY <2>1 DEF IsInjective
  <2>3. Range(preview) = {}
    BY <2>1 DEF Range
  <2>4. QED
    BY <2>1, <2>2, <2>3
<1>2. CASE \E a \in Activities \ OwnActivities : preview = <<<<a, "unread-preview">>>>
  <2>1. PICK a \in Activities \ OwnActivities : preview = <<<<a, "unread-preview">>>>
    BY <1>2
  <2> DEFINE e == <<a, "unread-preview">>
  <2>2. e \in Events /\ e \in (Activities \ OwnActivities) \X {"unread-preview"} /\ preview = <<e>>
    BY <2>1 DEF Events, Sources
  <2> HIDE DEF e
  <2>3. <<e>> \in Seq(Events) /\ DOMAIN <<e>> = {1} /\ <<e>>[1] = e /\ <<e>> # <<>>
    BY <2>2
  <2>4. IsInjective(preview)
    BY <2>2, <2>3 DEF IsInjective
  <2>5. \A x \in Range(preview) : x = e
    BY <2>2, <2>3 DEF Range
  <2>6. QED
    BY <2>2, <2>3, <2>4, <2>5
<1>3. QED
  BY <1>1, <1>2

EventsOf(remote, preview) ==
    [i \in 1..Len(remote) |-> <<remote[i], "remote-activity">>] \o preview

\* Nothing that is announced by the effects was announced before, or is announced twice.
LEMMA AnnouncedNew ==
    ASSUME NEW acts \in SUBSET Activities, NEW S \in SUBSET (acts \ OwnActivities), IsFiniteSet(S),
           NEW remote \in SetToSeqs(S), NEW T \in SUBSET Signals, NEW fresh \in SetToSeqs(T),
           NEW preview, \/ preview = <<>>
                        \/ \E a \in Activities \ OwnActivities : preview = <<<<a, "unread-preview">>>>
    PROVE  /\ EventsOf(remote, preview) \in Seq(Events) /\ fresh \in Seq(Signals)
           /\ Cardinality(Range(EventsOf(remote, preview) \o fresh))
                = Len(EventsOf(remote, preview) \o fresh)
           /\ \A x \in Range(EventsOf(remote, preview) \o fresh) :
                 \/ x \in S \X {"remote-activity"}
                 \/ preview # <<>> /\ x \in (Activities \ OwnActivities) \X {"unread-preview"}
                 \/ x \in T
<1> DEFINE first == [i \in 1..Len(remote) |-> <<remote[i], "remote-activity">>]
           events == first \o preview
           announced == events \o fresh
<1>1. /\ first \in Seq(Events) /\ IsInjective(first)
      /\ \A x \in Range(first) : x \in S \X {"remote-activity"}
  BY RemoteEvents
<1> HIDE DEF first
<1>2. /\ preview \in Seq(Events) /\ IsInjective(preview)
      /\ \A x \in Range(preview) : /\ preview # <<>>
                                   /\ x \in (Activities \ OwnActivities) \X {"unread-preview"}
  BY PreviewEvents
<1>3. T \subseteq Signals /\ fresh \in Seq(T) /\ IsInjective(fresh) /\ \A x \in Range(fresh) : x \in T
  <2>1. IsFiniteSet(T)
    BY BroadcastAssumption, FS_Subset
  <2>2. fresh \in Seq(T) /\ IsInjective(fresh)
    BY <2>1, SequencesOf
  <2>3. QED
    BY <2>2 DEF Range
<1>4. Range(first) \cap Range(preview) = {}
  BY <1>1, <1>2
<1>5. /\ events \in Seq(Events) /\ IsInjective(events)
      /\ Range(events) = Range(first) \union Range(preview)
  BY <1>1, <1>2, <1>4, BothInjective
<1> HIDE DEF events
<1>6. fresh \in Seq(Signals)
  BY <1>3
<1>7. events \in Seq(Events \union Signals) /\ fresh \in Seq(Events \union Signals)
  BY <1>5, <1>6
<1>8. Range(events) \cap Range(fresh) = {}
  <2>1. Range(events) \subseteq Events
    BY <1>5 DEF Range
  <2>2. QED
    BY <1>3, <2>1, BroadcastAssumption
<1>9. /\ announced \in Seq(Events \union Signals) /\ IsInjective(announced)
      /\ Range(announced) = Range(events) \union Range(fresh)
  BY <1>3, <1>5, <1>7, <1>8, BothInjective
<1>10. Cardinality(Range(announced)) = Len(announced)
  BY <1>9, InjectiveRange
<1> HIDE DEF announced
<1>11. \A x \in Range(announced) :
          \/ x \in S \X {"remote-activity"}
          \/ preview # <<>> /\ x \in (Activities \ OwnActivities) \X {"unread-preview"}
          \/ x \in T
  BY <1>1, <1>2, <1>3, <1>5, <1>9
<1>12. QED
  BY <1>5, <1>6, <1>10, <1>11 DEF announced, events, first, EventsOf

LEMMA EnqueuedType ==
    ASSUME NEW S, NEW none, NEW current \in S \union {none}, NEW queue \in Seq(S), NEW more \in Seq(S)
    PROVE  /\ Enqueued(current, none, queue, more)[1] \in S \union {none}
           /\ Enqueued(current, none, queue, more)[2] \in Seq(S)
<1>1. CASE current # none \/ more = <<>>
  <2>1. queue \o more \in Seq(S)
    OBVIOUS
  <2>2. QED
    BY <1>1, <2>1 DEF Enqueued
<1>2. CASE ~(current # none \/ more = <<>>)
  <2>1. Head(more) \in S /\ queue \o Tail(more) \in Seq(S)
    BY <1>2
  <2>2. QED
    BY <1>2, <2>1 DEF Enqueued
<1>3. QED
  BY <1>1, <1>2

LEMMA NextOfType ==
    ASSUME NEW S, NEW none, NEW queue \in Seq(S)
    PROVE  NextOf(queue, none) \in S \union {none} /\ RestOf(queue) \in Seq(S)
BY DEF NextOf, RestOf

LEMMA EffectsInv ==
    ASSUME HooksInv, NEW acts \in SUBSET Activities, NEW unr \in SUBSET acts,
           NEW visible \in SUBSET Signals, NEW nr \in BOOLEAN, NEW gal \in BOOLEAN,
           NEW current \in Events \union {NoEvent}, NEW queue \in Seq(Events),
           NEW signal \in Signals \union {NoSignal}, NEW waiting \in Seq(Signals),
           Effects(acts, unr, visible, nr, gal, current, queue, signal, waiting)
    PROVE  HooksInv'
<1> DEFINE S == Announceable(acts, unr, nr) \ known
           T == IF gal /\ nr THEN visible \ knownSignals ELSE {}
           preview == Previews(current, acts, unr, nr, gal)
<1>1. PICK remote \in SetToSeqs(S), fresh \in SetToSeqs(T) :
        LET events == [i \in 1..Len(remote) |-> <<remote[i], "remote-activity">>] \o preview
            after == Enqueued(current, NoEvent, queue, events)
            afterSignals == Enqueued(signal, NoSignal, waiting, fresh)
        IN  /\ listed' = acts /\ unread' = unr /\ signals' = visible
            /\ near' = nr /\ inGalaxy' = gal
            /\ known' = KnownAfter(acts)
            /\ knownSignals' = IF gal THEN knownSignals \union visible ELSE knownSignals
            /\ previewShown' = (previewShown \/ preview # <<>>)
            /\ activeEvent' = after[1] /\ eventQueue' = after[2]
            /\ activeSignal' = afterSignals[1] /\ signalQueue' = afterSignals[2]
            /\ Heard(events \o fresh)
  BY DEF Effects
<1> DEFINE events == EventsOf(remote, preview)
           announced == events \o fresh
<1>2. S \in SUBSET (acts \ OwnActivities) /\ IsFiniteSet(S) /\ S \cap known = {} /\ T \in SUBSET Signals
  <2>1. /\ Announceable(acts, unr, nr) \subseteq acts \ OwnActivities
        /\ IsFiniteSet(Announceable(acts, unr, nr))
    BY AnnounceableOnes
  <2>2. QED
    BY <2>1, FS_Subset
<1>3. \/ preview = <<>>
      \/ ~previewShown /\ \E a \in Activities \ OwnActivities : preview = <<<<a, "unread-preview">>>>
  BY PreviewOf
<1>4. (T \subseteq visible \ knownSignals) /\ (~gal => T = {})
  OBVIOUS
<1> HIDE DEF S, T, preview
<1>5. /\ events \in Seq(Events) /\ fresh \in Seq(Signals)
      /\ Cardinality(Range(announced)) = Len(announced)
      /\ \A x \in Range(announced) :
            \/ x \in S \X {"remote-activity"}
            \/ preview # <<>> /\ x \in (Activities \ OwnActivities) \X {"unread-preview"}
            \/ x \in T
  <2>1. \/ preview = <<>>
        \/ \E a \in Activities \ OwnActivities : preview = <<<<a, "unread-preview">>>>
    BY <1>3
  <2>2. S \in SUBSET (acts \ OwnActivities) /\ IsFiniteSet(S) /\ T \in SUBSET Signals
    BY <1>2
  <2>3. remote \in SetToSeqs(S) /\ fresh \in SetToSeqs(T)
    OBVIOUS
  <2>4. QED
    BY <2>1, <2>2, <2>3, AnnouncedNew
<1> HIDE DEF events
<1>6. /\ listed' = acts /\ unread' = unr /\ signals' = visible /\ near' = nr /\ inGalaxy' = gal
      /\ known' = known \union acts
      /\ knownSignals' = IF gal THEN knownSignals \union visible ELSE knownSignals
      /\ previewShown' = (previewShown \/ preview # <<>>)
      /\ activeEvent' = Enqueued(current, NoEvent, queue, events)[1]
      /\ eventQueue' = Enqueued(current, NoEvent, queue, events)[2]
      /\ activeSignal' = Enqueued(signal, NoSignal, waiting, fresh)[1]
      /\ signalQueue' = Enqueued(signal, NoSignal, waiting, fresh)[2]
      /\ Heard(announced)
  BY <1>1 DEF KnownAfter, events, EventsOf
<1> HIDE DEF announced
<1>7. /\ activeEvent' \in Events \union {NoEvent} /\ eventQueue' \in Seq(Events)
      /\ activeSignal' \in Signals \union {NoSignal} /\ signalQueue' \in Seq(Signals)
  BY <1>5, <1>6, EnqueuedType
<1>8. /\ heard' = heard \union Range(announced)
      /\ repeated' = (repeated \/ Range(announced) \cap heard # {}
                               \/ Cardinality(Range(announced)) < Len(announced))
  BY <1>6 DEF Heard
<1>9. ASSUME NEW x \in Range(announced)
      PROVE  /\ x \notin heard
             /\ \/ x \in (Activities \ OwnActivities) \X {"remote-activity"} /\ x[1] \in acts
                \/ x \in (Activities \ OwnActivities) \X {"unread-preview"} /\ preview # <<>>
                \/ x \in Signals /\ x \in knownSignals'
  <2>1. CASE x \in S \X {"remote-activity"}
    <3>1. PICK a \in S : x = <<a, "remote-activity">>
      BY <2>1
    <3>2. a \in Activities \ OwnActivities /\ a \in acts /\ a \notin known
      BY <1>2
    <3>3. x \notin heard
      BY <3>1, <3>2 DEF HooksInv, HeardKnown
    <3>4. QED
      BY <3>1, <3>2, <3>3
  <2>2. CASE preview # <<>> /\ x \in (Activities \ OwnActivities) \X {"unread-preview"}
    <3>1. PICK a \in Activities \ OwnActivities : x = <<a, "unread-preview">>
      BY <2>2
    <3>2. x \notin heard
      BY <1>3, <2>2, <3>1 DEF HooksInv, HeardKnown
    <3>3. QED
      BY <2>2, <3>2
  <2>3. CASE x \in T
    BY <1>2, <1>4, <1>6, <2>3 DEF HooksInv, HeardKnown
  <2>4. QED
    BY <1>5, <2>1, <2>2, <2>3
<1>10. repeated' = FALSE
  <2>1. Len(announced) \in Nat /\ Cardinality(Range(announced)) = Len(announced)
    <3>1. announced \in Seq(Events \union Signals)
      BY <1>5 DEF announced
    <3>2. QED
      BY <1>5, <3>1
  <2>2. ~(Cardinality(Range(announced)) < Len(announced)) /\ Range(announced) \cap heard = {}
    BY <1>9, <2>1
  <2>3. QED
    BY <1>8, <2>2 DEF HooksInv, HeardKnown
<1>11. heard' \subseteq ((Activities \ OwnActivities) \X {"remote-activity", "unread-preview"})
                        \union Signals
  BY <1>8, <1>9 DEF HooksInv, HeardKnown
<1>12. \A a \in Activities : <<a, "remote-activity">> \in heard' => a \in known'
  <2> SUFFICES ASSUME NEW a \in Activities, <<a, "remote-activity">> \in Range(announced)
               PROVE  a \in acts
    BY <1>6, <1>8 DEF HooksInv, HeardKnown
  <2> DEFINE x == <<a, "remote-activity">>
  <2>1. x \notin Signals /\ x[1] = a /\ x \notin (Activities \ OwnActivities) \X {"unread-preview"}
    BY BroadcastAssumption DEF Events, Sources
  <2> HIDE DEF x
  <2>2. x \in Range(announced)
    BY DEF x
  <2>3. QED
    BY <1>9, <2>1, <2>2
<1>13. \A a \in Activities : <<a, "unread-preview">> \in heard' => previewShown'
  <2> SUFFICES ASSUME NEW a \in Activities, <<a, "unread-preview">> \in Range(announced)
               PROVE  preview # <<>>
    BY <1>6, <1>8 DEF HooksInv, HeardKnown
  <2> DEFINE x == <<a, "unread-preview">>
  <2>1. x \notin Signals /\ x \notin (Activities \ OwnActivities) \X {"remote-activity"}
    BY BroadcastAssumption DEF Events, Sources
  <2> HIDE DEF x
  <2>2. x \in Range(announced)
    BY DEF x
  <2>3. QED
    BY <1>9, <2>1, <2>2
<1>14. heard' \cap Signals \subseteq knownSignals'
  <2> SUFFICES ASSUME NEW x \in Signals, x \in Range(announced)
               PROVE  x \in knownSignals'
    BY <1>6, <1>8 DEF HooksInv, HeardKnown
  <2>1. x \notin Events
    BY BroadcastAssumption
  <2>2. QED
    BY <1>9, <2>1 DEF Events, Sources
<1>15. HeardKnown'
  BY <1>10, <1>11, <1>12, <1>13, <1>14 DEF HeardKnown
<1>16. HookTypeOK'
  <2>1. previewShown' \in BOOLEAN /\ near' \in BOOLEAN /\ inGalaxy' \in BOOLEAN /\ repeated' \in BOOLEAN
    BY <1>6, <1>10
  <2>2. heard' \subseteq Events \union Signals
    BY <1>11 DEF Events, Sources
  <2>3. knownSignals' \subseteq Signals /\ known' \subseteq Activities
    BY <1>6 DEF HooksInv, HookTypeOK
  <2>4. listed' \subseteq Activities /\ unread' \subseteq listed' /\ signals' \subseteq Signals
    BY <1>6
  <2>5. QED
    BY <1>7, <2>1, <2>2, <2>3, <2>4 DEF HookTypeOK
<1>17. QED
  BY <1>15, <1>16 DEF HooksInv

LEMMA StoreChangesInv ==
    ASSUME HooksInv, NEW acts \in SUBSET Activities, NEW unr \in SUBSET acts,
           NEW visible \in SUBSET Signals, StoreChanges(acts, unr, visible)
    PROVE  HooksInv'
<1>1. /\ near \in BOOLEAN /\ inGalaxy \in BOOLEAN
      /\ activeEvent \in Events \union {NoEvent} /\ eventQueue \in Seq(Events)
      /\ activeSignal \in Signals \union {NoSignal} /\ signalQueue \in Seq(Signals)
  BY DEF HooksInv, HookTypeOK
<1>2. QED
  BY <1>1, EffectsInv DEF StoreChanges

LEMMA EventEndsInv ==
    ASSUME HooksInv, NEW unr \in SUBSET listed, EventEnds(unr)
    PROVE  HooksInv'
<1>1. /\ near \in BOOLEAN /\ inGalaxy \in BOOLEAN
      /\ listed \in SUBSET Activities /\ signals \in SUBSET Signals
      /\ eventQueue \in Seq(Events)
      /\ activeSignal \in Signals \union {NoSignal} /\ signalQueue \in Seq(Signals)
  BY DEF HooksInv, HookTypeOK
<1>2. NextOf(eventQueue, NoEvent) \in Events \union {NoEvent} /\ RestOf(eventQueue) \in Seq(Events)
  BY <1>1, NextOfType
<1>3. QED
  BY <1>1, <1>2, EffectsInv DEF EventEnds

LEMMA SignalEndsInv ==
    ASSUME HooksInv, NEW visible \in SUBSET Signals, SignalEnds(visible)
    PROVE  HooksInv'
<1>1. /\ near \in BOOLEAN /\ inGalaxy \in BOOLEAN
      /\ listed \in SUBSET Activities /\ unread \in SUBSET listed
      /\ activeEvent \in Events \union {NoEvent} /\ eventQueue \in Seq(Events)
      /\ signalQueue \in Seq(Signals)
  BY DEF HooksInv, HookTypeOK
<1>2. NextOf(signalQueue, NoSignal) \in Signals \union {NoSignal} /\ RestOf(signalQueue) \in Seq(Signals)
  BY <1>1, NextOfType
<1>3. QED
  BY <1>1, <1>2, EffectsInv DEF SignalEnds

LEMMA HooksWait == ASSUME HooksInv, UNCHANGED hookVars PROVE HooksInv'
BY DEF hookVars, HooksInv, HookTypeOK, HeardKnown

LEMMA HooksKeep ==
    ASSUME ServerTypeOK, HooksInv, BroadcastNext
    PROVE  HooksInv'
<1>0. /\ posted \in SUBSET Activities /\ posted \ seen \in SUBSET posted
      /\ listed \in SUBSET Activities /\ unread \in SUBSET listed /\ signals \in SUBSET Signals
      /\ sent \ readSignals \in SUBSET Signals /\ signals \ {activeSignal} \in SUBSET Signals
      /\ \A a \in Activities : UnreadAfter(a) \in SUBSET listed /\ unread \ {a} \in SUBSET listed
  BY DEF ServerTypeOK, HooksInv, HookTypeOK, UnreadAfter
<1>1. CASE \/ (\E a \in Activities : FriendPublishes(a) \/ MarkFails(a))
           \/ (\E s \in Signals : FriendShares(s)) \/ ShownChanges \/ CloseDetailOf
  BY <1>1, HooksWait DEF FriendPublishes, MarkFails, FriendShares, ShownChanges, CloseDetailOf
<1>2. ASSUME NEW a \in Activities, PublishLocal(a)
      PROVE  HooksInv'
  <2> DEFINE after == Enqueued(activeEvent, NoEvent, eventQueue, <<<<a, "local-publish">>>>)
  <2>1. <<<<a, "local-publish">>>> \in Seq(Events)
    <3>1. <<a, "local-publish">> \in Events
      BY DEF Events, Sources
    <3>2. QED
      BY <3>1
  <2>2. /\ near \in BOOLEAN /\ inGalaxy \in BOOLEAN
        /\ activeEvent \in Events \union {NoEvent} /\ eventQueue \in Seq(Events)
        /\ activeSignal \in Signals \union {NoSignal} /\ signalQueue \in Seq(Signals)
    BY DEF HooksInv, HookTypeOK
  <2>3. after[1] \in Events \union {NoEvent} /\ after[2] \in Seq(Events)
    BY <2>1, <2>2, EnqueuedType
  <2>4. listed \union {a} \in SUBSET Activities /\ unread \union {a} \in SUBSET (listed \union {a})
    BY <1>0
  <2>5. Effects(listed \union {a}, unread \union {a}, signals, near, inGalaxy, after[1], after[2],
                activeSignal, signalQueue)
    BY <1>2 DEF PublishLocal
  <2> HIDE DEF after
  <2>6. QED
    BY <1>0, <2>2, <2>3, <2>4, <2>5, EffectsInv
<1>3. ASSUME NEW a \in Activities, SelectBeacon(a) \/ CloseBroadcast(a)
      PROVE  HooksInv'
  BY <1>0, <1>3, StoreChangesInv DEF SelectBeacon, CloseBroadcast
<1>4. ASSUME NEW a \in Activities, MarkAnswer(a)
      PROVE  HooksInv'
  <2>1. \/ StoreChanges(listed, unread \ {a}, signals)
        \/ StoreChanges(posted, posted \ seen', sent \ readSignals)
    BY <1>4 DEF MarkAnswer
  <2>2. posted \ seen' \in SUBSET posted
    OBVIOUS
  <2>3. QED
    BY <1>0, <2>1, <2>2, StoreChangesInv
<1>5. CASE CosmosArrives \/ SignalsArrive
  BY <1>0, <1>5, StoreChangesInv DEF CosmosArrives, SignalsArrive
<1>6. ASSUME NEW nr \in BOOLEAN, NEW gal \in BOOLEAN, SceneChanges(nr, gal)
      PROVE  HooksInv'
  <2>1. /\ activeEvent \in Events \union {NoEvent} /\ eventQueue \in Seq(Events)
        /\ activeSignal \in Signals \union {NoSignal} /\ signalQueue \in Seq(Signals)
    BY DEF HooksInv, HookTypeOK
  <2>2. QED
    BY <1>0, <1>6, <2>1, EffectsInv DEF SceneChanges
<1>7. CASE EventCompletes
  BY <1>0, <1>7, EventEndsInv DEF EventCompletes
<1>8. CASE SelectBroadcast
  <2>1. UnreadAfter(activeEvent[1]) \in SUBSET listed
    BY <1>0 DEF UnreadAfter
  <2>2. QED
    BY <1>8, <2>1, EventEndsInv DEF SelectBroadcast
<1>9. CASE SignalCompletes \/ SelectSignal
  BY <1>0, <1>9, SignalEndsInv DEF SignalCompletes, SelectSignal
<1>10. QED
  BY <1>1, <1>2, <1>3, <1>4, <1>5, <1>6, <1>7, <1>8, <1>9 DEF BroadcastNext

LEMMA ServerKeeps ==
    ASSUME ServerTypeOK, HooksInv, BroadcastNext
    PROVE  ServerTypeOK'
<1>1. ASSUME NEW a \in Activities, FriendPublishes(a) \/ PublishLocal(a)
      PROVE  ServerTypeOK'
  BY <1>1 DEF FriendPublishes, PublishLocal, ServerTypeOK
<1>2. ASSUME NEW a \in Activities, SelectBeacon(a) \/ CloseBroadcast(a)
      PROVE  ServerTypeOK'
  BY <1>2 DEF SelectBeacon, CloseBroadcast, OpenActivity, serverSideVars, ServerTypeOK
<1>3. ASSUME NEW a \in Activities, MarkAnswer(a) \/ MarkFails(a)
      PROVE  ServerTypeOK'
  BY <1>3 DEF MarkAnswer, MarkFails, serverSideVars, ServerTypeOK
<1>4. ASSUME NEW s \in Signals, FriendShares(s)
      PROVE  ServerTypeOK'
  BY <1>4 DEF FriendShares, ServerTypeOK
<1>5. CASE \/ CosmosArrives \/ SignalsArrive \/ CloseDetailOf \/ EventCompletes \/ SignalCompletes
           \/ (\E nr, gal \in BOOLEAN : SceneChanges(nr, gal))
  BY <1>5 DEF CosmosArrives, SignalsArrive, CloseDetailOf, EventCompletes, SignalCompletes,
     SceneChanges, serverSideVars, ServerTypeOK
<1>6. CASE ShownChanges
  <2>1. shown' \in BOOLEAN
    BY <1>6 DEF ShownChanges
  <2>2. QED
    BY <1>6, <2>1 DEF ShownChanges, serverSideVars, ServerTypeOK
<1>7. CASE SelectBroadcast
  <2>1. activeEvent[1] \in Activities
    <3>1. activeEvent # NoEvent
      BY <1>7 DEF SelectBroadcast, MeteorOfEvent, EventShown
    <3>2. QED
      BY <3>1 DEF HooksInv, HookTypeOK, Events
  <2>2. QED
    BY <1>7, <2>1 DEF SelectBroadcast, OpenActivity, serverSideVars, ServerTypeOK
<1>8. CASE SelectSignal
  <2>1. shown' \in BOOLEAN
    BY <1>8 DEF SelectSignal
  <2>2. QED
    BY <1>8, <2>1 DEF SelectSignal, ServerTypeOK
<1>9. QED
  BY <1>1, <1>2, <1>3, <1>4, <1>5, <1>6, <1>7, <1>8 DEF BroadcastNext

LEMMA BroadcastInitInv == BroadcastInit => ServerTypeOK /\ HooksInv
<1> SUFFICES ASSUME BroadcastInit PROVE ServerTypeOK /\ HooksInv
  OBVIOUS
<1>1. shown \in BOOLEAN /\ inGalaxy \in BOOLEAN /\ previewShown \in BOOLEAN /\ repeated \in BOOLEAN
  BY DEF BroadcastInit
<1>2. near \in BOOLEAN
  BY DEF BroadcastInit
<1>3. ServerTypeOK
  BY <1>1 DEF BroadcastInit, ServerTypeOK
<1>4. HookTypeOK
  BY <1>1, <1>2 DEF BroadcastInit, HookTypeOK
<1>5. HeardKnown
  BY DEF BroadcastInit, HeardKnown
<1>6. QED
  BY <1>3, <1>4, <1>5 DEF HooksInv

LEMMA BroadcastInductive == BroadcastSpec => [](ServerTypeOK /\ HooksInv)
<1>1. ASSUME ServerTypeOK, HooksInv, UNCHANGED broadcastVars
      PROVE  ServerTypeOK' /\ HooksInv'
  BY <1>1, HooksWait DEF broadcastVars, hookVars, ServerTypeOK
<1>2. ServerTypeOK /\ HooksInv /\ [BroadcastNext]_broadcastVars => (ServerTypeOK /\ HooksInv)'
  BY <1>1, HooksKeep, ServerKeeps
<1>3. QED
  BY <1>2, BroadcastInitInv, PTL DEF BroadcastSpec

\* The broadcasts stay in their types.
THEOREM BroadcastTypes == BroadcastSpec => []BroadcastTypeOK
<1>1. ServerTypeOK /\ HooksInv => BroadcastTypeOK
  BY DEF ServerTypeOK, HooksInv, HookTypeOK, BroadcastTypeOK
<1>2. QED
  BY <1>1, BroadcastInductive, PTL

\* AnnouncedOnce: nothing is announced twice from the same source, and nothing of one's own
\* as a friend's, however often the store's lists are replaced (useCosmicBroadcasts.ts,
\* useMemorySignalBroadcasts.ts).
THEOREM AnnouncementsAreOnce == BroadcastSpec => []AnnouncedOnce
<1>1. HooksInv => AnnouncedOnce
  <2> SUFFICES ASSUME HooksInv PROVE AnnouncedOnce
    OBVIOUS
  <2>1. ASSUME NEW e \in heard \cap Events
        PROVE  e[1] \notin OwnActivities
    BY BroadcastAssumption DEF HooksInv, HeardKnown
  <2>2. QED
    BY <2>1 DEF HooksInv, HeardKnown, AnnouncedOnce
<1>2. QED
  BY <1>1, BroadcastInductive, PTL

(***************************************************************************)
(* CosmosTravel: a travel and its transition stay in step, the book and    *)
(* the visit stage agree on a turning page, the scene is switched behind   *)
(* the veil, and the whole machine implements Journey.                     *)
(***************************************************************************)

\* A visit is begun for a planet; the store learns of it once the veil is opaque.
BegunFor == phase = "FADE_OUT_CURRENT_SCENE" => target # NoPlanet

\* The ref of the opaque veil is set while the arrival is being covered, and the
\* veil stays opaque until the scene has been switched.
CoveredOnArrival ==
    landed.veil =>
        /\ phase \in {"FADE_OUT_ARRIVAL", "SWITCH_TARGET_SCENE", "REVEAL_TARGET_SCENE"}
        /\ phase = "FADE_OUT_ARRIVAL" => veil = "opaque"

\* A book that has not reported to be open is as it was mounted.
UntoldIsClosed == ~book.told => book.turning = "no"

TravelInv ==
    /\ TravelTypeOK
    /\ TravelInStep
    /\ BegunFor
    /\ CoveredOnArrival
    /\ UntoldIsClosed
    /\ BookInStep

-----------------------------------------------------------------------------
LEMMA TravelInitInv == TravelInit => TravelInv
<1> SUFFICES ASSUME TravelInit PROVE TravelInv
  OBVIOUS
<1>1. landed = NotLanded /\ book = ClosedBook /\ phase = "IDLE" /\ stage = "idle"
      /\ traveling = FALSE
  BY DEF TravelInit
<1>2. /\ landed \in [flight : BOOLEAN, veil : BOOLEAN, committed : BOOLEAN]
      /\ book \in [page : 0..MaxPages, turning : {"no", "previous", "next"}, told : BOOLEAN]
  BY <1>1, CosmosTravelAssumption DEF NotLanded, ClosedBook
<1>3. loading \in {"idle", "loading", "failed"}
  BY DEF TravelInit
<1>4. TravelTypeOK
  BY <1>2, <1>3 DEF TravelInit, TravelTypeOK, Places, TravelPhases, Stages
<1>5. QED
  BY <1>1, <1>4
     DEF TravelInv, TravelInStep, BegunFor, CoveredOnArrival, UntoldIsClosed, BookInStep,
         NotLanded, ClosedBook

\* The page a turn ends at is in the book.
LEMMA PageAfterType ==
    ASSUME book \in [page : 0..MaxPages, turning : {"no", "previous", "next"}, told : BOOLEAN],
           NEW pages \in 1..MaxPages
    PROVE  PageAfter(pages) \in 0..MaxPages
BY CosmosTravelAssumption DEF PageAfter

\* A component that is mounted anew has a closed book.
LEMMA BookFollowsInv ==
    ASSUME TravelInv, BookFollows, ~(BookShown /\ BookShown' /\ stage' # "book-opening")
    PROVE  /\ book' \in [page : 0..MaxPages, turning : {"no", "previous", "next"}, told : BOOLEAN]
           /\ UntoldIsClosed' /\ BookInStep'
BY CosmosTravelAssumption DEF BookFollows, ClosedBook, UntoldIsClosed, BookInStep

LEMMA TravelStutters == TravelInv /\ UNCHANGED travelVars => TravelInv'
BY DEF TravelInv, travelVars, TravelTypeOK, TravelInStep, BegunFor, CoveredOnArrival,
       UntoldIsClosed, BookInStep, BookShown

\* The commit of an arrival: of a flight that was under way, toward its target.
LEMMA CommitInv ==
    ASSUME TravelInv, NEW l \in [flight : BOOLEAN, veil : BOOLEAN, committed : BOOLEAN],
           traveling, CommitArrival(l), MayCommit(l)
    PROVE  /\ phase' = "SWITCH_TARGET_SCENE" /\ traveling' = FALSE /\ active' = target
           /\ active' \in Places /\ target \in Places
           /\ scale' \in {"planet", "galaxy"} /\ selected' = NoPlanet
           /\ destination' = NoPlanet
           /\ landed' \in [flight : BOOLEAN, veil : BOOLEAN, committed : BOOLEAN]
           /\ stage' \in {"book-opening", "planet-detail"}
           /\ nodes' = {} /\ loading' \in {"idle", "loading"}
           /\ BookFollows
BY CosmosTravelAssumption
   DEF CommitArrival, CompleteTravel, SnapshotRestarts, TravelInv, TravelTypeOK, TravelInStep,
       Places

-----------------------------------------------------------------------------
LEMMA ControlsKeepInv ==
    ASSUME TravelInv,
           ExploreGalaxy \/ RequestCosmos \/ CloseDetail \/ \E p \in Planets : SelectPlanet(p)
    PROVE  TravelInv'
<1> USE DEF TravelInv, BegunFor, CoveredOnArrival
<1>1. CASE ExploreGalaxy
  <2>1. UntoldIsClosed' /\ BookInStep'
        /\ book' \in [page : 0..MaxPages, turning : {"no", "previous", "next"}, told : BOOLEAN]
    BY <1>1, BookFollowsInv DEF ExploreGalaxy, HandleScaleChange, BookShown
  <2>2. TravelTypeOK'
    BY <1>1, <2>1 DEF ExploreGalaxy, HandleScaleChange, SnapshotRestarts, TravelTypeOK
  <2>3. QED
    BY <1>1, <2>1, <2>2 DEF ExploreGalaxy, TravelInStep
<1>2. CASE RequestCosmos
  BY <1>2 DEF RequestCosmos, TravelTypeOK, TravelInStep, UntoldIsClosed, BookInStep, BookShown
<1>3. CASE CloseDetail
  BY <1>3 DEF CloseDetail, TravelTypeOK, TravelInStep, UntoldIsClosed, BookInStep, BookShown
<1>4. ASSUME NEW p \in Planets, SelectPlanet(p)
      PROVE  TravelInv'
  BY <1>4 DEF SelectPlanet, TravelTypeOK, TravelInStep, UntoldIsClosed, BookInStep, BookShown
<1>5. QED
  BY <1>1, <1>2, <1>3, <1>4

LEMMA BeginVisitKeepsInv ==
    ASSUME TravelInv, NEW p \in Planets, BeginVisit(p)
    PROVE  TravelInv'
BY CosmosTravelAssumption
   DEF BeginVisit, ControlsReachable, NotLanded, TravelInv, TravelTypeOK, TravelInStep,
       BegunFor, CoveredOnArrival, UntoldIsClosed, BookInStep, BookShown, Places, TravelPhases

LEMMA ReturnHomeKeepsInv ==
    ASSUME TravelInv, ReturnHome
    PROVE  TravelInv'
<1>1. UntoldIsClosed' /\ BookInStep'
      /\ book' \in [page : 0..MaxPages, turning : {"no", "previous", "next"}, told : BOOLEAN]
  BY BookFollowsInv DEF ReturnHome, StartTravel, BookShown
<1>2. TravelTypeOK'
  BY <1>1 DEF ReturnHome, StartTravel, NotLanded, TravelInv, TravelTypeOK, Places,
              TravelPhases, Stages
<1>3. QED
  BY <1>1, <1>2, CosmosTravelAssumption
     DEF ReturnHome, StartTravel, NotLanded, TravelInv, TravelInStep, BegunFor,
         CoveredOnArrival

LEMMA CancelVisitKeepsInv ==
    ASSUME TravelInv, CancelVisit
    PROVE  TravelInv'
<1>1. UntoldIsClosed' /\ BookInStep'
      /\ book' \in [page : 0..MaxPages, turning : {"no", "previous", "next"}, told : BOOLEAN]
  BY BookFollowsInv DEF CancelVisit, CancelReachable, BookShown
<1>2. TravelTypeOK'
  BY <1>1 DEF CancelVisit, TravelInv, TravelTypeOK, TravelPhases, Stages
<1>3. phase \in {"INTRO_READY", "TRAVEL_ACTIVE"}
  BY DEF CancelVisit, CancelReachable, TravelInv, TravelInStep
<1>4. QED
  BY <1>1, <1>2, <1>3 DEF CancelVisit, TravelInv, TravelInStep, BegunFor, CoveredOnArrival

-----------------------------------------------------------------------------
LEMMA VeilSettlesKeepsInv ==
    ASSUME TravelInv, VeilSettles
    PROVE  TravelInv'
<1>1. CASE phase = "FADE_OUT_CURRENT_SCENE"
  <2>1. /\ stage' = "traveling" /\ phase' = "INTRO_READY" /\ StartTravel(target)
        /\ UNCHANGED <<scale, active, target, landed, nodes, loading, isFriendsDemo, late>>
        /\ BookFollows /\ veil' = VeilTarget
    BY <1>1 DEF VeilSettles
  <2>2. UntoldIsClosed' /\ BookInStep'
        /\ book' \in [page : 0..MaxPages, turning : {"no", "previous", "next"}, told : BOOLEAN]
    BY <2>1, BookFollowsInv DEF StartTravel, BookShown
  <2>3. TravelTypeOK'
    BY <2>1, <2>2 DEF StartTravel, VeilTarget, TravelInv, TravelTypeOK, TravelPhases, Stages
  <2>4. QED
    BY <1>1, <2>1, <2>2, <2>3
       DEF StartTravel, TravelInv, TravelInStep, BegunFor, CoveredOnArrival
<1>2. CASE phase = "FADE_OUT_ARRIVAL"
  <2> DEFINE l == [landed EXCEPT !.veil = TRUE]
  <2>1. /\ CommitArrival(l) /\ (~MayCommit(l) => UNCHANGED phase)
        /\ UNCHANGED <<target, flight, isFriendsDemo, late>> /\ veil' = "opaque"
    BY <1>2 DEF VeilSettles, VeilTarget, VeilIsOpaque
  <2>2. l \in [flight : BOOLEAN, veil : BOOLEAN, committed : BOOLEAN]
    BY DEF TravelInv, TravelTypeOK
  <2>3. traveling
    BY <1>2 DEF TravelInv, TravelInStep
  <2>4. CASE MayCommit(l)
    <3> HIDE DEF l
    <3>1. /\ phase' = "SWITCH_TARGET_SCENE" /\ traveling' = FALSE /\ active' = target
          /\ active' \in Places
          /\ scale' \in {"planet", "galaxy"} /\ selected' = NoPlanet
          /\ destination' = NoPlanet
          /\ landed' \in [flight : BOOLEAN, veil : BOOLEAN, committed : BOOLEAN]
          /\ stage' \in {"book-opening", "planet-detail"}
          /\ nodes' = {} /\ loading' \in {"idle", "loading"}
          /\ BookFollows
      BY <2>1, <2>2, <2>3, <2>4, CommitInv
    <3>2. UntoldIsClosed' /\ BookInStep'
          /\ book' \in [page : 0..MaxPages, turning : {"no", "previous", "next"}, told : BOOLEAN]
      BY <3>1, <2>3, BookFollowsInv DEF BookShown
    <3>3. TravelTypeOK'
      BY <2>1, <3>1, <3>2 DEF TravelInv, TravelTypeOK, TravelPhases, Stages
    <3>4. QED
      BY <3>1, <3>2, <3>3 DEF TravelInv, TravelInStep, BegunFor, CoveredOnArrival
  <2>5. CASE ~MayCommit(l)
    <3>1. /\ landed' = l
          /\ UNCHANGED <<scale, selected, active, destination, traveling, stage, nodes,
                         loading, book, phase, target, flight, isFriendsDemo, late>>
      BY <2>1, <2>5 DEF CommitArrival
    <3>2. TravelTypeOK'
      BY <2>1, <2>2, <3>1 DEF TravelInv, TravelTypeOK
    <3>3. QED
      BY <1>2, <2>1, <3>1, <3>2
         DEF TravelInv, TravelInStep, BegunFor, CoveredOnArrival, UntoldIsClosed, BookInStep,
             BookShown
  <2>6. QED
    BY <2>4, <2>5
<1>3. CASE phase = "REVEAL_TARGET_SCENE"
  <2>1. /\ veil' = "clear" /\ phase' = "IDLE" /\ target' = NoPlanet /\ landed' = NotLanded
        /\ UNCHANGED <<scale, selected, active, destination, traveling, stage, flight,
                       nodes, loading, book, isFriendsDemo, late>>
    BY <1>3 DEF VeilSettles, VeilTarget, VeilIsOpaque
  <2>2. landed' \in [flight : BOOLEAN, veil : BOOLEAN, committed : BOOLEAN] /\ ~landed'.veil
    BY <2>1 DEF NotLanded
  <2>3. TravelTypeOK'
    BY <2>1, <2>2 DEF TravelInv, TravelTypeOK, TravelPhases
  <2>4. QED
    BY <1>3, <2>1, <2>2, <2>3
       DEF TravelInv, TravelInStep, BegunFor, CoveredOnArrival, UntoldIsClosed, BookInStep,
           BookShown
<1>4. CASE phase \notin {"FADE_OUT_CURRENT_SCENE", "FADE_OUT_ARRIVAL", "REVEAL_TARGET_SCENE"}
  BY <1>4
     DEF VeilSettles, VeilTarget, TravelInv, TravelTypeOK, TravelInStep, BegunFor,
         CoveredOnArrival, UntoldIsClosed, BookInStep, BookShown
<1>5. QED
  BY <1>1, <1>2, <1>3, <1>4

LEMMA FramesKeepInv ==
    ASSUME TravelInv, IntroFrames \/ TargetReady
    PROVE  TravelInv'
<1> USE DEF TravelInv, TravelInStep, BegunFor, CoveredOnArrival, UntoldIsClosed, BookInStep,
            BookShown
<1>1. CASE IntroFrames
  <2>1. TravelTypeOK'
    BY <1>1 DEF IntroFrames, TravelTypeOK, TravelPhases
  <2>2. QED
    BY <1>1, <2>1 DEF IntroFrames
<1>2. CASE TargetReady
  <2>1. TravelTypeOK'
    BY <1>2 DEF TargetReady, TravelTypeOK, TravelPhases
  <2>2. QED
    BY <1>2, <2>1 DEF TargetReady
<1>3. QED
  BY <1>1, <1>2

-----------------------------------------------------------------------------
LEMMA FlightKeepsInv ==
    ASSUME TravelInv, FlightStep
    PROVE  TravelInv'
<1>1. CASE TakeOff
  BY <1>1
     DEF TakeOff, FlightAdvances, TravelInv, TravelTypeOK, TravelInStep, BegunFor,
         CoveredOnArrival, UntoldIsClosed, BookInStep, BookShown
<1>2. CASE ApproachArrival
  BY <1>2
     DEF ApproachArrival, FlightAdvances, HasRoute, TravelInv, TravelTypeOK, TravelInStep,
         BegunFor, CoveredOnArrival, UntoldIsClosed, BookInStep, BookShown, TravelPhases
<1>3. CASE Arrive
  <2> DEFINE l == [landed EXCEPT !.flight = TRUE]
  <2>1. /\ CommitArrival(l) /\ traveling /\ flight' = "arrived" /\ phase # "INTRO_READY"
        /\ ~MayCommit(l) => phase' = IF phase = "TRAVEL_ACTIVE" THEN "FADE_OUT_ARRIVAL"
                                     ELSE phase
        /\ UNCHANGED <<target, veil, isFriendsDemo, late>>
    BY <1>3 DEF Arrive, FlightAdvances, HasRoute
  <2>2. l \in [flight : BOOLEAN, veil : BOOLEAN, committed : BOOLEAN] /\ l.veil = landed.veil
    BY DEF TravelInv, TravelTypeOK
  <2>3. phase \in {"TRAVEL_ACTIVE", "FADE_OUT_ARRIVAL"}
    BY <2>1 DEF TravelInv, TravelInStep
  <2> HIDE DEF l
  <2>4. CASE MayCommit(l)
    <3>1. /\ phase' = "SWITCH_TARGET_SCENE" /\ traveling' = FALSE /\ active' = target
          /\ active' \in Places
          /\ scale' \in {"planet", "galaxy"} /\ selected' = NoPlanet
          /\ destination' = NoPlanet
          /\ landed' \in [flight : BOOLEAN, veil : BOOLEAN, committed : BOOLEAN]
          /\ stage' \in {"book-opening", "planet-detail"}
          /\ nodes' = {} /\ loading' \in {"idle", "loading"}
          /\ BookFollows
      BY <2>1, <2>2, <2>4, CommitInv
    <3>2. UntoldIsClosed' /\ BookInStep'
          /\ book' \in [page : 0..MaxPages, turning : {"no", "previous", "next"}, told : BOOLEAN]
      BY <2>1, <3>1, BookFollowsInv DEF BookShown
    <3>3. TravelTypeOK'
      BY <2>1, <3>1, <3>2 DEF TravelInv, TravelTypeOK, TravelPhases, Stages
    <3>4. QED
      BY <3>1, <3>2, <3>3 DEF TravelInv, TravelInStep, BegunFor, CoveredOnArrival
  <2>5. CASE ~MayCommit(l)
    <3>1. /\ landed' = l /\ phase' = "FADE_OUT_ARRIVAL"
          /\ UNCHANGED <<scale, selected, active, destination, traveling, stage, nodes,
                         loading, book, target, veil, isFriendsDemo, late>>
      BY <2>1, <2>3, <2>5 DEF CommitArrival
    <3>2. TravelTypeOK'
      BY <2>1, <2>2, <3>1 DEF TravelInv, TravelTypeOK, TravelPhases
    <3>3. QED
      BY <2>1, <2>2, <2>3, <3>1, <3>2
         DEF TravelInv, TravelInStep, BegunFor, CoveredOnArrival, UntoldIsClosed, BookInStep,
             BookShown
  <2>6. QED
    BY <2>4, <2>5
<1>4. QED
  BY <1>1, <1>2, <1>3 DEF FlightStep

LEMMA AnswersKeepInv ==
    ASSUME TravelInv, SnapshotStep \/ \E kind \in late : LateAnswer(kind) \/ LateFailure(kind)
    PROVE  TravelInv'
<1> USE DEF TravelInv, BegunFor, CoveredOnArrival, UntoldIsClosed, BookInStep, BookShown
<1>1. CASE WindowFails
  BY <1>1 DEF WindowFails, TravelTypeOK, TravelInStep
<1>2. ASSUME NEW some \in SUBSET Planets, WindowAnswer(some)
      PROVE  TravelInv'
  BY <1>2 DEF WindowAnswer, TravelTypeOK, TravelInStep
<1>3. ASSUME NEW kind \in late, LateAnswer(kind)
      PROVE  TravelInv'
  BY <1>3 DEF LateAnswer, ActiveAfter, TravelTypeOK, TravelInStep, Places
<1>4. ASSUME NEW kind \in late, LateFailure(kind)
      PROVE  TravelInv'
  BY <1>4 DEF LateFailure, TravelTypeOK, TravelInStep
<1>5. QED
  BY <1>1, <1>2, <1>3, <1>4 DEF SnapshotStep

LEMMA BookKeepsInv ==
    ASSUME TravelInv,
           \/ BookOpened
           \/ \E direction \in {"previous", "next"}, pages \in 1..MaxPages :
                  TurnPage(direction, pages)
           \/ \E pages \in 1..MaxPages : PageTurned(pages)
    PROVE  TravelInv'
<1> USE DEF TravelInv, BegunFor, CoveredOnArrival, UntoldIsClosed, BookInStep, BookStep, BookShown
<1>1. CASE BookOpened
  <2>1. book' = [book EXCEPT !.told = TRUE] /\ stage' = "book-view" /\ ~book.told
        /\ BookStep("book-view", book')
    BY <1>1 DEF BookOpened
  <2>2. /\ book' \in [page : 0..MaxPages, turning : {"no", "previous", "next"}, told : BOOLEAN]
        /\ book'.told /\ book'.turning = "no"
    BY <2>1 DEF TravelTypeOK
  <2>3. TravelTypeOK'
    BY <2>1, <2>2 DEF TravelTypeOK, Stages
  <2>4. QED
    BY <2>1, <2>2, <2>3 DEF TravelInStep, Stages, BookStages
<1>2. ASSUME NEW direction \in {"previous", "next"}, NEW pages \in 1..MaxPages,
             TurnPage(direction, pages)
      PROVE  TravelInv'
  <2>1. book' = [book EXCEPT !.turning = direction] /\ stage' = "page-turning" /\ book.told
        /\ BookStep("page-turning", book')
    BY <1>2 DEF TurnPage, CanTurn
  <2>2. /\ book' \in [page : 0..MaxPages, turning : {"no", "previous", "next"}, told : BOOLEAN]
        /\ book'.told /\ book'.turning # "no"
    BY <2>1 DEF TravelTypeOK
  <2>3. TravelTypeOK'
    BY <2>1, <2>2 DEF TravelTypeOK, Stages
  <2>4. QED
    BY <2>1, <2>2, <2>3 DEF TravelInStep, Stages, BookStages
<1>3. ASSUME NEW pages \in 1..MaxPages, PageTurned(pages)
      PROVE  TravelInv'
  <2>1. PageAfter(pages) \in 0..MaxPages
    BY PageAfterType DEF TravelTypeOK
  <2>2. book' = [book EXCEPT !.turning = "no", !.page = PageAfter(pages)]
        /\ stage' = "book-view" /\ BookStep("book-view", book')
    BY <1>3 DEF PageTurned
  <2>3. /\ book' \in [page : 0..MaxPages, turning : {"no", "previous", "next"}, told : BOOLEAN]
        /\ book'.turning = "no"
    BY <2>1, <2>2 DEF TravelTypeOK
  <2>4. TravelTypeOK'
    BY <2>2, <2>3 DEF TravelTypeOK, Stages
  <2>5. QED
    BY <2>2, <2>3, <2>4 DEF TravelInStep, Stages, BookStages
<1>4. QED
  BY <1>1, <1>2, <1>3

LEMMA TravelStepKeepsInv == TravelInv /\ [TravelNext]_travelVars => TravelInv'
<1> SUFFICES ASSUME TravelInv, [TravelNext]_travelVars
             PROVE  TravelInv'
  OBVIOUS
<1>1. ASSUME VisitSelected
      PROVE  TravelInv'
  BY <1>1, BeginVisitKeepsInv DEF VisitSelected, TravelInv, TravelTypeOK
<1>2. ASSUME NEW p \in Planets, VisitSignal(p)
      PROVE  TravelInv'
  BY <1>2, BeginVisitKeepsInv DEF VisitSignal
<1>3. QED
  BY <1>1, <1>2, TravelStutters, ControlsKeepInv, ReturnHomeKeepsInv, CancelVisitKeepsInv,
     VeilSettlesKeepsInv, FramesKeepInv, FlightKeepsInv, AnswersKeepInv, BookKeepsInv
     DEF TravelNext, TransitionStep

LEMMA TravelInductive == TravelSpec => []TravelInv
BY TravelInitInv, TravelStepKeepsInv, PTL DEF TravelSpec

-----------------------------------------------------------------------------
\* Type correctness, of the travel and of the pages the memory book turns to.
THEOREM TravelTypes == TravelSpec => []TravelTypeOK
<1>1. TravelInv => TravelTypeOK
  BY DEF TravelInv
<1>2. QED
  BY <1>1, TravelInductive, PTL

\* The store travels exactly while the transition flies, toward the transition's own
\* destination (UniverseExperience.tsx, useProductStore.ts).
THEOREM TravelKeepsStep == TravelSpec => []TravelInStep
<1>1. TravelInv => TravelInStep
  BY DEF TravelInv
<1>2. QED
  BY <1>1, TravelInductive, PTL

\* An open memory book and the visit stage agree on whether a page is turning.
THEOREM BookKeepsStep == TravelSpec => []BookInStep
<1>1. TravelInv => BookInStep
  BY DEF TravelInv
<1>2. QED
  BY <1>1, TravelInductive, PTL

-----------------------------------------------------------------------------
\* Whichever of the flight and the veil ends last, an arrival is committed behind the
\* opaque veil and at the destination the transition was begun for.
THEOREM ArrivalsAreCovered == TravelSpec => ArrivesCovered
<1>1. ASSUME TravelInv, [TravelNext]_travelVars, phase' = "SWITCH_TARGET_SCENE", phase # phase'
      PROVE  veil' = "opaque" /\ active' = target /\ target \in Places
  <2> USE DEF TravelInv
  <2>1. VeilSettles \/ Arrive
    BY <1>1
       DEF TravelNext, travelVars, ExploreGalaxy, RequestCosmos, CloseDetail, VisitSelected,
           BeginVisit, ReturnHome, CancelVisit, SelectPlanet, VisitSignal, TransitionStep,
           IntroFrames, TargetReady, FlightStep, TakeOff, ApproachArrival, SnapshotStep,
           WindowFails, WindowAnswer, LateAnswer, LateFailure, BookOpened, BookStep, TurnPage,
           PageTurned
  <2>2. CASE VeilSettles
    <3> DEFINE l == [landed EXCEPT !.veil = TRUE]
    <3>1. /\ phase = "FADE_OUT_ARRIVAL" /\ CommitArrival(l) /\ MayCommit(l)
          /\ veil' = "opaque"
      BY <1>1, <2>2 DEF VeilSettles, VeilTarget, VeilIsOpaque
    <3>2. traveling /\ l \in [flight : BOOLEAN, veil : BOOLEAN, committed : BOOLEAN]
      BY <1>1, <3>1 DEF TravelInStep, TravelTypeOK
    <3> HIDE DEF l
    <3>3. QED
      BY <1>1, <3>1, <3>2, CommitInv
  <2>3. CASE Arrive
    <3> DEFINE l == [landed EXCEPT !.flight = TRUE]
    <3>1. CommitArrival(l) /\ MayCommit(l) /\ traveling /\ veil' = veil
      BY <1>1, <2>3 DEF Arrive, FlightAdvances, HasRoute
    <3>2. l \in [flight : BOOLEAN, veil : BOOLEAN, committed : BOOLEAN] /\ landed.veil
      BY <1>1, <3>1 DEF MayCommit, TravelTypeOK
    <3>3. veil = "opaque"
      BY <1>1, <3>1, <3>2 DEF TravelInStep, CoveredOnArrival
    <3> HIDE DEF l
    <3>4. QED
      BY <1>1, <3>1, <3>2, <3>3, CommitInv
  <2>4. QED
    BY <2>1, <2>2, <2>3
<1>2. TravelInv /\ [TravelNext]_travelVars =>
        [phase' = "SWITCH_TARGET_SCENE" /\ phase # phase' =>
           veil' = "opaque" /\ active' = target /\ target \in Places]_travelVars
  BY <1>1
<1>3. QED
  BY <1>2, TravelInductive, PTL DEF TravelSpec, ArrivesCovered

-----------------------------------------------------------------------------
\* Where a step leaves the transition within the phases of setting out, and its target,
\* the journey does not notice it.
LEMMA QuietSteps ==
    ASSUME UNCHANGED <<active, target>>, phase \in SettingOut <=> phase' \in SettingOut
    PROVE  UNCHANGED <<active, TravelBound>>
BY DEF TravelBound

LEMMA JourneyInitially == TravelInit => Abstract!JourneyInit
BY DEF TravelInit, Abstract!JourneyInit, TravelBound, SettingOut

\* An arrival that is committed reaches what the journey was bound for.
LEMMA CommitReaches ==
    ASSUME TravelInv, NEW l \in [flight : BOOLEAN, veil : BOOLEAN, committed : BOOLEAN],
           traveling, CommitArrival(l), MayCommit(l)
    PROVE  Abstract!Reach
<1>1. phase' = "SWITCH_TARGET_SCENE" /\ active' = target
  BY CommitInv
<1>2. phase \in SettingOut /\ target # NoPlanet
  BY DEF TravelInv, TravelInStep, SettingOut
<1>3. QED
  BY <1>1, <1>2 DEF Abstract!Reach, TravelBound, SettingOut

LEMMA JourneySteps ==
    ASSUME TravelInv, [TravelNext]_travelVars
    PROVE  [Abstract!JourneyNext]_<<active, TravelBound>>
<1> USE DEF TravelInv
<1> DEFINE Quiet == UNCHANGED <<active, target>> /\ (phase \in SettingOut <=> phase' \in SettingOut)
<1>1. ASSUME NEW p \in Planets, BeginVisit(p)
      PROVE  Abstract!SetOut
  BY <1>1 DEF BeginVisit, Abstract!SetOut, TravelBound, SettingOut, Places
<1>2. CASE ReturnHome
  BY <1>2 DEF ReturnHome, Abstract!JourneyNext, Abstract!SetOut, TravelBound, SettingOut, Places
<1>3. CASE CancelVisit
  BY <1>3
     DEF CancelVisit, CancelReachable, TravelInStep, Abstract!JourneyNext, Abstract!GiveUp,
         TravelBound, SettingOut
<1>4. CASE VeilSettles
  <2> DEFINE l == [landed EXCEPT !.veil = TRUE]
  <2>1. CASE phase = "FADE_OUT_ARRIVAL" /\ MayCommit(l)
    <3>1. /\ CommitArrival(l) /\ traveling
          /\ l \in [flight : BOOLEAN, veil : BOOLEAN, committed : BOOLEAN]
      BY <1>4, <2>1 DEF VeilSettles, TravelInStep, TravelTypeOK
    <3> HIDE DEF l
    <3>2. QED
      BY <2>1, <3>1, CommitReaches DEF Abstract!JourneyNext
  <2>2. CASE phase = "FADE_OUT_ARRIVAL" /\ ~MayCommit(l)
    <3>1. Quiet
      BY <1>4, <2>2 DEF VeilSettles, CommitArrival
    <3>2. QED
      BY <3>1, QuietSteps
  <2>3. CASE phase = "REVEAL_TARGET_SCENE"
    BY <1>4, <2>3 DEF VeilSettles, TravelBound, SettingOut
  <2>4. CASE phase \notin {"FADE_OUT_ARRIVAL", "REVEAL_TARGET_SCENE"}
    <3>1. Quiet
      BY <1>4, <2>4 DEF VeilSettles, StartTravel, SettingOut
    <3>2. QED
      BY <3>1, QuietSteps
  <2>5. QED
    BY <2>1, <2>2, <2>3, <2>4
<1>5. CASE Arrive
  <2> DEFINE l == [landed EXCEPT !.flight = TRUE]
  <2>1. /\ CommitArrival(l) /\ traveling /\ UNCHANGED target
        /\ l \in [flight : BOOLEAN, veil : BOOLEAN, committed : BOOLEAN]
        /\ ~MayCommit(l) => phase' = IF phase = "TRAVEL_ACTIVE" THEN "FADE_OUT_ARRIVAL" ELSE phase
    BY <1>5 DEF Arrive, FlightAdvances, HasRoute, TravelTypeOK
  <2> HIDE DEF l
  <2>2. CASE MayCommit(l)
    BY <2>1, <2>2, CommitReaches DEF Abstract!JourneyNext
  <2>3. CASE ~MayCommit(l)
    <3>1. Quiet
      BY <2>1, <2>3 DEF CommitArrival, SettingOut
    <3>2. QED
      BY <3>1, QuietSteps
  <2>4. QED
    BY <2>2, <2>3
<1>6. ASSUME NEW kind \in late, LateAnswer(kind)
      PROVE  Abstract!Recalled \/ UNCHANGED <<active, TravelBound>>
  BY <1>6 DEF LateAnswer, ActiveAfter, Abstract!Recalled, TravelBound
<1>7. CASE UNCHANGED travelVars
  <2>1. Quiet
    BY <1>7 DEF travelVars
  <2>2. QED
    BY <2>1, QuietSteps
<1>8. CASE \/ ExploreGalaxy \/ RequestCosmos \/ CloseDetail \/ (\E p \in Planets : SelectPlanet(p))
           \/ IntroFrames \/ TargetReady \/ TakeOff \/ ApproachArrival \/ SnapshotStep
           \/ (\E kind \in late : LateFailure(kind)) \/ BookOpened
           \/ (\E direction \in {"previous", "next"}, pages \in 1..MaxPages :
                   TurnPage(direction, pages))
           \/ (\E pages \in 1..MaxPages : PageTurned(pages))
  <2>1. Quiet
    BY <1>8
       DEF ExploreGalaxy, RequestCosmos, CloseDetail, SelectPlanet, IntroFrames, TargetReady,
           TakeOff, ApproachArrival, SnapshotStep, WindowFails, WindowAnswer, LateFailure,
           BookOpened, BookStep, TurnPage, PageTurned, SettingOut
  <2>2. QED
    BY <2>1, QuietSteps
<1>9. CASE VisitSelected \/ \E p \in Planets : VisitSignal(p)
  <2>1. \E p \in Planets : BeginVisit(p)
    BY <1>9 DEF VisitSelected, VisitSignal, TravelTypeOK
  <2>2. QED
    BY <1>1, <2>1 DEF Abstract!JourneyNext
<1>10. CASE \E kind \in late : LateAnswer(kind)
  BY <1>6, <1>10 DEF Abstract!JourneyNext
<1>11. QED
  BY <1>2, <1>3, <1>4, <1>5, <1>7, <1>8, <1>9, <1>10
     DEF TravelNext, TransitionStep, FlightStep

\* The travel machine implements the journey it promises: nothing becomes the active
\* planet but the one that was set out for, or home with a new cosmos.
THEOREM TravelIsJourney == TravelSpec => IsJourney
<1>1. TravelInv /\ [TravelNext]_travelVars => [Abstract!JourneyNext]_<<active, TravelBound>>
  BY JourneySteps
<1>2. QED
  BY <1>1, JourneyInitially, TravelInductive, PTL
     DEF TravelSpec, IsJourney, Abstract!JourneySpec
===============================================================================
