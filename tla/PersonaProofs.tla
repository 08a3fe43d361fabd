---------------------------- MODULE PersonaProofs -----------------------------
(***************************************************************************)
(* Proofs about the scripts of the evaluation cohort: that documents pass  *)
(* the recall gate as they were approved, and that what the seeding        *)
(* reports as completed was extracted.  They hold for any number of        *)
(* writings, candidates, workers, units and runs.                          *)
(***************************************************************************)
EXTENDS PersonaCohort, PersonaSeed, TLAPS, SequenceTheorems

(***************************************************************************)
(* PersonaCohort: an approved manifest is of the approved documents.       *)
(***************************************************************************)

Files == {"manifest"} \union StageNames \union DocumentNames

\* What is left to write ends with the manifest.
WritingTypeOK ==
    /\ writing \in [script : {"none", "generate", "review"}, version : Versions, todo : Seq(Files)]
    /\ writing # Idle => /\ Len(writing.todo) > 0
                         /\ writing.todo[Len(writing.todo)] = "manifest"

CohortFilesTypeOK ==
    /\ documents \in [DocumentNames -> Versions] /\ unsound \subseteq Versions
    /\ manifest \in [hashes : [DocumentNames -> Versions],
                     review : {"absent", "none", "automated", "approved"}]
    /\ patched \in BOOLEAN /\ writings \in Versions
    /\ approval \in [DocumentNames -> Versions] /\ measured \in [DocumentNames -> Versions]

\* An approved manifest is of the documents that were approved.
ApprovedManifest == manifest.review = "approved" => manifest.hashes = approval

CohortInv == ApprovedManifest /\ MeasuredAsApproved

LEMMA OutputFileNames ==
    /\ DocumentNames = {"profiles", "relationships", "scenarios", "expectedMemories"}
    /\ StageNames = {"profileStage", "relationshipStage", "scenarioStage"}
<1>1. /\ DOMAIN OutputFiles = {1, 2, 3, 4}
      /\ DOMAIN GenerationStages = {1, 2, 3}
  BY DEF OutputFiles, GenerationStages
<1>2. DocumentNames = {OutputFiles[1], OutputFiles[2], OutputFiles[3], OutputFiles[4]}
  BY <1>1 DEF DocumentNames
<1>3. StageNames = {GenerationStages[1], GenerationStages[2], GenerationStages[3]}
  BY <1>1 DEF StageNames
<1>4. QED
  BY <1>2, <1>3 DEF OutputFiles, GenerationStages

LEMMA LastOfBoth ==
    ASSUME NEW S, NEW s \in Seq(S), NEW t \in Seq(S), Len(t) > 0
    PROVE  s \o t \in Seq(S) /\ Len(s \o t) > 0 /\ (s \o t)[Len(s \o t)] = t[Len(t)]
<1>1. s \o t \in Seq(S) /\ Len(s \o t) = Len(s) + Len(t) /\ Len(s) \in Nat /\ Len(t) \in Nat
  BY ConcatProperties
<1>2. (s \o t)[Len(s) + Len(t)] = t[Len(s) + Len(t) - Len(s)]
  BY <1>1, ConcatProperties
<1>3. QED
  BY <1>1, <1>2

LEMMA WhatToWrite ==
    ASSUME NEW todo \in {ToWrite, GenerationStages \o ToWrite}
    PROVE  todo \in Seq(Files) /\ Len(todo) > 0 /\ todo[Len(todo)] = "manifest"
<1>1. OutputFiles \in Seq(Files) /\ Len(OutputFiles) = 4
  <2>1. /\ "profiles" \in Files /\ "relationships" \in Files /\ "scenarios" \in Files
        /\ "expectedMemories" \in Files
    BY OutputFileNames DEF Files
  <2>2. QED
    BY <2>1 DEF OutputFiles
<1>2. GenerationStages \in Seq(Files) /\ Len(GenerationStages) = 3
  <2>1. "profileStage" \in Files /\ "relationshipStage" \in Files /\ "scenarioStage" \in Files
    BY OutputFileNames DEF Files
  <2>2. QED
    BY <2>1 DEF GenerationStages
<1>3. <<"manifest">> \in Seq(Files) /\ Len(<<"manifest">>) = 1 /\ <<"manifest">>[1] = "manifest"
  <2>1. "manifest" \in Files
    BY DEF Files
  <2>2. QED
    BY <2>1
<1>4. ToWrite \in Seq(Files) /\ Len(ToWrite) > 0 /\ ToWrite[Len(ToWrite)] = "manifest"
  BY <1>1, <1>3, LastOfBoth DEF ToWrite
<1> DEFINE all == GenerationStages \o ToWrite
<1>6. all \in Seq(Files) /\ Len(all) > 0 /\ all[Len(all)] = "manifest"
  BY <1>2, <1>4, LastOfBoth
<1>7. CASE todo = ToWrite
  BY <1>4, <1>7
<1>8. CASE todo = all
  BY <1>6, <1>8
<1>9. QED
  BY <1>7, <1>8

LEMMA IdleWrites == Idle \in [script : {"none", "generate", "review"}, version : Versions, todo : Seq(Files)]
<1>1. 0 \in Versions
  BY CohortAssumption DEF Versions
<1>2. <<>> \in Seq(Files)
  OBVIOUS
<1>3. QED
  BY <1>1, <1>2 DEF Idle

LEMMA StartWritingType ==
    ASSUME CohortFilesTypeOK, NEW script \in {"generate", "review"},
           NEW todo \in {ToWrite, GenerationStages \o ToWrite}, StartWriting(script, todo)
    PROVE  WritingTypeOK' /\ writings' \in Versions /\ writings + 1 \in Versions
<1>1. writings + 1 \in Versions
  BY CohortAssumption DEF StartWriting, CohortFilesTypeOK, Versions
<1>2. writing' = [script |-> script, version |-> writings + 1, todo |-> todo]
  BY DEF StartWriting
<1>3. writing'.todo = todo
  BY <1>2
<1>4. writing' \in [script : {"none", "generate", "review"}, version : Versions, todo : Seq(Files)]
  BY <1>1, <1>2, WhatToWrite
<1>5. QED
  BY <1>1, <1>3, <1>4, WhatToWrite DEF WritingTypeOK, StartWriting

LEMMA ProceedsType ==
    ASSUME WritingTypeOK, NEW file, file # "manifest", NextIs(file), Proceeds
    PROVE  WritingTypeOK'
<1> DEFINE todo == writing.todo
<1>1. todo \in Seq(Files) /\ Len(todo) > 0 /\ todo[Len(todo)] = "manifest" /\ Head(todo) = file
  BY DEF WritingTypeOK, NextIs
<1>2. Len(todo) > 1
  BY <1>1
<1>3. /\ Tail(todo) \in Seq(Files) /\ Len(Tail(todo)) = Len(todo) - 1
      /\ Tail(todo)[Len(todo) - 1] = todo[Len(todo)]
  BY <1>1, <1>2
<1>4. /\ writing' \in [script : {"none", "generate", "review"}, version : Versions, todo : Seq(Files)]
      /\ writing'.todo = Tail(todo)
  BY <1>3 DEF WritingTypeOK, Proceeds
<1>5. QED
  BY <1>1, <1>2, <1>3, <1>4 DEF WritingTypeOK

LEMMA CohortWritingKeeps ==
    ASSUME WritingTypeOK, CohortFilesTypeOK, CohortNext
    PROVE  WritingTypeOK'
<1>1. CASE \E force \in BOOLEAN : Generate(force)
  BY <1>1, StartWritingType DEF Generate
<1>2. ASSUME NEW stage \in StageNames, NEW answer \in ModelAnswers, StageAnswered(stage, answer)
      PROVE  WritingTypeOK'
  <2>1. stage # "manifest"
    BY OutputFileNames
  <2>2. QED
    BY <1>2, <2>1, ProceedsType DEF StageAnswered
<1>3. CASE Review
  BY <1>3, StartWritingType DEF Review
<1>4. ASSUME NEW f \in DocumentNames, WriteDocument(f)
      PROVE  WritingTypeOK'
  <2>1. f # "manifest"
    BY OutputFileNames
  <2>2. QED
    BY <1>4, <2>1, ProceedsType DEF WriteDocument
<1>5. CASE WriteManifest \/ WritingStops
  BY <1>5, IdleWrites DEF WriteManifest, WritingStops, WritingTypeOK
<1>6. CASE WritePatch \/ Approve \/ \E recall \in Recalls : MeasureRecall(recall)
  BY <1>6 DEF WritePatch, Approve, MeasureRecall, WritingTypeOK
<1>7. QED
  BY <1>1, <1>2, <1>3, <1>4, <1>5, <1>6 DEF CohortNext

LEMMA NothingWritten ==
    /\ NoDocuments \in [DocumentNames -> Versions]
    /\ NoManifest \in [hashes : [DocumentNames -> Versions],
                       review : {"absent", "none", "automated", "approved"}]
    /\ NoManifest.review # "approved"
<1>1. 0 \in Versions
  BY CohortAssumption DEF Versions
<1>2. NoDocuments \in [DocumentNames -> Versions]
  BY <1>1 DEF NoDocuments
<1>3. QED
  BY <1>2 DEF NoManifest

LEMMA CohortFilesKeep ==
    ASSUME WritingTypeOK, CohortFilesTypeOK, CohortNext
    PROVE  CohortFilesTypeOK'
<1> DEFINE Reviews == {"absent", "none", "automated", "approved"}
           Manifests == [hashes : [DocumentNames -> Versions], review : Reviews]
<1>1. ASSUME NEW force \in BOOLEAN, Generate(force)
      PROVE  CohortFilesTypeOK'
  <2>1. writings' \in Versions
    BY <1>1, StartWritingType DEF Generate
  <2>2. QED
    BY <1>1, <2>1, NothingWritten DEF Generate, CohortFilesTypeOK
<1>2. ASSUME NEW stage \in StageNames, NEW answer \in ModelAnswers, StageAnswered(stage, answer)
      PROVE  CohortFilesTypeOK'
  <2>1. unsound' \subseteq Versions
    BY <1>2 DEF StageAnswered, AfterMerge, WritingTypeOK, CohortFilesTypeOK
  <2>2. QED
    BY <1>2, <2>1 DEF StageAnswered, CohortFilesTypeOK
<1>3. CASE Review
  <2>1. writings' \in Versions /\ writings + 1 \in Versions
    BY <1>3, StartWritingType DEF Review
  <2>2. unsound' \subseteq Versions
    BY <1>3, <2>1 DEF Review, AfterCorrections, CohortFilesTypeOK
  <2>3. QED
    BY <1>3, <2>1, <2>2 DEF Review, CohortFilesTypeOK
<1>4. ASSUME NEW f \in DocumentNames, WriteDocument(f)
      PROVE  CohortFilesTypeOK'
  <2>1. writing.version \in Versions
    BY DEF WritingTypeOK
  <2>2. documents' \in [DocumentNames -> Versions]
    BY <1>4, <2>1 DEF WriteDocument, Corrected, CohortFilesTypeOK
  <2>3. QED
    BY <1>4, <2>2 DEF WriteDocument, CohortFilesTypeOK
<1>5. CASE WriteManifest
  <2>1. ReviewOf \in Reviews
    BY DEF ReviewOf
  <2>2. manifest' \in Manifests
    BY <1>5, <2>1 DEF WriteManifest, CohortFilesTypeOK
  <2>3. QED
    BY <1>5, <2>2 DEF WriteManifest, CohortFilesTypeOK
<1>6. CASE WritingStops
  BY <1>6 DEF WritingStops, CohortFilesTypeOK
<1>7. CASE WritePatch
  <2>1. patched' \in BOOLEAN
    BY <1>7 DEF WritePatch
  <2>2. QED
    BY <1>7, <2>1 DEF WritePatch, CohortFilesTypeOK
<1>8. CASE Approve
  <2>1. manifest' \in Manifests
    BY <1>8 DEF Approve, CohortFilesTypeOK
  <2>2. QED
    BY <1>8, <2>1, NothingWritten DEF Approve, CohortFilesTypeOK
<1>9. ASSUME NEW recall \in Recalls, MeasureRecall(recall)
      PROVE  CohortFilesTypeOK'
  BY <1>9 DEF MeasureRecall, CohortFilesTypeOK
<1>10. QED
  BY <1>1, <1>2, <1>3, <1>4, <1>5, <1>6, <1>7, <1>8, <1>9 DEF CohortNext

\* No run of a script approves, and a new approval leaves nothing measured.
LEMMA CohortInvKeeps ==
    ASSUME CohortFilesTypeOK, CohortInv, CohortNext
    PROVE  CohortInv'
<1>1. CASE UNCHANGED <<manifest, approval, measured>>
  BY <1>1 DEF CohortInv, ApprovedManifest, MeasuredAsApproved
<1>2. ASSUME NEW force \in BOOLEAN, Generate(force)
      PROVE  CohortInv'
  BY <1>2, NothingWritten DEF Generate, CohortInv, ApprovedManifest, MeasuredAsApproved
<1>3. CASE \/ (\E stage \in StageNames, answer \in ModelAnswers : StageAnswered(stage, answer))
           \/ Review \/ (\E f \in DocumentNames : WriteDocument(f)) \/ WritingStops \/ WritePatch
  BY <1>1, <1>3 DEF StageAnswered, Review, WriteDocument, WritingStops, WritePatch
<1>4. CASE WriteManifest
  <2>1. manifest'.review # "approved"
    BY <1>4 DEF WriteManifest, ReviewOf
  <2>2. QED
    BY <1>4, <2>1 DEF WriteManifest, CohortInv, ApprovedManifest, MeasuredAsApproved
<1>5. CASE Approve
  <2>1. manifest'.hashes = manifest.hashes
    BY <1>5 DEF Approve, CohortFilesTypeOK
  <2>2. manifest.hashes = documents
    BY <1>5 DEF Approve, FixtureValid, HashesMatch
  <2>3. QED
    BY <1>5, <2>1, <2>2 DEF Approve, CohortInv, ApprovedManifest, MeasuredAsApproved
<1>6. ASSUME NEW recall \in Recalls, MeasureRecall(recall)
      PROVE  CohortInv'
  <2>1. manifest.review = "approved" /\ manifest.hashes = documents
    BY <1>6 DEF MeasureRecall, MayMeasure, FixtureValid, HashesMatch
  <2>2. QED
    BY <1>6, <2>1 DEF MeasureRecall, CohortInv, ApprovedManifest, MeasuredAsApproved
<1>7. QED
  BY <1>2, <1>3, <1>4, <1>5, <1>6 DEF CohortNext

LEMMA CohortInitInv == CohortInit => WritingTypeOK /\ CohortFilesTypeOK /\ CohortInv
<1> SUFFICES ASSUME CohortInit PROVE WritingTypeOK /\ CohortFilesTypeOK /\ CohortInv
  OBVIOUS
<1>1. WritingTypeOK
  BY IdleWrites DEF CohortInit, WritingTypeOK
<1>2. CohortFilesTypeOK
  <2>1. patched \in BOOLEAN
    BY DEF CohortInit
  <2>2. writings \in Versions
    BY CohortAssumption DEF CohortInit, Versions
  <2>3. QED
    BY <2>1, <2>2, NothingWritten DEF CohortInit, CohortFilesTypeOK
<1>3. CohortInv
  BY NothingWritten DEF CohortInit, CohortInv, ApprovedManifest, MeasuredAsApproved
<1>4. QED
  BY <1>1, <1>2, <1>3

LEMMA CohortInductive == CohortSpec => [](WritingTypeOK /\ CohortFilesTypeOK /\ CohortInv)
<1>1. ASSUME WritingTypeOK, CohortFilesTypeOK, CohortInv, UNCHANGED cohortVars
      PROVE  WritingTypeOK' /\ CohortFilesTypeOK' /\ CohortInv'
  BY <1>1 DEF cohortVars, WritingTypeOK, CohortFilesTypeOK, CohortInv, ApprovedManifest,
     MeasuredAsApproved
<1>2. WritingTypeOK /\ CohortFilesTypeOK /\ CohortInv /\ [CohortNext]_cohortVars
        => (WritingTypeOK /\ CohortFilesTypeOK /\ CohortInv)'
  BY <1>1, CohortWritingKeeps, CohortFilesKeep, CohortInvKeeps
<1>3. QED
  BY <1>2, CohortInitInv, PTL DEF CohortSpec

\* The cohort's files stay in their types.
THEOREM CohortTypes == CohortSpec => []CohortTypeOK
<1>1. WritingTypeOK /\ CohortFilesTypeOK => CohortTypeOK
  BY DEF WritingTypeOK, CohortFilesTypeOK, CohortTypeOK, Files
<1>2. QED
  BY <1>1, CohortInductive, PTL

\* MeasuredAsApproved: documents pass the recall gate only as they were approved last, however
\* often the scripts write them, stop between two files, or are run anew.
THEOREM MeasuredIsApproved == CohortSpec => []MeasuredAsApproved
<1>1. CohortInv => MeasuredAsApproved
  BY DEF CohortInv
<1>2. QED
  BY <1>1, CohortInductive, PTL

(***************************************************************************)
(* PersonaSeed: no two workers have a unit, and a session whose unit has   *)
(* no late request only has tasks that took a message.                     *)
(***************************************************************************)

UnitTasks == [holds : BOOLEAN, status : TaskStates]
Sessions == [there : BOOLEAN, messages : Nat, tasks : Seq(UnitTasks)]
SeedSteps == {"idle", "create"} \union GetSteps \union PostSteps
Places == [unit : 0..LastUnit, step : SeedSteps, task : Nat]

\* What a session that is committed or written to keeps.
Later(s, t) ==
    /\ s \in Sessions /\ t \in Sessions /\ Len(t.tasks) >= Len(s.tasks)
    /\ \A i \in 1..Len(s.tasks) :
          /\ t.tasks[i].holds = s.tasks[i].holds
          /\ s.tasks[i].status = "completed" => t.tasks[i].status = "completed"

LEMMA LaterSame == ASSUME NEW s \in Sessions PROVE Later(s, s)
<1>1. Len(s.tasks) \in Nat
  BY DEF Sessions
<1>2. QED
  BY <1>1 DEF Later

LEMMA MessageHandled ==
    ASSUME NEW s \in Sessions
    PROVE  /\ Later(s, Appended(s)) /\ Appended(s).messages > 0
           /\ Appended(s).tasks = s.tasks
<1>1. Appended(s) = [there |-> s.there, messages |-> s.messages + 1, tasks |-> s.tasks]
  BY DEF Appended, Sessions
<1>2. s.there \in BOOLEAN /\ s.messages \in Nat /\ s.tasks \in Seq(UnitTasks)
  BY DEF Sessions
<1>3. s.messages + 1 \in Nat /\ s.messages + 1 > 0
  BY <1>2
<1>4. Appended(s) \in Sessions
  BY <1>1, <1>2, <1>3 DEF Sessions
<1>5. Len(s.tasks) \in Nat
  BY <1>2
<1>6. QED
  BY <1>1, <1>3, <1>4, <1>5 DEF Later

LEMMA CommittedFields ==
    ASSUME NEW s \in Sessions, NEW q \in Seq(UnitTasks)
    PROVE  LET t == [s EXCEPT !.messages = 0, !.tasks = q]
           IN  t \in Sessions /\ t.tasks = q
BY DEF Sessions

LEMMA CommitHandled ==
    ASSUME NEW s \in Sessions
    PROVE  /\ Later(s, Committed(s)) /\ Len(Committed(s).tasks) = Len(s.tasks) + 1
           /\ s.messages > 0 => Committed(s).tasks[Len(s.tasks) + 1].holds
<1> DEFINE task == [holds |-> s.messages > 0, status |-> "accepted"]
<1>1. Committed(s) = [s EXCEPT !.messages = 0, !.tasks = Append(s.tasks, task)]
  BY DEF Committed
<1>2. s.there \in BOOLEAN /\ s.messages \in Nat /\ s.tasks \in Seq(UnitTasks)
  BY DEF Sessions
<1>3. task \in UnitTasks
  <2>1. (s.messages > 0) \in BOOLEAN
    OBVIOUS
  <2>2. "accepted" \in TaskStates
    BY DEF TaskStates
  <2>3. QED
    BY <2>1, <2>2 DEF UnitTasks
<1> HIDE DEF task
<1>4. /\ Append(s.tasks, task) \in Seq(UnitTasks) /\ Len(Append(s.tasks, task)) = Len(s.tasks) + 1
      /\ Append(s.tasks, task)[Len(s.tasks) + 1] = task
      /\ \A i \in 1..Len(s.tasks) : Append(s.tasks, task)[i] = s.tasks[i]
      /\ Len(s.tasks) \in Nat
  BY <1>2, <1>3
<1>5. Committed(s) \in Sessions /\ Committed(s).tasks = Append(s.tasks, task)
  BY <1>1, <1>4, CommittedFields
<1>7. Later(s, Committed(s)) /\ Len(Committed(s).tasks) = Len(s.tasks) + 1
  BY <1>4, <1>5 DEF Later
<1>8. s.messages > 0 => task.holds
  BY DEF task
<1>9. QED
  BY <1>4, <1>5, <1>7, <1>8

LEMMA HandledLater ==
    ASSUME NEW s \in Sessions, NEW kind, NEW t \in Handled(kind, s)
    PROVE  /\ Later(s, t)
           /\ s.messages > 0 \/ kind = "message"
                => \A i \in 1..Len(t.tasks) : i > Len(s.tasks) => t.tasks[i].holds
<1>0. Len(s.tasks) \in Nat
  BY DEF Sessions
<1>1. CASE t = s
  BY <1>0, <1>1, LaterSame
<1>2. CASE t = Appended(s)
  BY <1>0, <1>2, MessageHandled
<1>3. CASE kind # "message" /\ t = Committed(s)
  <2>1. \A i \in 1..Len(t.tasks) : i > Len(s.tasks) => i = Len(s.tasks) + 1
    BY <1>0, <1>3, CommitHandled
  <2>2. QED
    BY <1>3, <2>1, CommitHandled
<1>4. QED
  BY <1>1, <1>2, <1>3 DEF Handled

Placed(p, sessions, taken, late) ==
    /\ p.step = "idle" => p = Free
    /\ p.step # "idle" => p.unit \in Units
    /\ p.unit < taken
    /\ p.step = "tasks" => Len(sessions[p.unit].tasks) > 0
    /\ p.step = "poll" => p.task \in 1..Len(sessions[p.unit].tasks)
    /\ p.step = "commit" /\ p.unit \notin late => sessions[p.unit].messages > 0

ScriptTypeOK ==
    /\ cursor \in 1..(LastUnit + 1) /\ seeding \in BOOLEAN /\ runs \in 0..MaxRuns
    /\ results \in [Units -> {"none", "completed", "failed"}]
    /\ abandoned \subseteq (PostSteps \X Units) /\ delayed \subseteq Units

\* No two workers have a unit: what one of them knows of its session stays true.
WorkersInv ==
    /\ at \in [SeedWorkers -> Places]
    /\ \A w \in SeedWorkers : Placed(at[w], provider, cursor, delayed)
    /\ \A w, v \in SeedWorkers : at[w].unit # 0 /\ at[w].unit = at[v].unit => w = v
    /\ ~seeding => \A w \in SeedWorkers : at[w] = Free

\* Where no request came late, every task was for a message.
SessionsInv ==
    /\ provider \in [Units -> Sessions]
    /\ \A u \in Units \ delayed : \A i \in 1..Len(provider[u].tasks) : provider[u].tasks[i].holds

SeedInv == ScriptTypeOK /\ WorkersInv /\ SessionsInv /\ SeededIsExtracted

LEMMA FreePlaced ==
    ASSUME NEW sessions, NEW taken \in 1..(LastUnit + 1), NEW late
    PROVE  Free \in Places /\ Placed(Free, sessions, taken, late)
<1>1. 0 \in 0..LastUnit /\ 0 < taken
  BY SeedAssumption
<1>2. QED
  BY <1>1 DEF Free, Places, Placed, SeedSteps

LEMMA SeedInitInv == SeedInit => SeedInv
<1> SUFFICES ASSUME SeedInit PROVE SeedInv
  OBVIOUS
<1>1. cursor = 1 /\ cursor \in 1..(LastUnit + 1)
  BY SeedAssumption DEF SeedInit
<1>2. ScriptTypeOK
  <2>1. seeding \in BOOLEAN
    BY DEF SeedInit
  <2>2. runs \in 0..MaxRuns
    BY SeedAssumption DEF SeedInit
  <2>3. QED
    BY <1>1, <2>1, <2>2 DEF SeedInit, ScriptTypeOK
<1>3. \A w \in SeedWorkers : at[w] = Free /\ at[w].unit = 0
  BY DEF SeedInit, Free
<1>4. WorkersInv
  <2>1. at \in [SeedWorkers -> Places]
    BY <1>1, FreePlaced DEF SeedInit
  <2>2. \A w \in SeedWorkers : Placed(at[w], provider, cursor, delayed)
    BY <1>1, <1>3, FreePlaced
  <2>3. QED
    BY <1>3, <2>1, <2>2 DEF WorkersInv
<1>5. NoProviderSession \in Sessions /\ Len(NoProviderSession.tasks) = 0
  <2>1. <<>> \in Seq(UnitTasks)
    OBVIOUS
  <2>2. FALSE \in BOOLEAN
    OBVIOUS
  <2>3. NoProviderSession \in Sessions
    BY <2>1, <2>2 DEF NoProviderSession, Sessions
  <2>4. NoProviderSession.tasks = <<>>
    BY DEF NoProviderSession
  <2>5. QED
    BY <2>3, <2>4
<1>6. SessionsInv
  <2>1. \A u \in Units : provider[u] = NoProviderSession
    BY DEF SeedInit
  <2>2. QED
    BY <1>5, <2>1 DEF SeedInit, SessionsInv
<1>7. SeededIsExtracted
  BY DEF SeedInit, SeededIsExtracted
<1>8. QED
  BY <1>2, <1>4, <1>6, <1>7 DEF SeedInv

\* The session of a unit changes, and no other one.
OfUnit(u) ==
    /\ provider' \in [Units -> Sessions]
    /\ \A v \in Units \ {u} : provider'[v] = provider[v]
    /\ Later(provider[u], provider'[u])

LEMMA OfUnitChanged ==
    ASSUME SessionsInv, NEW u \in Units, NEW t, Later(provider[u], t),
           provider' = [provider EXCEPT ![u] = t]
    PROVE  OfUnit(u) /\ provider'[u] = t
BY DEF SessionsInv, OfUnit, Later

LEMMA OfUnitSame ==
    ASSUME SessionsInv, NEW u \in Units, UNCHANGED provider
    PROVE  OfUnit(u)
BY LaterSame DEF SessionsInv, OfUnit

\* What was extracted stays so, and what is reported besides has to be.
LEMMA StaysExtracted ==
    ASSUME SeedInv, NEW u \in Units, OfUnit(u), delayed \subseteq delayed',
           NEW v \in Units, v \notin delayed', results'[v] = "completed",
           results'[v] = results[v]
    PROVE  \E i \in DOMAIN provider'[v].tasks :
              provider'[v].tasks[i].holds /\ provider'[v].tasks[i].status = "completed"
<1>1. PICK i \in DOMAIN provider[v].tasks :
          provider[v].tasks[i].holds /\ provider[v].tasks[i].status = "completed"
  BY DEF SeedInv, SeededIsExtracted
<1>2. CASE v # u
  BY <1>1, <1>2 DEF OfUnit
<1>3. CASE v = u
  <2>1. provider[u].tasks \in Seq(UnitTasks) /\ provider'[u].tasks \in Seq(UnitTasks)
    BY DEF OfUnit, Later, Sessions
  <2>2. /\ DOMAIN provider[u].tasks = 1..Len(provider[u].tasks) /\ Len(provider[u].tasks) \in Nat
        /\ DOMAIN provider'[u].tasks = 1..Len(provider'[u].tasks) /\ Len(provider'[u].tasks) \in Nat
    BY <2>1
  <2>3. i \in DOMAIN provider'[u].tasks
    BY <1>1, <1>3, <2>2 DEF OfUnit, Later
  <2>4. QED
    BY <1>1, <1>3, <2>2, <2>3 DEF OfUnit, Later
<1>4. QED
  BY <1>2, <1>3

\* A session whose unit has no late request only gets tasks for messages.
LEMMA SessionsKeep ==
    ASSUME SeedInv, NEW u \in Units, OfUnit(u), delayed \subseteq delayed',
           u \notin delayed' => \A i \in 1..Len(provider'[u].tasks) :
               i > Len(provider[u].tasks) => provider'[u].tasks[i].holds
    PROVE  SessionsInv'
<1> SUFFICES ASSUME NEW v \in Units, v \notin delayed', NEW i \in 1..Len(provider'[v].tasks)
             PROVE  provider'[v].tasks[i].holds
  BY DEF SessionsInv, OfUnit
<1>1. CASE v # u
  BY <1>1 DEF OfUnit, SeedInv, SessionsInv
<1>2. CASE v = u
  <2>1. provider[u].tasks \in Seq(UnitTasks) /\ provider'[u].tasks \in Seq(UnitTasks)
    BY DEF OfUnit, Later, Sessions
  <2>2. Len(provider[u].tasks) \in Nat /\ Len(provider'[u].tasks) \in Nat
    BY <2>1
  <2>3. CASE i > Len(provider[u].tasks)
    BY <1>2, <2>3
  <2>4. CASE i \in 1..Len(provider[u].tasks)
    BY <1>2, <2>4 DEF OfUnit, Later, SeedInv, SessionsInv
  <2>5. QED
    BY <1>2, <2>2, <2>3, <2>4
<1>3. QED
  BY <1>1, <1>2

LEMMA PlacedKeeps ==
    ASSUME SessionsInv, NEW p \in Places, Placed(p, provider, cursor, delayed),
           NEW u \in Units, OfUnit(u), delayed \subseteq delayed',
           NEW taken \in Int, cursor <= taken, cursor \in Int,
           p.unit = u /\ u \notin delayed' => provider'[u].messages >= provider[u].messages
    PROVE  Placed(p, provider', taken, delayed')
<1>1. /\ p.step = "idle" => p = Free
      /\ p.step # "idle" => p.unit \in Units
  BY DEF Placed
<1>2. p.unit < taken
  BY SeedAssumption DEF Placed, Places
<1>3. CASE p.step = "idle"
  BY <1>1, <1>2, <1>3 DEF Placed
<1>4. CASE p.step # "idle" /\ p.unit # u
  <2>1. provider'[p.unit] = provider[p.unit]
    BY <1>1, <1>4 DEF OfUnit
  <2>2. QED
    BY <1>1, <1>2, <1>4, <2>1 DEF Placed
<1>5. CASE p.step # "idle" /\ p.unit = u
  <2>1. /\ provider[u].tasks \in Seq(UnitTasks) /\ provider'[u].tasks \in Seq(UnitTasks)
        /\ provider[u].messages \in Nat /\ provider'[u].messages \in Nat
    BY DEF OfUnit, Later, Sessions
  <2>2. /\ Len(provider[u].tasks) \in Nat /\ Len(provider'[u].tasks) \in Nat
        /\ Len(provider'[u].tasks) >= Len(provider[u].tasks)
    BY <2>1 DEF OfUnit, Later
  <2>3. p.step = "tasks" => Len(provider'[u].tasks) > 0
    BY <1>5, <2>2 DEF Placed
  <2>4. p.step = "poll" => p.task \in 1..Len(provider'[u].tasks)
    BY <1>5, <2>2 DEF Placed
  <2>5. p.step = "commit" /\ u \notin delayed' => provider'[u].messages > 0
    BY <1>5, <2>1 DEF Placed
  <2>6. QED
    BY <1>1, <1>2, <1>5, <2>3, <2>4, <2>5 DEF Placed
<1>6. QED
  BY <1>3, <1>4, <1>5

LEMMA WorkersWait ==
    ASSUME SeedInv, NEW u \in Units, OfUnit(u), UNCHANGED <<at, cursor, seeding>>,
           delayed \subseteq delayed',
           u \notin delayed' => provider'[u].messages >= provider[u].messages
    PROVE  WorkersInv'
<1>1. SessionsInv /\ WorkersInv /\ cursor \in Int
  BY DEF SeedInv, ScriptTypeOK
<1>2. ASSUME NEW w \in SeedWorkers
      PROVE  Placed(at[w], provider', cursor, delayed')
  <2>1. at[w] \in Places /\ Placed(at[w], provider, cursor, delayed)
    BY <1>1 DEF WorkersInv
  <2>2. QED
    BY <1>1, <2>1, PlacedKeeps
<1>3. QED
  BY <1>1, <1>2 DEF WorkersInv

LEMMA WorkersGoOn ==
    ASSUME SeedInv, NEW w \in SeedWorkers, at[w].step # "idle",
           NEW p \in Places, at' = [at EXCEPT ![w] = p],
           p = Free \/ (p.unit = at[w].unit /\ p.step # "idle"),
           OfUnit(at[w].unit), UNCHANGED <<cursor, seeding, delayed>>,
           Placed(p, provider', cursor, delayed)
    PROVE  WorkersInv'
<1> DEFINE u == at[w].unit
<1>1. SessionsInv /\ WorkersInv /\ cursor \in Int
  BY DEF SeedInv, ScriptTypeOK
<1>2. u \in Units /\ at[w] # Free /\ u # 0
  BY <1>1, SeedAssumption DEF WorkersInv, Placed, Free, Units
<1>3. at' \in [SeedWorkers -> Places] /\ at'[w] = p /\ \A v \in SeedWorkers \ {w} : at'[v] = at[v]
  BY <1>1 DEF WorkersInv
<1>4. ASSUME NEW v \in SeedWorkers
      PROVE  Placed(at'[v], provider', cursor, delayed)
  <2>1. CASE v = w
    BY <1>3, <2>1
  <2>2. CASE v # w
    <3>1. at[v] \in Places /\ Placed(at[v], provider, cursor, delayed) /\ at[v].unit # u
      BY <1>1, <1>2, <2>2 DEF WorkersInv
    <3>2. QED
      BY <1>1, <1>2, <1>3, <2>2, <3>1, PlacedKeeps
  <2>3. QED
    BY <2>1, <2>2
<1>5. ASSUME NEW v \in SeedWorkers, NEW x \in SeedWorkers, at'[v].unit # 0, at'[v].unit = at'[x].unit
      PROVE  v = x
  <2>1. p.unit \in {0, u}
    BY DEF Free
  <2>2. QED
    BY <1>1, <1>3, <1>5, <2>1 DEF WorkersInv
<1>6. seeding
  BY <1>1, <1>2 DEF WorkersInv
<1>7. QED
  BY <1>3, <1>4, <1>5, <1>6 DEF WorkersInv

LEMMA TakeInv ==
    ASSUME SeedInv, NEW w \in SeedWorkers, Take(w)
    PROVE  WorkersInv'
<1> DEFINE p == [unit |-> cursor, step |-> "read", task |-> 0]
<1>1. SessionsInv /\ WorkersInv /\ cursor \in Int
  BY DEF SeedInv, ScriptTypeOK
<1>2. /\ cursor \in Units /\ cursor # 0 /\ cursor \in 0..LastUnit /\ cursor < cursor + 1
  BY SeedAssumption DEF SeedInv, ScriptTypeOK, Take, Units
<1>3. p \in Places /\ p.unit = cursor /\ p.step = "read"
  BY <1>2 DEF Places, SeedSteps, GetSteps
<1>4. Placed(p, provider', cursor + 1, delayed')
  BY <1>2, <1>3 DEF Placed
<1> HIDE DEF p
<1>5. at' \in [SeedWorkers -> Places] /\ at'[w] = p /\ \A v \in SeedWorkers \ {w} : at'[v] = at[v]
  BY <1>1, <1>3 DEF WorkersInv, Take, p
<1>6. OfUnit(cursor) /\ UNCHANGED <<provider, delayed>> /\ cursor' = cursor + 1 /\ seeding'
  BY <1>1, <1>2, OfUnitSame DEF Take
<1>7. ASSUME NEW v \in SeedWorkers
      PROVE  Placed(at'[v], provider', cursor', delayed')
  <2>1. CASE v = w
    BY <1>4, <1>5, <1>6, <2>1
  <2>2. CASE v # w
    <3>1. at[v] \in Places /\ Placed(at[v], provider, cursor, delayed)
      BY <1>1 DEF WorkersInv
    <3>2. provider'[cursor].messages >= provider[cursor].messages
      BY <1>1, <1>2, <1>6 DEF SessionsInv, Sessions
    <3>3. Placed(at[v], provider', cursor + 1, delayed')
      BY <1>1, <1>2, <1>6, <3>1, <3>2, PlacedKeeps
    <3>4. QED
      BY <1>5, <1>6, <2>2, <3>3
  <2>3. QED
    BY <2>1, <2>2
<1>8. ASSUME NEW v \in SeedWorkers PROVE at[v].unit # cursor
  BY <1>1 DEF WorkersInv, Placed
<1>9. ASSUME NEW v \in SeedWorkers, NEW x \in SeedWorkers, at'[v].unit # 0, at'[v].unit = at'[x].unit
      PROVE  v = x
  BY <1>1, <1>3, <1>5, <1>8, <1>9 DEF WorkersInv
<1>10. QED
  BY <1>5, <1>6, <1>7, <1>9 DEF WorkersInv

ExtractedFrom(session) ==
    \E i \in DOMAIN session.tasks : session.tasks[i].holds /\ session.tasks[i].status = "completed"

\* A step of a worker: what it knows of its session, what the session gets, what it reports.
LEMMA WorkerStepInv ==
    ASSUME SeedInv, NEW w \in SeedWorkers, at[w].step # "idle",
           NEW p \in Places, at' = [at EXCEPT ![w] = p],
           p = Free \/ (p.unit = at[w].unit /\ p.step # "idle"),
           OfUnit(at[w].unit), UNCHANGED <<cursor, seeding, runs, delayed>>,
           abandoned' \subseteq PostSteps \X Units,
           Placed(p, provider', cursor, delayed),
           at[w].unit \notin delayed => \A i \in 1..Len(provider'[at[w].unit].tasks) :
               i > Len(provider[at[w].unit].tasks) => provider'[at[w].unit].tasks[i].holds,
           NEW status \in {"none", "completed", "failed"},
           results' = IF status = "none" THEN results ELSE [results EXCEPT ![at[w].unit] = status],
           status = "completed" /\ at[w].unit \notin delayed => ExtractedFrom(provider'[at[w].unit])
    PROVE  SeedInv'
<1> DEFINE u == at[w].unit
<1>1. u \in Units
  BY DEF SeedInv, WorkersInv, Placed
<1>2. /\ results' \in [Units -> {"none", "completed", "failed"}]
      /\ \A v \in Units \ {u} : results'[v] = results[v]
      /\ results'[u] = IF status = "none" THEN results[u] ELSE status
  BY <1>1 DEF SeedInv, ScriptTypeOK
<1>3. ScriptTypeOK'
  BY <1>2 DEF SeedInv, ScriptTypeOK
<1>4. WorkersInv'
  BY WorkersGoOn
<1>5. SessionsInv'
  BY <1>1, SessionsKeep
<1>6. SeededIsExtracted'
  <2> SUFFICES ASSUME NEW v \in Units, results'[v] = "completed", v \notin delayed'
               PROVE  ExtractedFrom(provider'[v])
    BY DEF SeededIsExtracted, ExtractedFrom
  <2>1. CASE results'[v] = results[v]
    BY <1>1, <2>1, StaysExtracted DEF ExtractedFrom
  <2>2. CASE results'[v] # results[v]
    BY <1>2, <2>2
  <2>3. QED
    BY <2>1, <2>2
<1>7. QED
  BY <1>3, <1>4, <1>5, <1>6 DEF SeedInv

LEMMA GoesTo ==
    ASSUME SeedInv, NEW w \in SeedWorkers, NEW step \in SeedSteps, Goes(w, step)
    PROVE  \E p \in Places : /\ at' = [at EXCEPT ![w] = p]
                             /\ p.unit = at[w].unit /\ p.step = step
<1> DEFINE p == [at[w] EXCEPT !.step = step]
<1>1. at[w] \in Places
  BY DEF SeedInv, WorkersInv
<1>2. p \in Places /\ p.unit = at[w].unit /\ p.step = step
  BY <1>1 DEF Places
<1>3. at' = [at EXCEPT ![w] = p]
  BY DEF Goes
<1>4. QED
  BY <1>2, <1>3

LEMMA PollsFor ==
    ASSUME SeedInv, NEW w \in SeedWorkers, NEW task \in Nat, Polls(w, task)
    PROVE  \E p \in Places : /\ at' = [at EXCEPT ![w] = p]
                             /\ p.unit = at[w].unit /\ p.step = "poll" /\ p.task = task
<1> DEFINE p == [at[w] EXCEPT !.step = "poll", !.task = task]
<1>1. at[w] \in Places /\ "poll" \in SeedSteps
  BY DEF SeedInv, WorkersInv, SeedSteps, GetSteps
<1>2. p \in Places /\ p.unit = at[w].unit /\ p.step = "poll" /\ p.task = task
  BY <1>1 DEF Places
<1>3. at' = [at EXCEPT ![w] = p]
  BY DEF Polls
<1>4. QED
  BY <1>2, <1>3

\* What a worker at a unit may rely on.
LEMMA WorkerAt ==
    ASSUME SeedInv, NEW w \in SeedWorkers, at[w].step # "idle"
    PROVE  /\ at[w].unit \in Units /\ at[w].unit < cursor /\ cursor \in 1..(LastUnit + 1)
           /\ provider[at[w].unit] \in Sessions
           /\ provider[at[w].unit].tasks \in Seq(UnitTasks)
           /\ Len(provider[at[w].unit].tasks) \in Nat
           /\ provider[at[w].unit].messages \in Nat
           /\ abandoned \subseteq PostSteps \X Units
           /\ results \in [Units -> {"none", "completed", "failed"}]
           /\ Free \in Places /\ Placed(Free, provider', cursor, delayed)
<1>1. at[w].unit \in Units /\ at[w].unit < cursor /\ cursor \in 1..(LastUnit + 1)
  BY DEF SeedInv, WorkersInv, Placed, ScriptTypeOK
<1>2. provider[at[w].unit] \in Sessions
  BY <1>1 DEF SeedInv, SessionsInv
<1>3. /\ provider[at[w].unit].tasks \in Seq(UnitTasks)
      /\ provider[at[w].unit].messages \in Nat
  BY <1>2 DEF Sessions
<1>4. QED
  BY <1>1, <1>2, <1>3, FreePlaced DEF SeedInv, ScriptTypeOK

LEMMA ReadSessionInv ==
    ASSUME SeedInv, NEW w \in SeedWorkers, ReadSession(w)
    PROVE  SeedInv'
<1> DEFINE u == at[w].unit
           step == IF provider[u].there THEN StepAfter(provider[u]) ELSE "create"
<1>1. at[w].step # "idle" /\ Goes(w, step)
  BY DEF ReadSession
<1>2. /\ step \in {"create", "tasks", "message", "commit"}
      /\ step = "tasks" => Len(provider[u].tasks) > 0
      /\ step = "commit" => provider[u].messages > 0
  BY <1>1, WorkerAt DEF StepAfter
<1> HIDE DEF step
<1>3. step \in SeedSteps
  BY <1>2 DEF SeedSteps, GetSteps, PostSteps
<1>4. PICK p \in Places : at' = [at EXCEPT ![w] = p] /\ p.unit = u /\ p.step = step
  BY <1>1, <1>3, GoesTo
<1>5. UNCHANGED <<provider, cursor, results, seeding, runs, abandoned, delayed>> /\ OfUnit(u)
  BY <1>1, WorkerAt, OfUnitSame DEF ReadSession, SeedInv
<1>6. Placed(p, provider', cursor, delayed)
  BY <1>1, <1>2, <1>4, <1>5, WorkerAt DEF Placed
<1>7. \A i \in 1..Len(provider'[u].tasks) : ~(i > Len(provider[u].tasks))
  BY <1>1, <1>5, WorkerAt
<1>8. results' = IF "none" = "none" THEN results ELSE [results EXCEPT ![u] = "none"]
  BY <1>5
<1>9. p.step # "idle" /\ "none" # "completed" /\ abandoned' \subseteq PostSteps \X Units
  BY <1>1, <1>2, <1>4, <1>5, WorkerAt
<1>10. QED
  BY <1>1, <1>4, <1>5, <1>6, <1>7, <1>8, <1>9, WorkerStepInv

LEMMA CreatedSession ==
    ASSUME NEW s \in Sessions
    PROVE  LET t == [s EXCEPT !.there = TRUE]
           IN  Later(s, t) /\ t.tasks = s.tasks /\ t.messages = s.messages
<1> DEFINE t == [s EXCEPT !.there = TRUE]
<1>1. t \in Sessions /\ t.tasks = s.tasks /\ t.messages = s.messages
  BY DEF Sessions
<1>2. Len(s.tasks) \in Nat
  BY DEF Sessions
<1>3. QED
  BY <1>1, <1>2 DEF Later

LEMMA CreateSessionInv ==
    ASSUME SeedInv, NEW w \in SeedWorkers, CreateSession(w)
    PROVE  SeedInv'
<1> DEFINE u == at[w].unit
           t == [provider[u] EXCEPT !.there = TRUE]
<1>1. at[w].step # "idle" /\ Goes(w, "reread") /\ "reread" \in SeedSteps
  BY DEF CreateSession, SeedSteps, GetSteps
<1>2. PICK p \in Places : at' = [at EXCEPT ![w] = p] /\ p.unit = u /\ p.step = "reread"
  BY <1>1, GoesTo
<1>3. /\ UNCHANGED <<cursor, results, seeding, runs, abandoned, delayed>>
      /\ provider' = [provider EXCEPT ![u] = t]
  BY DEF CreateSession
<1>4. Later(provider[u], t) /\ t.tasks = provider[u].tasks
  BY <1>1, WorkerAt, CreatedSession
<1> HIDE DEF t
<1>5. OfUnit(u) /\ provider'[u] = t
  BY <1>1, <1>3, <1>4, WorkerAt, OfUnitChanged DEF SeedInv
<1>6. Placed(p, provider', cursor, delayed)
  BY <1>1, <1>2, WorkerAt DEF Placed
<1>7. \A i \in 1..Len(provider'[u].tasks) : ~(i > Len(provider[u].tasks))
  BY <1>1, <1>4, <1>5, WorkerAt
<1>8. results' = IF "none" = "none" THEN results ELSE [results EXCEPT ![u] = "none"]
  BY <1>3
<1>9. p.step # "idle" /\ "none" # "completed" /\ abandoned' \subseteq PostSteps \X Units
  BY <1>1, <1>2, <1>3, WorkerAt
<1>10. QED
  BY <1>1, <1>2, <1>3, <1>5, <1>6, <1>7, <1>8, <1>9, WorkerStepInv

LEMMA NewestTaskInv ==
    ASSUME SeedInv, NEW w \in SeedWorkers, NewestTask(w)
    PROVE  SeedInv'
<1> DEFINE u == at[w].unit
           task == Len(provider[u].tasks)
<1>1. at[w].step = "tasks" /\ at[w].step # "idle" /\ Polls(w, task)
  BY DEF NewestTask
<1>2. task \in Nat /\ task > 0 /\ u \in Units
  BY <1>1, WorkerAt DEF SeedInv, WorkersInv, Placed
<1>3. PICK p \in Places : /\ at' = [at EXCEPT ![w] = p]
                          /\ p.unit = u /\ p.step = "poll" /\ p.task = task
  BY <1>1, <1>2, PollsFor
<1>4. UNCHANGED <<provider, cursor, results, seeding, runs, abandoned, delayed>> /\ OfUnit(u)
  BY <1>2, OfUnitSame DEF NewestTask, SeedInv
<1>5. Placed(p, provider', cursor, delayed)
  <2>1. p.task \in 1..Len(provider'[p.unit].tasks)
    BY <1>2, <1>3, <1>4
  <2>2. QED
    BY <1>1, <1>2, <1>3, <2>1, WorkerAt DEF Placed
<1>6. \A i \in 1..Len(provider'[u].tasks) : ~(i > Len(provider[u].tasks))
  BY <1>2, <1>4
<1>7. results' = IF "none" = "none" THEN results ELSE [results EXCEPT ![u] = "none"]
  BY <1>4
<1>8. p.step # "idle" /\ "none" # "completed" /\ abandoned' \subseteq PostSteps \X Units
  BY <1>1, <1>3, <1>4, WorkerAt
<1>9. QED
  BY <1>1, <1>3, <1>4, <1>5, <1>6, <1>7, <1>8, WorkerStepInv

LEMMA AppendMessageInv ==
    ASSUME SeedInv, NEW w \in SeedWorkers, AppendMessage(w)
    PROVE  SeedInv'
<1> DEFINE u == at[w].unit
           t == Appended(provider[u])
<1>1. at[w].step # "idle" /\ Goes(w, "commit") /\ "commit" \in SeedSteps
  BY DEF AppendMessage, SeedSteps, PostSteps
<1>2. PICK p \in Places : at' = [at EXCEPT ![w] = p] /\ p.unit = u /\ p.step = "commit"
  BY <1>1, GoesTo
<1>3. /\ UNCHANGED <<cursor, results, seeding, runs, abandoned, delayed>>
      /\ provider' = [provider EXCEPT ![u] = t]
  BY DEF AppendMessage
<1>4. Later(provider[u], t) /\ t.tasks = provider[u].tasks /\ t.messages > 0
  BY <1>1, WorkerAt, MessageHandled
<1> HIDE DEF t
<1>5. OfUnit(u) /\ provider'[u] = t
  BY <1>1, <1>3, <1>4, WorkerAt, OfUnitChanged DEF SeedInv
<1>6. Placed(p, provider', cursor, delayed)
  BY <1>1, <1>2, <1>4, <1>5, WorkerAt DEF Placed
<1>7. \A i \in 1..Len(provider'[u].tasks) : ~(i > Len(provider[u].tasks))
  BY <1>1, <1>4, <1>5, WorkerAt
<1>8. results' = IF "none" = "none" THEN results ELSE [results EXCEPT ![u] = "none"]
  BY <1>3
<1>9. p.step # "idle" /\ "none" # "completed" /\ abandoned' \subseteq PostSteps \X Units
  BY <1>1, <1>2, <1>3, WorkerAt
<1>10. QED
  BY <1>1, <1>2, <1>3, <1>5, <1>6, <1>7, <1>8, <1>9, WorkerStepInv

LEMMA CommitSessionInv ==
    ASSUME SeedInv, NEW w \in SeedWorkers, CommitSession(w)
    PROVE  SeedInv'
<1> DEFINE u == at[w].unit
<1>1. at[w].step = "commit" /\ at[w].step # "idle"
  BY DEF CommitSession
<1>2. u \in Units /\ (u \notin delayed => provider[u].messages > 0)
  BY <1>1 DEF SeedInv, WorkersInv, Placed
<1>3. PICK s \in Handled("commit", provider[u]) :
          /\ provider' = [provider EXCEPT ![u] = s]
          /\ IF s = provider[u]
             THEN Settles(w, "completed")
             ELSE Polls(w, Len(s.tasks)) /\ UNCHANGED results
  BY DEF CommitSession
<1>4. UNCHANGED <<cursor, seeding, runs, abandoned, delayed>> /\ abandoned' \subseteq PostSteps \X Units
  BY <1>1, WorkerAt DEF CommitSession
<1>5. /\ Later(provider[u], s)
      /\ u \notin delayed => \A i \in 1..Len(s.tasks) : i > Len(provider[u].tasks) => s.tasks[i].holds
  BY <1>1, <1>2, WorkerAt, HandledLater
<1>6. OfUnit(u) /\ provider'[u] = s
  BY <1>2, <1>3, <1>5, OfUnitChanged DEF SeedInv
<1>7. CASE s = provider[u]
  <2>1. u \in delayed
    <3> SUFFICES ASSUME u \notin delayed PROVE FALSE
      OBVIOUS
    <3>1. s = Committed(provider[u])
      BY <1>1, <1>2, <1>3, WorkerAt DEF Handled
    <3>2. Len(s.tasks) = Len(provider[u].tasks) + 1
      BY <1>1, <3>1, WorkerAt, CommitHandled
    <3>3. QED
      BY <1>1, <1>7, <3>2, WorkerAt
  <2>2. /\ at' = [at EXCEPT ![w] = Free]
        /\ results' = IF "completed" = "none" THEN results ELSE [results EXCEPT ![u] = "completed"]
    BY <1>3, <1>7 DEF Settles
  <2>3. Free \in Places /\ Placed(Free, provider', cursor, delayed)
    BY <1>1, WorkerAt
  <2>4. QED
    BY <1>1, <1>4, <1>5, <1>6, <2>1, <2>2, <2>3, WorkerStepInv
<1>8. CASE s # provider[u]
  <2>1. s = Committed(provider[u])
    BY <1>3, <1>8 DEF Handled
  <2>2. Len(s.tasks) \in Nat /\ Len(s.tasks) > 0
    <3>1. provider[u] \in Sessions /\ Len(provider[u].tasks) \in Nat
      BY <1>1, WorkerAt
    <3>2. Len(s.tasks) = Len(provider[u].tasks) + 1
      BY <2>1, <3>1, CommitHandled
    <3>3. QED
      BY <3>1, <3>2
  <2>3. PICK p \in Places : /\ at' = [at EXCEPT ![w] = p]
                            /\ p.unit = u /\ p.step = "poll" /\ p.task = Len(s.tasks)
    BY <1>3, <1>8, <2>2, PollsFor
  <2>4. Placed(p, provider', cursor, delayed)
    <3>1. p.task \in 1..Len(provider'[p.unit].tasks)
      BY <1>6, <2>2, <2>3
    <3>2. QED
      BY <1>1, <1>2, <2>3, <3>1, WorkerAt DEF Placed
  <2>5. results' = IF "none" = "none" THEN results ELSE [results EXCEPT ![u] = "none"]
    BY <1>3, <1>8
  <2>6. p.step # "idle" /\ "none" # "completed"
    BY <2>3
  <2>7. QED
    BY <1>1, <1>4, <1>5, <1>6, <2>3, <2>4, <2>5, <2>6, WorkerStepInv
<1>9. QED
  BY <1>7, <1>8

LEMMA PollInv ==
    ASSUME SeedInv, NEW w \in SeedWorkers, Poll(w)
    PROVE  SeedInv'
<1> DEFINE u == at[w].unit
           task == provider[u].tasks[at[w].task]
<1>1. at[w].step = "poll" /\ at[w].step # "idle"
  BY DEF Poll
<1>2. u \in Units /\ at[w].task \in 1..Len(provider[u].tasks)
  BY <1>1 DEF SeedInv, WorkersInv, Placed
<1>3. /\ task \in UnitTasks /\ at[w].task \in DOMAIN provider[u].tasks
      /\ u \notin delayed => task.holds
  <2>1. provider[u].tasks \in Seq(UnitTasks)
    BY <1>1, WorkerAt
  <2>2. QED
    BY <1>2, <2>1 DEF SeedInv, SessionsInv
<1>4. task.status \in {"completed", "failed"} /\ Settles(w, task.status)
  BY <1>3 DEF Poll, ResultOf, UnitTasks, TaskStates
<1>5. UNCHANGED <<provider, cursor, seeding, runs, abandoned, delayed>> /\ OfUnit(u)
  BY <1>2, OfUnitSame DEF Poll, SeedInv
<1>6. task.status = "completed" /\ u \notin delayed => ExtractedFrom(provider'[u])
  BY <1>3, <1>5 DEF ExtractedFrom
<1> HIDE DEF task
<1>7. /\ at' = [at EXCEPT ![w] = Free]
      /\ results' = IF task.status = "none" THEN results ELSE [results EXCEPT ![u] = task.status]
      /\ task.status \in {"none", "completed", "failed"}
  BY <1>4 DEF Settles
<1>8. \A i \in 1..Len(provider'[u].tasks) : ~(i > Len(provider[u].tasks))
  BY <1>1, <1>5, WorkerAt
<1>9. abandoned' \subseteq PostSteps \X Units
  BY <1>1, <1>5, WorkerAt
<1>10. Free \in Places /\ Placed(Free, provider', cursor, delayed)
  BY <1>1, WorkerAt
<1>11. QED
  BY <1>1, <1>5, <1>6, <1>7, <1>8, <1>9, <1>10, WorkerStepInv

\* A unit that is given up: whatever became of the request that was not answered.
LEMMA UnitGivenUp ==
    ASSUME SeedInv, NEW w \in SeedWorkers, at[w].step # "idle", Settles(w, "failed"),
           OfUnit(at[w].unit), UNCHANGED <<cursor, seeding, runs, delayed>>,
           abandoned' \subseteq PostSteps \X Units,
           at[w].unit \notin delayed => \A i \in 1..Len(provider'[at[w].unit].tasks) :
               i > Len(provider[at[w].unit].tasks) => provider'[at[w].unit].tasks[i].holds
    PROVE  SeedInv'
<1>1. /\ at' = [at EXCEPT ![w] = Free]
      /\ results' = IF "failed" = "none" THEN results ELSE [results EXCEPT ![at[w].unit] = "failed"]
      /\ "failed" # "completed"
  BY DEF Settles
<1>2. Free \in Places /\ Placed(Free, provider', cursor, delayed)
  BY WorkerAt
<1>3. QED
  BY <1>1, <1>2, WorkerStepInv

LEMMA GivesUpInv ==
    ASSUME SeedInv, NEW w \in SeedWorkers, GivesUp(w)
    PROVE  SeedInv'
<1>1. at[w].step # "idle" /\ Settles(w, "failed")
  BY DEF GivesUp, GetSteps
<1>2. UNCHANGED <<provider, cursor, seeding, runs, abandoned, delayed>> /\ OfUnit(at[w].unit)
  BY <1>1, WorkerAt, OfUnitSame DEF GivesUp, SeedInv
<1>3. \A i \in 1..Len(provider'[at[w].unit].tasks) : ~(i > Len(provider[at[w].unit].tasks))
  BY <1>1, <1>2, WorkerAt
<1>4. abandoned' \subseteq PostSteps \X Units
  BY <1>1, <1>2, WorkerAt
<1>5. QED
  BY <1>1, <1>2, <1>3, <1>4, UnitGivenUp

LEMMA AbandonsInv ==
    ASSUME SeedInv, NEW w \in SeedWorkers, Abandons(w)
    PROVE  SeedInv'
<1> DEFINE u == at[w].unit
<1>1. /\ at[w].step \in PostSteps \union {"create"} /\ at[w].step # "idle" /\ Settles(w, "failed")
      /\ UNCHANGED <<cursor, seeding, runs, delayed>>
  BY DEF Abandons, PostSteps
<1>2. u \in Units /\ SessionsInv /\ abandoned \subseteq PostSteps \X Units
  BY <1>1, WorkerAt DEF SeedInv
<1>3. CASE UNCHANGED provider /\ abandoned' \subseteq PostSteps \X Units
  <2>1. \A i \in 1..Len(provider'[u].tasks) : ~(i > Len(provider[u].tasks))
    BY <1>1, <1>3, WorkerAt
  <2>2. OfUnit(u)
    BY <1>2, <1>3, OfUnitSame
  <2>3. QED
    BY <1>1, <1>3, <2>1, <2>2, UnitGivenUp
<1>4. CASE at[w].step = "create" /\ provider' = [provider EXCEPT ![u].there = TRUE] /\ UNCHANGED abandoned
  <2> DEFINE t == [provider[u] EXCEPT !.there = TRUE]
  <2>1. Later(provider[u], t) /\ t.tasks = provider[u].tasks
    BY <1>1, WorkerAt, CreatedSession
  <2>2. provider' = [provider EXCEPT ![u] = t]
    BY <1>4
  <2> HIDE DEF t
  <2>3. OfUnit(u) /\ provider'[u] = t
    BY <1>2, <2>1, <2>2, OfUnitChanged
  <2>4. \A i \in 1..Len(provider'[u].tasks) : ~(i > Len(provider[u].tasks))
    BY <1>1, <2>1, <2>3, WorkerAt
  <2>5. QED
    BY <1>1, <1>2, <1>4, <2>3, <2>4, UnitGivenUp
<1>5. ASSUME at[w].step \in PostSteps, UNCHANGED abandoned, NEW s \in Handled(at[w].step, provider[u]),
             provider' = [provider EXCEPT ![u] = s]
      PROVE  SeedInv'
  <2>1. u \notin delayed => provider[u].messages > 0 \/ at[w].step = "message"
    BY <1>5 DEF PostSteps, SeedInv, WorkersInv, Placed
  <2>2. /\ Later(provider[u], s)
        /\ u \notin delayed => \A i \in 1..Len(s.tasks) : i > Len(provider[u].tasks) => s.tasks[i].holds
    BY <1>1, <1>5, <2>1, WorkerAt, HandledLater
  <2>3. OfUnit(u) /\ provider'[u] = s
    BY <1>2, <1>5, <2>2, OfUnitChanged
  <2>4. QED
    BY <1>1, <1>2, <1>5, <2>2, <2>3, UnitGivenUp
<1>6. \/ UNCHANGED <<provider, abandoned>>
      \/ at[w].step = "create" /\ provider' = [provider EXCEPT ![u].there = TRUE] /\ UNCHANGED abandoned
      \/ at[w].step \in PostSteps /\ abandoned' = abandoned \union {<<at[w].step, u>>} /\ UNCHANGED provider
      \/ /\ at[w].step \in PostSteps /\ UNCHANGED abandoned
         /\ \E s \in Handled(at[w].step, provider[u]) : provider' = [provider EXCEPT ![u] = s]
  BY DEF Abandons
<1>7. CASE at[w].step \in PostSteps /\ abandoned' = abandoned \union {<<at[w].step, u>>} /\ UNCHANGED provider
  BY <1>2, <1>3, <1>7
<1>8. QED
  BY <1>2, <1>3, <1>4, <1>5, <1>6, <1>7

\* No worker is anywhere: the sessions and what was reported stay.
LEMMA AllFree ==
    ASSUME SeedInv, at' = [w \in SeedWorkers |-> Free], UNCHANGED <<provider, delayed>>,
           cursor' \in 1..(LastUnit + 1)
    PROVE  WorkersInv' /\ SessionsInv'
<1>1. SessionsInv'
  BY DEF SeedInv, SessionsInv
<1>2. \A w \in SeedWorkers : at'[w] = Free /\ at'[w].unit = 0
  BY DEF Free
<1>3. Free \in Places /\ Placed(Free, provider', cursor', delayed')
  BY FreePlaced
<1>4. QED
  BY <1>1, <1>2, <1>3 DEF WorkersInv

LEMMA RunsInv ==
    ASSUME SeedInv, Start \/ Reports \/ Stops
    PROVE  SeedInv'
<1>1. CASE Start
  <2>1. at \in [SeedWorkers -> Places] /\ \A w \in SeedWorkers : at[w] = Free
    BY <1>1 DEF Start, SeedInv, WorkersInv
  <2>2. at' = [w \in SeedWorkers |-> Free] /\ UNCHANGED <<provider, abandoned, delayed>>
    BY <1>1, <2>1 DEF Start
  <2>3. cursor' = 1 /\ cursor' \in 1..(LastUnit + 1) /\ seeding' \in BOOLEAN /\ runs' \in 0..MaxRuns
    BY <1>1, SeedAssumption DEF Start, SeedInv, ScriptTypeOK
  <2>4. results' = [u \in Units |-> "none"]
    BY <1>1 DEF Start
  <2>5. ScriptTypeOK'
    BY <2>2, <2>3, <2>4 DEF SeedInv, ScriptTypeOK
  <2>6. SeededIsExtracted'
    BY <2>4 DEF SeededIsExtracted
  <2>7. QED
    BY <2>2, <2>3, <2>5, <2>6, AllFree DEF SeedInv
<1>2. CASE Reports \/ Stops
  <2>1. /\ seeding' = FALSE /\ UNCHANGED <<provider, cursor, results, runs, delayed>>
        /\ abandoned' \subseteq PostSteps \X Units
    BY <1>2 DEF Reports, Stops, SeedInv, ScriptTypeOK
  <2>2. at' = [w \in SeedWorkers |-> Free]
    <3>1. CASE Reports
      <4>1. at \in [SeedWorkers -> Places]
        BY DEF SeedInv, WorkersInv
      <4>2. QED
        BY <3>1, <4>1 DEF Reports
    <3>2. CASE Stops
      BY <3>2 DEF Stops
    <3>3. QED
      BY <1>2, <3>1, <3>2
  <2>3. cursor' \in 1..(LastUnit + 1)
    BY <2>1 DEF SeedInv, ScriptTypeOK
  <2>4. ScriptTypeOK'
    BY <2>1 DEF SeedInv, ScriptTypeOK
  <2>5. SeededIsExtracted'
    BY <2>1 DEF SeedInv, SeededIsExtracted
  <2>6. QED
    BY <2>1, <2>2, <2>3, <2>4, <2>5, AllFree DEF SeedInv
<1>3. QED
  BY <1>1, <1>2

\* What the provider does by itself: a task ends, or a late request spoils what is known.
LEMMA ProviderStepInv ==
    ASSUME SeedInv, NEW u \in Units, OfUnit(u),
           UNCHANGED <<at, cursor, results, seeding, runs>>,
           abandoned' \subseteq abandoned, delayed \subseteq delayed', delayed' \subseteq Units,
           u \notin delayed' => /\ provider'[u].messages >= provider[u].messages
                                /\ Len(provider'[u].tasks) <= Len(provider[u].tasks)
    PROVE  SeedInv'
<1>1. ScriptTypeOK'
  BY DEF SeedInv, ScriptTypeOK
<1>2. WorkersInv'
  BY WorkersWait
<1>3. SessionsInv'
  <2>1. Len(provider[u].tasks) \in Nat /\ Len(provider'[u].tasks) \in Nat
    BY DEF OfUnit, Later, Sessions
  <2>2. u \notin delayed' => \A i \in 1..Len(provider'[u].tasks) : ~(i > Len(provider[u].tasks))
    BY <2>1
  <2>3. QED
    BY <2>2, SessionsKeep
<1>4. SeededIsExtracted'
  BY StaysExtracted DEF SeededIsExtracted
<1>5. QED
  BY <1>1, <1>2, <1>3, <1>4 DEF SeedInv

LEMMA TaskEndsInv ==
    ASSUME SeedInv, NEW u \in Units, TaskEnds(u)
    PROVE  SeedInv'
<1> DEFINE s == provider[u]
<1>1. PICK i \in DOMAIN s.tasks, status \in TaskStates \ {"accepted"} :
          /\ s.tasks[i].status = "accepted"
          /\ provider' = [provider EXCEPT ![u].tasks[i].status = status]
  BY DEF TaskEnds
<1> DEFINE task == [s.tasks[i] EXCEPT !.status = status]
           tasks == [s.tasks EXCEPT ![i] = task]
           t == [s EXCEPT !.tasks = tasks]
<1>2. provider' = [provider EXCEPT ![u] = t]
  BY <1>1
<1>3. s \in Sessions /\ s.tasks \in Seq(UnitTasks) /\ Len(s.tasks) \in Nat /\ i \in 1..Len(s.tasks)
      /\ s.messages \in Nat
  <2>1. s \in Sessions
    BY DEF SeedInv, SessionsInv
  <2>2. s.tasks \in Seq(UnitTasks) /\ s.messages \in Nat
    BY <2>1 DEF Sessions
  <2>3. QED
    BY <1>1, <2>1, <2>2
<1>4. task \in UnitTasks /\ task.holds = s.tasks[i].holds
  <2>1. s.tasks[i] \in UnitTasks
    BY <1>3
  <2>2. QED
    BY <2>1 DEF UnitTasks
<1> HIDE DEF task
<1>5. /\ tasks \in Seq(UnitTasks) /\ Len(tasks) = Len(s.tasks) /\ tasks[i] = task
      /\ \A j \in 1..Len(s.tasks) : j # i => tasks[j] = s.tasks[j]
  BY <1>3, <1>4
<1> HIDE DEF tasks
<1>6. t \in Sessions /\ t.tasks = tasks /\ t.messages = s.messages
  BY <1>3, <1>5 DEF Sessions
<1> HIDE DEF t
<1>7. Later(s, t)
  BY <1>1, <1>3, <1>4, <1>5, <1>6 DEF Later
<1>8. OfUnit(u) /\ provider'[u] = t
  BY <1>2, <1>7, OfUnitChanged DEF SeedInv
<1>9. provider'[u].messages >= s.messages /\ Len(provider'[u].tasks) <= Len(s.tasks)
  BY <1>3, <1>5, <1>6, <1>8
<1>10. UNCHANGED <<at, cursor, results, seeding, runs, abandoned, delayed>> /\ delayed' \subseteq Units
  BY DEF TaskEnds, SeedInv, ScriptTypeOK
<1>11. QED
  BY <1>8, <1>9, <1>10, ProviderStepInv

LEMMA LateHandledInv ==
    ASSUME SeedInv, NEW u \in Units, NEW kind \in PostSteps, LateHandled(kind, u)
    PROVE  SeedInv'
<1>1. PICK s \in Handled(kind, provider[u]) : provider' = [provider EXCEPT ![u] = s]
  BY DEF LateHandled
<1>2. provider[u] \in Sessions /\ SessionsInv
  BY DEF SeedInv, SessionsInv
<1>3. OfUnit(u)
  BY <1>1, <1>2, HandledLater, OfUnitChanged
<1>4. /\ UNCHANGED <<at, cursor, results, seeding, runs>>
      /\ abandoned' \subseteq abandoned /\ delayed' = delayed \union {u} /\ delayed' \subseteq Units
  BY DEF LateHandled, SeedInv, ScriptTypeOK
<1>5. QED
  BY <1>3, <1>4, ProviderStepInv

LEMMA SeedKeeps ==
    ASSUME SeedInv, SeedNext
    PROVE  SeedInv'
<1>1. ASSUME NEW w \in SeedWorkers, Take(w)
      PROVE  SeedInv'
  <2>1. UNCHANGED <<provider, results, seeding, runs, abandoned, delayed>>
    BY <1>1 DEF Take
  <2>2. cursor' \in 1..(LastUnit + 1)
    BY <1>1, SeedAssumption DEF Take, SeedInv, ScriptTypeOK
  <2>3. ScriptTypeOK' /\ SessionsInv' /\ SeededIsExtracted'
    BY <2>1, <2>2 DEF SeedInv, ScriptTypeOK, SessionsInv, SeededIsExtracted
  <2>4. QED
    BY <1>1, <2>3, TakeInv DEF SeedInv
<1>2. ASSUME NEW u \in Units, TaskEnds(u) \/ \E kind \in PostSteps : LateHandled(kind, u)
      PROVE  SeedInv'
  BY <1>2, TaskEndsInv, LateHandledInv
<1>3. ASSUME NEW w \in SeedWorkers,
             \/ ReadSession(w) \/ CreateSession(w) \/ NewestTask(w) \/ AppendMessage(w)
             \/ CommitSession(w) \/ Poll(w) \/ GivesUp(w) \/ Abandons(w)
      PROVE  SeedInv'
  BY <1>3, ReadSessionInv, CreateSessionInv, NewestTaskInv, AppendMessageInv, CommitSessionInv,
     PollInv, GivesUpInv, AbandonsInv
<1>4. QED
  BY <1>1, <1>2, <1>3, RunsInv DEF SeedNext

LEMMA SeedInductive == SeedSpec => []SeedInv
<1>1. SeedInv /\ UNCHANGED seedVars => SeedInv'
  BY DEF seedVars, SeedInv, ScriptTypeOK, WorkersInv, SessionsInv, SeededIsExtracted, Placed
<1>2. SeedInv /\ [SeedNext]_seedVars => SeedInv'
  BY <1>1, SeedKeeps
<1>3. QED
  BY <1>2, SeedInitInv, PTL DEF SeedSpec

\* The seeding stays in its types.
THEOREM SeedTypes == SeedSpec => []SeedTypeOK
<1>1. SeedInv => SeedTypeOK
  <2> SUFFICES ASSUME SeedInv PROVE SeedTypeOK
    OBVIOUS
  <2>1. ASSUME NEW u \in Units
        PROVE  /\ provider[u].there \in BOOLEAN /\ provider[u].messages \in Nat
               /\ provider[u].tasks \in Seq([holds : BOOLEAN, status : TaskStates])
    BY DEF SeedInv, SessionsInv, Sessions, UnitTasks
  <2>2. at \in [SeedWorkers -> [unit : 0..LastUnit, task : Nat,
                               step : {"idle", "create"} \union GetSteps \union PostSteps]]
    BY DEF SeedInv, WorkersInv, Places, SeedSteps
  <2>3. QED
    BY <2>1, <2>2 DEF SeedInv, ScriptTypeOK, SeedTypeOK
<1>2. QED
  BY <1>1, SeedInductive, PTL

\* SeededIsExtracted: what the report calls completed was taken from its session by a task
\* that completed, for any number of workers and runs, whatever stops, fails or is given up,
\* unless a request of the unit came late (openviking-seed.mjs).
THEOREM SeededWasExtracted == SeedSpec => []SeededIsExtracted
<1>1. SeedInv => SeededIsExtracted
  BY DEF SeedInv
<1>2. QED
  BY <1>1, SeedInductive, PTL
===============================================================================
