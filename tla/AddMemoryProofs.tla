--------------------------- MODULE AddMemoryProofs ---------------------------
(***************************************************************************)
(* Proofs about AddMemory, for any friends, any number of analyses and of  *)
(* attempts: its types, that a draft is confirmed or rejected under its    *)
(* own server draft, and that no memory is stored or shown twice, whatever *)
(* answers come late.                                                      *)
(***************************************************************************)
EXTENDS AddMemory, TLAPS

Runs == [phase : AnalysisPhases, kind : Kinds, tries : 0..MaxUploads, known : BOOLEAN]
Saves == [of : Drafts, with : {0} \union Analyses, mounted : BOOLEAN]

\* An upload that goes on has an attempt left.
TriesLeft == \A a \in Analyses : analyses[a].tries < MaxUploads

TypeInv == AddMemoryTypeOK /\ TriesLeft

\* The server's draft goes with its own reference, this client's with none.
Paired(d, r) == IF d \in Analyses THEN r = d ELSE r = 0

DraftsPaired ==
    /\ draft # 0 => Paired(draft, reference)
    /\ \A s \in saves : Paired(s.of, s.with)

\* The server stores the draft of an analysis when it answers it.
Early == {"unused", "job", "analysis"}
StoredWhenAnalysed ==
    \A a \in Analyses : analyses[a].phase \in Early => serverDraft[a] = "none"

\* The memory of a server draft is there once the draft is confirmed.
ConfirmedOnce ==
    \A a \in Analyses :
        /\ serverMemory[a] = IF serverDraft[a] = "confirmed" THEN 1 ELSE 0
        /\ onPlanets[a] <= serverMemory[a]

OwnStoredOnce ==
    \A a \in Analyses : serverMemory[Own(a)] <= 1 /\ onPlanets[Own(a)] <= serverMemory[Own(a)]

\* This client's own draft of an analysis is there when the analysis ended.
OwnAfterRun ==
    \A a \in Analyses :
        (draft = Own(a) \/ onPlanets[Own(a)] # 0 \/ \E s \in saves : s.of = Own(a))
            => analyses[a].phase = "ended"

\* The draft that is shown is not saved yet; its save, if there is one, is the mounted one.
OwnShownUnsaved ==
    \A a \in Analyses : draft = Own(a) =>
        onPlanets[Own(a)] = 0 /\ \A s \in saves : s.of = Own(a) => s.mounted

\* An own draft has one save, which is not answered yet.
OwnSavedOnce ==
    \A a \in Analyses : \A s \in saves : s.of = Own(a) =>
        onPlanets[Own(a)] = 0 /\ \A t \in saves : t.of = Own(a) => t = s

OwnInv == OwnAfterRun /\ OwnShownUnsaved /\ OwnSavedOnce
StoredInv == StoredWhenAnalysed /\ ConfirmedOnce /\ OwnStoredOnce
AddMemoryInv == TypeInv /\ DraftsPaired /\ StoredInv /\ OwnInv

-----------------------------------------------------------------------------
LEMMA Numbers == MaxAnalyses \in Nat /\ MaxUploads \in Nat /\ MaxUploads # 0
BY AddMemoryAssumption

LEMMA TextIsKind == "text" \in Kinds
BY AddMemoryAssumption

\* An own draft is no server draft, and of one analysis.
LEMMA DraftKinds ==
    /\ Analyses \subseteq Drafts /\ 0 \notin Drafts /\ 0 \notin Analyses
    /\ \A a \in Analyses : Own(a) \in Drafts /\ Own(a) \notin Analyses /\ Own(a) # 0
    /\ \A a, b \in Analyses : Own(a) = Own(b) => a = b
    /\ \A d \in Drafts : d \notin Analyses => \E a \in Analyses : d = Own(a)
<1>1. \A d \in Drafts : d \notin Analyses => \E a \in Analyses : d = Own(a)
  <2>1. SUFFICES ASSUME NEW d \in Drafts, d \notin Analyses
                 PROVE  \E a \in Analyses : d = Own(a)
    OBVIOUS
  <2>2. d - MaxAnalyses \in Analyses /\ d = Own(d - MaxAnalyses)
    BY <2>1, Numbers DEF Drafts, Analyses, Own
  <2>3. QED
    BY <2>2
<1>2. QED
  BY <1>1, Numbers DEF Drafts, Analyses, Own

LEMMA EndedType ==
    /\ Unused \in Runs /\ Unused.tries = 0 /\ Unused.phase = "unused"
    /\ Ended \in Runs /\ Ended.tries = 0 /\ Ended.phase = "ended"
<1>1. 0 \in 0..MaxUploads
  BY Numbers
<1>2. "unused" \in AnalysisPhases /\ "ended" \in AnalysisPhases
  BY DEF AnalysisPhases
<1>3. QED
  BY <1>1, <1>2, TextIsKind DEF Unused, Ended, Runs

LEMMA AddMemoryInitInv == AddMemoryInit => AddMemoryInv
<1> SUFFICES ASSUME AddMemoryInit PROVE AddMemoryInv
  OBVIOUS
<1>1. \A a \in Analyses : analyses[a] = Unused
  BY DEF AddMemoryInit
<1>2. TypeInv
  <2>1. analyses \in [Analyses -> Runs] /\ TriesLeft
    BY <1>1, EndedType, Numbers DEF AddMemoryInit, TriesLeft
  <2>2. QED
    BY <2>1 DEF AddMemoryInit, TypeInv, AddMemoryTypeOK, Steps, Runs
<1>3. DraftsPaired /\ OwnInv
  BY DraftKinds
     DEF AddMemoryInit, DraftsPaired, OwnInv, OwnAfterRun, OwnShownUnsaved, OwnSavedOnce
<1>4. StoredInv
  BY <1>1, DraftKinds
     DEF AddMemoryInit, StoredInv, StoredWhenAnalysed, ConfirmedOnce, OwnStoredOnce
<1>5. QED
  BY <1>2, <1>3, <1>4 DEF AddMemoryInv

-----------------------------------------------------------------------------
(***************************************************************************)
(* What most steps do, and why they keep the invariant.                    *)
(***************************************************************************)
\* No run goes back.
RunsKept ==
    \A a \in Analyses :
        /\ analyses[a].phase = "ended" => analyses'[a].phase = "ended"
        /\ analyses'[a].phase \in Early => analyses[a].phase \in Early

\* No draft is confirmed; one that changes is of an analysis that was answered.
ServerKept ==
    /\ UNCHANGED <<serverMemory, onPlanets>>
    /\ \A a \in Analyses :
           \/ serverDraft'[a] = serverDraft[a]
           \/ /\ serverDraft[a] # "confirmed" /\ serverDraft'[a] # "confirmed"
              /\ analyses'[a].phase \notin Early

\* No own draft is shown that was not.
DraftKept ==
    \/ UNCHANGED <<draft, reference>>
    \/ draft' = 0
    \/ draft' \in Analyses /\ reference' = draft'

\* No save begins; the confirmation that shows a draft stays mounted.
SavesKept ==
    \/ saves' \subseteq saves
    \/ draft' = 0 /\ saves' \subseteq {[s EXCEPT !.mounted = FALSE] : s \in saves}

CoreInv == DraftsPaired /\ StoredInv /\ OwnInv

\* The saves of a draft after a step that begins none.
LEMMA SavesComeFromSaves ==
    ASSUME TypeInv, SavesKept, NEW t \in saves'
    PROVE  \E s \in saves : /\ t.of = s.of /\ t.with = s.with
                            /\ saves' \subseteq saves => t = s
                            /\ ~(saves' \subseteq saves) => t = [s EXCEPT !.mounted = FALSE]
<1>1. saves \subseteq Saves
  BY DEF TypeInv, AddMemoryTypeOK, Saves
<1>2. CASE saves' \subseteq saves
  BY <1>2
<1>3. CASE ~(saves' \subseteq saves)
  <2>1. PICK s \in saves : t = [s EXCEPT !.mounted = FALSE]
    BY <1>3 DEF SavesKept
  <2>2. t.of = s.of /\ t.with = s.with
    BY <1>1, <2>1 DEF Saves
  <2>3. QED
    BY <1>3, <2>1, <2>2
<1>4. QED
  BY <1>2, <1>3

LEMMA DraftsStayPaired ==
    ASSUME TypeInv, DraftsPaired, DraftKept, SavesKept
    PROVE  DraftsPaired'
<1>1. ASSUME NEW t \in saves' PROVE Paired(t.of, t.with)
  BY SavesComeFromSaves DEF DraftsPaired
<1>2. draft' # 0 => Paired(draft', reference')
  BY DEF DraftKept, DraftsPaired, Paired
<1>3. QED
  BY <1>1, <1>2 DEF DraftsPaired, Paired

LEMMA StoredStays ==
    ASSUME TypeInv, StoredInv, RunsKept, ServerKept
    PROVE  StoredInv'
<1>1. StoredWhenAnalysed'
  BY DEF StoredInv, StoredWhenAnalysed, RunsKept, ServerKept
<1>2. ConfirmedOnce'
  BY DEF StoredInv, ConfirmedOnce, ServerKept
<1>3. OwnStoredOnce'
  BY DEF StoredInv, OwnStoredOnce, ServerKept
<1>4. QED
  BY <1>1, <1>2, <1>3 DEF StoredInv

LEMMA OwnStays ==
    ASSUME TypeInv, OwnInv, RunsKept, DraftKept, SavesKept, UNCHANGED onPlanets
    PROVE  OwnInv'
<1>1. \A a \in Analyses : draft' = Own(a) => draft = Own(a) /\ saves' \subseteq saves
  BY DraftKinds DEF DraftKept, SavesKept
<1>2. OwnAfterRun'
  <2>1. ASSUME NEW a \in Analyses,
               draft' = Own(a) \/ onPlanets'[Own(a)] # 0 \/ \E s \in saves' : s.of = Own(a)
        PROVE  analyses'[a].phase = "ended"
    <3>1. draft = Own(a) \/ onPlanets[Own(a)] # 0 \/ \E s \in saves : s.of = Own(a)
      BY <1>1, <2>1, SavesComeFromSaves
    <3>2. QED
      BY <3>1 DEF OwnInv, OwnAfterRun, RunsKept
  <2>2. QED
    BY <2>1 DEF OwnAfterRun, Own
<1>3. OwnShownUnsaved'
  BY <1>1 DEF OwnInv, OwnShownUnsaved, Own
<1>4. OwnSavedOnce'
  <2>1. ASSUME NEW a \in Analyses, NEW t \in saves', t.of = Own(a)
        PROVE  onPlanets[Own(a)] = 0 /\ \A u \in saves' : u.of = Own(a) => u = t
    <3>1. PICK s \in saves : /\ t.of = s.of
                             /\ saves' \subseteq saves => t = s
                             /\ ~(saves' \subseteq saves) => t = [s EXCEPT !.mounted = FALSE]
      BY SavesComeFromSaves
    <3>2. onPlanets[Own(a)] = 0 /\ \A r \in saves : r.of = Own(a) => r = s
      BY <2>1, <3>1 DEF OwnInv, OwnSavedOnce
    <3>3. ASSUME NEW u \in saves', u.of = Own(a) PROVE u = t
      <4>1. PICK r \in saves : /\ u.of = r.of
                               /\ saves' \subseteq saves => u = r
                               /\ ~(saves' \subseteq saves) => u = [r EXCEPT !.mounted = FALSE]
        BY SavesComeFromSaves
      <4>2. r = s
        BY <3>2, <3>3, <4>1
      <4>3. QED
        BY <3>1, <4>1, <4>2
    <3>4. QED
      BY <3>2, <3>3
  <2>2. QED
    BY <2>1 DEF OwnSavedOnce, Own
<1>5. QED
  BY <1>2, <1>3, <1>4 DEF OwnInv

\* closeDrawer ends the run it aborts, or leaves it torn.
LEMMA ClosingKeepsRuns ==
    ASSUME TypeInv, DrawerCloses
    PROVE  RunsKept /\ draft' = 0
<1>1. draft' = 0 /\ controller \in {0} \union Analyses
  BY DEF DrawerCloses, TypeInv, AddMemoryTypeOK
<1>2. CASE controller = 0
  BY <1>1, <1>2 DEF DrawerCloses, RunsKept
<1>3. CASE controller # 0
  <2>1. PICK run \in Aborted(controller) : analyses' = [analyses EXCEPT ![controller] = run]
    BY <1>3 DEF DrawerCloses
  <2>2. run.phase = "ended" \/ (run.phase = "torn" /\ analyses[controller].phase = "analysis")
    BY <1>1, <1>3, EndedType DEF Aborted, TypeInv, AddMemoryTypeOK
  <2>3. \A a \in Analyses : analyses'[a] = IF a = controller THEN run ELSE analyses[a]
    BY <1>1, <1>3, <2>1 DEF TypeInv, AddMemoryTypeOK
  <2>4. QED
    BY <1>1, <2>2, <2>3 DEF RunsKept, Early
<1>4. QED
  BY <1>2, <1>3

LEMMA CalmStep ==
    ASSUME TypeInv, CoreInv, RunsKept, ServerKept, DraftKept, SavesKept
    PROVE  CoreInv'
BY DraftsStayPaired, StoredStays, OwnStays DEF CoreInv, ServerKept

-----------------------------------------------------------------------------
\* A draft of this client's own is shown when its analysis ends, and only then.
LEMMA OwnDraftShown ==
    ASSUME TypeInv, CoreInv, NEW a \in Analyses, analyses[a].phase # "ended",
           analyses' = [analyses EXCEPT ![a] = Ended], SetDraft(a, FALSE), ServerKept,
           UNCHANGED saves
    PROVE  CoreInv'
<1>1. draft' = Own(a) /\ reference' = 0
  BY DEF SetDraft
<1>2. /\ \A b \in Analyses : analyses'[b] = IF b = a THEN Ended ELSE analyses[b]
      /\ Ended.phase = "ended"
  BY EndedType DEF TypeInv, AddMemoryTypeOK
<1>3. RunsKept
  BY <1>2 DEF RunsKept, Early
<1>4. StoredInv'
  BY <1>3, StoredStays DEF CoreInv
<1>5. DraftsPaired'
  BY <1>1, DraftKinds DEF CoreInv, DraftsPaired, Paired
<1>6. onPlanets[Own(a)] = 0 /\ \A s \in saves : s.of # Own(a)
  BY DEF CoreInv, OwnInv, OwnAfterRun
<1>7. OwnAfterRun'
  <2>1. ASSUME NEW b \in Analyses,
               draft' = Own(b) \/ onPlanets'[Own(b)] # 0 \/ \E s \in saves' : s.of = Own(b)
        PROVE  analyses'[b].phase = "ended"
    <3>1. CASE b = a
      BY <1>2, <3>1
    <3>2. CASE b # a
      <4>1. onPlanets[Own(b)] # 0 \/ \E s \in saves : s.of = Own(b)
        BY <1>1, <2>1, <3>2, DraftKinds DEF ServerKept
      <4>2. QED
        BY <1>2, <3>2, <4>1 DEF CoreInv, OwnInv, OwnAfterRun
    <3>3. QED
      BY <3>1, <3>2
  <2>2. QED
    BY <2>1 DEF OwnAfterRun, Own
<1>8. OwnShownUnsaved'
  <2>1. ASSUME NEW b \in Analyses, draft' = Own(b) PROVE b = a
    BY <1>1, <2>1, DraftKinds
  <2>2. QED
    BY <1>6, <2>1 DEF OwnShownUnsaved, ServerKept, Own
<1>9. OwnSavedOnce'
  BY DEF CoreInv, OwnInv, OwnSavedOnce, ServerKept, Own
<1>10. QED
  BY <1>4, <1>5, <1>7, <1>8, <1>9 DEF CoreInv, OwnInv

\* The one save of the draft that is shown begins.
LEMMA SaveBegins ==
    ASSUME TypeInv, CoreInv, CommitToUniverse
    PROVE  CoreInv'
<1> DEFINE begun == [of |-> draft, with |-> reference, mounted |-> TRUE]
<1>1. /\ saves' = saves \union {begun} /\ draft # 0 /\ \A s \in saves : ~s.mounted
      /\ UNCHANGED <<draft, reference, analyses, serverDraft, serverMemory, onPlanets>>
  BY DEF CommitToUniverse, IsSaving, drawerVars, serverVars
<1>2. begun.of = draft /\ begun.with = reference /\ begun.mounted
  OBVIOUS
<1> HIDE DEF begun
<1>3. DraftsPaired'
  BY <1>1, <1>2 DEF CoreInv, DraftsPaired, Paired
<1>4. StoredInv'
  BY <1>1 DEF CoreInv, StoredInv, StoredWhenAnalysed, ConfirmedOnce, OwnStoredOnce
<1>5. ASSUME NEW a \in Analyses, draft = Own(a)
      PROVE  onPlanets[Own(a)] = 0 /\ \A s \in saves : s.of # Own(a)
  BY <1>1, <1>5 DEF CoreInv, OwnInv, OwnShownUnsaved
<1>6. OwnAfterRun'
  <2>1. ASSUME NEW a \in Analyses,
               draft' = Own(a) \/ onPlanets'[Own(a)] # 0 \/ \E s \in saves' : s.of = Own(a)
        PROVE  analyses'[a].phase = "ended"
    <3>1. draft = Own(a) \/ onPlanets[Own(a)] # 0 \/ \E s \in saves : s.of = Own(a)
      BY <1>1, <1>2, <2>1
    <3>2. QED
      BY <1>1, <3>1 DEF CoreInv, OwnInv, OwnAfterRun
  <2>2. QED
    BY <2>1 DEF OwnAfterRun, Own
<1>7. OwnShownUnsaved'
  <2>1. ASSUME NEW a \in Analyses, draft' = Own(a)
        PROVE  onPlanets'[Own(a)] = 0 /\ \A s \in saves' : s.of = Own(a) => s.mounted
    BY <1>1, <1>2, <1>5, <2>1
  <2>2. QED
    BY <2>1 DEF OwnShownUnsaved, Own
<1>8. OwnSavedOnce'
  <2>1. ASSUME NEW a \in Analyses, NEW s \in saves', s.of = Own(a)
        PROVE  onPlanets'[Own(a)] = 0 /\ \A t \in saves' : t.of = Own(a) => t = s
    <3>1. CASE draft = Own(a)
      BY <1>1, <1>5, <2>1, <3>1
    <3>2. CASE draft # Own(a)
      BY <1>1, <1>2, <2>1, <3>2 DEF CoreInv, OwnInv, OwnSavedOnce
    <3>3. QED
      BY <3>1, <3>2
  <2>2. QED
    BY <2>1 DEF OwnSavedOnce, Own
<1>9. QED
  BY <1>3, <1>4, <1>6, <1>7, <1>8 DEF CoreInv, OwnInv

\* The server stores a save, and the planets show it at once or not at all.
LEMMA StoredSave ==
    ASSUME TypeInv, CoreInv, NEW s \in saves, Accepts(s), ServerStores(s), RunsKept,
           onPlanets' \in {onPlanets, [onPlanets EXCEPT ![s.of] = @ + 1]}
    PROVE  StoredInv'
<1>1. /\ s.of \in Drafts /\ s.with \in {0} \union Analyses /\ Paired(s.of, s.with)
      /\ serverDraft \in [Analyses -> {"none", "waiting", "confirmed", "rejected"}]
      /\ serverMemory \in [Drafts -> Nat] /\ onPlanets \in [Drafts -> Nat]
  BY DEF TypeInv, AddMemoryTypeOK, CoreInv, DraftsPaired
<1>2. CASE s.with # 0
  <2> DEFINE a == s.with
  <2>1. a \in Analyses /\ s.of = a /\ serverDraft[a] = "waiting"
    BY <1>1, <1>2 DEF Paired, Accepts
  <2>2. /\ serverDraft' = [serverDraft EXCEPT ![a] = "confirmed"]
        /\ serverMemory' = [serverMemory EXCEPT ![a] = @ + 1]
    BY <1>2, <2>1 DEF ServerStores
  <2>3. analyses[a].phase \notin Early
    BY <2>1 DEF CoreInv, StoredInv, StoredWhenAnalysed
  <2>4. serverMemory[a] = 0 /\ onPlanets[a] = 0
    BY <1>1, <2>1, DraftKinds DEF CoreInv, StoredInv, ConfirmedOnce
  <2> HIDE DEF a
  <2>5. \A d \in Drafts \ {a} : serverMemory'[d] = serverMemory[d] /\ onPlanets'[d] = onPlanets[d]
    BY <1>1, <2>1, <2>2
  <2>6. serverMemory'[a] = 1 /\ onPlanets'[a] \in {0, 1} /\ serverDraft'[a] = "confirmed"
        /\ \A b \in Analyses \ {a} : serverDraft'[b] = serverDraft[b]
    BY <1>1, <2>1, <2>2, <2>4, DraftKinds
  <2>7. StoredWhenAnalysed'
    BY <2>1, <2>3, <2>6 DEF CoreInv, StoredInv, StoredWhenAnalysed, RunsKept
  <2>8. ConfirmedOnce'
    BY <2>1, <2>5, <2>6, DraftKinds DEF CoreInv, StoredInv, ConfirmedOnce
  <2>9. OwnStoredOnce'
    BY <2>1, <2>5, DraftKinds DEF CoreInv, StoredInv, OwnStoredOnce, Own
  <2>10. QED
    BY <2>7, <2>8, <2>9 DEF StoredInv
<1>3. CASE s.with = 0
  <2>1. PICK a \in Analyses : s.of = Own(a)
    BY <1>1, <1>3, DraftKinds DEF Paired
  <2>2. serverDraft' = serverDraft /\ serverMemory' = [serverMemory EXCEPT ![s.of] = 1]
    BY <1>3 DEF ServerStores
  <2>3. onPlanets[Own(a)] = 0
    BY <2>1 DEF CoreInv, OwnInv, OwnSavedOnce
  <2>4. \A d \in Drafts \ {Own(a)} :
            serverMemory'[d] = serverMemory[d] /\ onPlanets'[d] = onPlanets[d]
    BY <1>1, <2>1, <2>2
  <2>5. serverMemory'[Own(a)] = 1 /\ onPlanets'[Own(a)] \in {0, 1}
    BY <1>1, <2>1, <2>2, <2>3
  <2>6. StoredWhenAnalysed'
    BY <2>2 DEF CoreInv, StoredInv, StoredWhenAnalysed, RunsKept
  <2>7. ConfirmedOnce'
    BY <2>2, <2>4, DraftKinds DEF CoreInv, StoredInv, ConfirmedOnce
  <2>8. OwnStoredOnce'
    BY <2>4, <2>5, DraftKinds DEF CoreInv, StoredInv, OwnStoredOnce, Own
  <2>9. QED
    BY <2>6, <2>7, <2>8 DEF StoredInv
<1>4. QED
  BY <1>2, <1>3

LEMMA AnswerKeeps ==
    ASSUME TypeInv, CoreInv, NEW s \in saves,
           SaveAnswer(s) \/ \E stored \in BOOLEAN : SaveFails(s, stored)
    PROVE  CoreInv'
<1>1. CASE SaveAnswer(s)
  <2>1. /\ Accepts(s) /\ ServerStores(s) /\ DrawerCloses
        /\ onPlanets' = [onPlanets EXCEPT ![s.of] = @ + 1]
        /\ saves' = {[t EXCEPT !.mounted = FALSE] : t \in saves \ {s}}
    BY <1>1 DEF SaveAnswer
  <2>2. RunsKept /\ draft' = 0
    BY <2>1, ClosingKeepsRuns
  <2>3. StoredInv'
    BY <2>1, <2>2, StoredSave
  <2>4. DraftKept /\ SavesKept
    BY <2>1, <2>2 DEF DraftKept, SavesKept
  <2>5. DraftsPaired'
    BY <2>4, DraftsStayPaired DEF CoreInv
  <2>6. ASSUME NEW a \in Analyses, NEW t \in saves', t.of = Own(a)
        PROVE  s.of # Own(a) /\ onPlanets'[Own(a)] = onPlanets[Own(a)]
    <3>1. PICK r \in saves \ {s} : t = [r EXCEPT !.mounted = FALSE]
      BY <2>1
    <3>2. t.of = r.of
      BY <3>1 DEF TypeInv, AddMemoryTypeOK
    <3>3. s.of # Own(a)
      BY <2>6, <3>1, <3>2 DEF CoreInv, OwnInv, OwnSavedOnce
    <3>4. QED
      BY <2>1, <3>3 DEF TypeInv, AddMemoryTypeOK
  <2>7. OwnAfterRun'
    <3>1. ASSUME NEW a \in Analyses, onPlanets'[Own(a)] # 0 \/ \E t \in saves' : t.of = Own(a)
          PROVE  analyses'[a].phase = "ended"
      <4>1. onPlanets[Own(a)] # 0 \/ \E r \in saves : r.of = Own(a)
        BY <2>1, <2>4, <3>1, SavesComeFromSaves DEF TypeInv, AddMemoryTypeOK
      <4>2. QED
        BY <2>2, <4>1 DEF CoreInv, OwnInv, OwnAfterRun, RunsKept
    <3>2. QED
      BY <2>2, <3>1, DraftKinds DEF OwnAfterRun, Own
  <2>8. OwnShownUnsaved'
    BY <2>2, DraftKinds DEF OwnShownUnsaved, Own
  <2>9. OwnSavedOnce'
    <3>1. ASSUME NEW a \in Analyses, NEW t \in saves', t.of = Own(a)
          PROVE  onPlanets'[Own(a)] = 0 /\ \A u \in saves' : u.of = Own(a) => u = t
      <4>1. PICK r \in saves : t = [r EXCEPT !.mounted = FALSE] /\ r.of = Own(a)
        BY <2>1, <3>1 DEF TypeInv, AddMemoryTypeOK
      <4>2. onPlanets[Own(a)] = 0 /\ \A q \in saves : q.of = Own(a) => q = r
        BY <4>1 DEF CoreInv, OwnInv, OwnSavedOnce
      <4>3. ASSUME NEW u \in saves', u.of = Own(a) PROVE u = t
        <5>1. PICK q \in saves : u = [q EXCEPT !.mounted = FALSE] /\ q.of = Own(a)
          BY <2>1, <4>3 DEF TypeInv, AddMemoryTypeOK
        <5>2. QED
          BY <4>1, <4>2, <5>1
      <4>4. QED
        BY <2>6, <3>1, <4>2, <4>3
    <3>2. QED
      BY <3>1 DEF OwnSavedOnce, Own
  <2>10. QED
    BY <2>3, <2>5, <2>7, <2>8, <2>9 DEF CoreInv, OwnInv
<1>2. ASSUME NEW stored \in BOOLEAN, SaveFails(s, stored)
      PROVE  CoreInv'
  <2>1. /\ stored => Accepts(s) /\ ServerStores(s)
        /\ ~stored => UNCHANGED <<serverDraft, serverMemory>>
        /\ UNCHANGED <<draft, reference, analyses, onPlanets>> /\ saves' \subseteq saves
    BY <1>2 DEF SaveFails, drawerVars, serverVars
  <2>2. RunsKept /\ DraftKept /\ SavesKept
    BY <2>1 DEF RunsKept, DraftKept, SavesKept
  <2>3. StoredInv'
    <3>1. CASE stored
      BY <2>1, <2>2, <3>1, StoredSave
    <3>2. CASE ~stored
      BY <2>1, <2>2, <3>2, StoredStays DEF CoreInv, ServerKept
    <3>3. QED
      BY <3>1, <3>2
  <2>4. QED
    BY <2>1, <2>2, <2>3, DraftsStayPaired, OwnStays DEF CoreInv
<1>3. QED
  BY <1>1, <1>2

-----------------------------------------------------------------------------
(***************************************************************************)
(* The steps.                                                              *)
(***************************************************************************)
LEMMA QuietKeeps ==
    ASSUME TypeInv, CoreInv,
           UNCHANGED <<analyses, draft, reference, saves, serverDraft, serverMemory, onPlanets>>
    PROVE  CoreInv'
<1>1. RunsKept /\ ServerKept /\ DraftKept /\ SavesKept
  BY DEF RunsKept, ServerKept, DraftKept, SavesKept
<1>2. QED
  BY <1>1, CalmStep

LEMMA DrawerKeeps ==
    ASSUME TypeInv, CoreInv,
           \/ \E f \in Friends \union {NoFriend} : OpenDrawer(f)
           \/ \E p \in {"library", "agent"} : OpenPanel(p)
           \/ ClosePanel \/ CloseDrawer \/ UnmountOverlay \/ MountOverlay
           \/ \E new \in Kinds \union {"incomplete"} : EditForm(new)
           \/ AskNewPerson \/ CancelNewPerson \/ ResumeFails \/ OpenDraftForConfirmation
           \/ \E a \in Analyses : ResumeJob(a)
    PROVE  CoreInv'
<1>1. CASE CloseDrawer \/ UnmountOverlay
  <2>1. DrawerCloses /\ ConfirmStepUnmounts /\ UNCHANGED <<serverDraft, serverMemory, onPlanets>>
    BY <1>1 DEF CloseDrawer, UnmountOverlay, serverVars
  <2>2. RunsKept /\ draft' = 0
    BY <2>1, ClosingKeepsRuns
  <2>3. ServerKept /\ DraftKept /\ SavesKept
    BY <2>1, <2>2 DEF ServerKept, DraftKept, SavesKept, ConfirmStepUnmounts
  <2>4. QED
    BY <2>2, <2>3, CalmStep
<1>2. CASE OpenDraftForConfirmation
  <2>1. /\ draft' \in Analyses /\ reference' = draft'
        /\ UNCHANGED <<analyses, saves, serverDraft, serverMemory, onPlanets>>
    BY <1>2 DEF OpenDraftForConfirmation, serverVars, TypeInv, AddMemoryTypeOK
  <2>2. RunsKept /\ ServerKept /\ DraftKept /\ SavesKept
    BY <2>1 DEF RunsKept, ServerKept, DraftKept, SavesKept
  <2>3. QED
    BY <2>2, CalmStep
<1>3. CASE \/ \E f \in Friends \union {NoFriend} : OpenDrawer(f)
           \/ \E p \in {"library", "agent"} : OpenPanel(p)
           \/ ClosePanel \/ MountOverlay
           \/ \E new \in Kinds \union {"incomplete"} : EditForm(new)
           \/ AskNewPerson \/ CancelNewPerson \/ ResumeFails
           \/ \E a \in Analyses : ResumeJob(a)
  <2>1. UNCHANGED <<analyses, draft, reference, saves, serverDraft, serverMemory, onPlanets>>
    BY <1>3
       DEF OpenDrawer, OpenPanel, ClosePanel, MountOverlay, EditForm, AskNewPerson,
           CancelNewPerson, ResumeFails, ResumeJob, drawerVars, serverVars
  <2>2. QED
    BY <2>1, QuietKeeps
<1>4. QED
  BY <1>1, <1>2, <1>3

\* What an analysis that is answered leaves on the server.
LEMMA AnalysedKeeps ==
    ASSUME TypeInv, CoreInv, NEW a \in Analyses, NEW known \in BOOLEAN, Analysed(a, known),
           analyses[a].phase \in {"job", "analysis"},
           serverDraft' \in {serverDraft, [serverDraft EXCEPT ![a] = "waiting"]},
           UNCHANGED <<saves, serverMemory, onPlanets>>
    PROVE  CoreInv'
<1>1. serverDraft[a] = "none"
  BY DEF CoreInv, StoredInv, StoredWhenAnalysed, Early
<1>2. /\ \A b \in Analyses \ {a} : analyses'[b] = analyses[b]
      /\ analyses'[a].phase \in {"upload", "ended"}
  <2>1. CASE analyses[a].kind = "text"
    BY <2>1, EndedType DEF Analysed, TypeInv, AddMemoryTypeOK
  <2>2. CASE analyses[a].kind # "text"
    BY <2>2 DEF Analysed, TypeInv, AddMemoryTypeOK
  <2>3. QED
    BY <2>1, <2>2
<1>3. RunsKept
  BY <1>2 DEF RunsKept, Early
<1>4. ServerKept
  BY <1>1, <1>2 DEF ServerKept, Early, TypeInv, AddMemoryTypeOK
<1>5. CASE analyses[a].kind = "text" /\ ~known
  <2>1. SetDraft(a, FALSE) /\ analyses' = [analyses EXCEPT ![a] = Ended]
    BY <1>5 DEF Analysed
  <2>2. QED
    BY <1>4, <2>1, OwnDraftShown
<1>6. CASE analyses[a].kind # "text" \/ known
  <2>1. DraftKept
    BY <1>6 DEF Analysed, SetDraft, DraftKept, drawerVars
  <2>2. SavesKept
    BY DEF SavesKept
  <2>3. QED
    BY <1>3, <1>4, <2>1, <2>2, CalmStep
<1>7. QED
  BY <1>5, <1>6

LEMMA AnalysesKeep ==
    ASSUME TypeInv, CoreInv, NEW a \in Analyses, Submit(a) \/ AnalysisStep(a)
    PROVE  CoreInv'
<1>1. CASE Submit(a)
  <2>1. /\ analyses[a].phase = "unused" /\ analyses'[a].phase \in {"analysis", "job"}
        /\ \A b \in Analyses \ {a} : analyses'[b] = analyses[b]
        /\ UNCHANGED <<draft, reference, saves, serverDraft, serverMemory, onPlanets>>
    BY <1>1 DEF Submit, serverVars, Unused, TypeInv, AddMemoryTypeOK
  <2>2. RunsKept /\ ServerKept /\ DraftKept /\ SavesKept
    BY <2>1 DEF RunsKept, ServerKept, DraftKept, SavesKept, Early
  <2>3. QED
    BY <2>2, CalmStep
<1>2. CASE JobAnswer(a)
  <2>1. /\ analyses[a].phase = "job"
        /\ \A b \in Analyses \ {a} : analyses'[b] = analyses[b]
        /\ UNCHANGED <<draft, reference, saves, serverDraft, serverMemory, onPlanets>>
    BY <1>2 DEF JobAnswer, drawerVars, serverVars, TypeInv, AddMemoryTypeOK
  <2>2. RunsKept /\ ServerKept /\ DraftKept /\ SavesKept
    BY <2>1 DEF RunsKept, ServerKept, DraftKept, SavesKept, Early
  <2>3. QED
    BY <2>2, CalmStep
<1>3. CASE AnalysisAnswer(a)
  BY <1>3, AnalysedKeeps DEF AnalysisAnswer
<1>4. ASSUME NEW stored \in BOOLEAN, AnalysisFails(a, stored)
      PROVE  CoreInv'
  BY <1>4, AnalysedKeeps DEF AnalysisFails
<1>5. CASE TornAnswer(a)
  <2>1. /\ analyses[a].phase # "ended" /\ SetDraft(a, FALSE) /\ UNCHANGED saves
        /\ analyses' = [analyses EXCEPT ![a] = Ended] /\ ServerKept
    BY <1>5 DEF TornAnswer, serverVars, ServerKept
  <2>2. QED
    BY <2>1, OwnDraftShown
<1>6. CASE UploadAnswer(a)
  <2>1. /\ analyses[a].phase # "ended" /\ SetDraft(a, analyses[a].known) /\ UNCHANGED saves
        /\ analyses' = [analyses EXCEPT ![a] = Ended] /\ ServerKept
        /\ analyses[a].known \in BOOLEAN
    BY <1>6 DEF UploadAnswer, serverVars, ServerKept, TypeInv, AddMemoryTypeOK
  <2>2. CASE ~analyses[a].known
    <3>1. SetDraft(a, FALSE)
      BY <2>1, <2>2
    <3>2. QED
      BY <2>1, <3>1, OwnDraftShown
  <2>3. CASE analyses[a].known
    <3>1. RunsKept
      BY <2>1, EndedType DEF RunsKept, Early, TypeInv, AddMemoryTypeOK
    <3>2. DraftKept /\ SavesKept
      BY <2>1, <2>3 DEF SetDraft, DraftKept, SavesKept
    <3>3. QED
      BY <2>1, <3>1, <3>2, CalmStep
  <2>4. QED
    BY <2>1, <2>2, <2>3
<1>7. ASSUME NEW refused \in BOOLEAN, UploadFails(a, refused)
      PROVE  CoreInv'
  <2>1. /\ analyses[a].phase = "upload" /\ analyses'[a].phase \in {"ended", "upload"}
        /\ \A b \in Analyses \ {a} : analyses'[b] = analyses[b]
        /\ UNCHANGED <<serverDraft, serverMemory, onPlanets>>
    BY <1>7, EndedType DEF UploadFails, serverVars, TypeInv, AddMemoryTypeOK
  <2>2. DraftKept /\ SavesKept
    BY <1>7 DEF UploadFails, BackToInput, ConfirmStepUnmounts, drawerVars, DraftKept, SavesKept
  <2>3. RunsKept /\ ServerKept
    BY <2>1 DEF RunsKept, ServerKept, Early
  <2>4. QED
    BY <2>2, <2>3, CalmStep
<1>8. QED
  BY <1>1, <1>2, <1>3, <1>4, <1>5, <1>6, <1>7 DEF AnalysisStep

LEMMA RejectionsKeep ==
    ASSUME TypeInv, CoreInv,
           \/ LeaveDraft
           \/ \E a \in Analyses : RejectAnswer(a) \/ \E b \in BOOLEAN : RejectFails(a, b)
    PROVE  CoreInv'
<1>1. CASE LeaveDraft
  <2>1. UNCHANGED <<analyses, serverDraft, serverMemory, onPlanets, reference>>
    BY <1>1 DEF LeaveDraft, serverVars
  <2>2. DraftKept /\ SavesKept
    BY <1>1 DEF LeaveDraft, BackToInput, ConfirmStepUnmounts, DraftKept, SavesKept
  <2>3. RunsKept /\ ServerKept
    BY <2>1 DEF RunsKept, ServerKept
  <2>4. QED
    BY <2>2, <2>3, CalmStep
<1>2. ASSUME NEW a \in Analyses,
             RejectAnswer(a) \/ \E b \in BOOLEAN : RejectFails(a, b)
      PROVE  CoreInv'
  <2>1. /\ UNCHANGED <<analyses, serverMemory, onPlanets>>
        /\ \/ serverDraft' = serverDraft
           \/ serverDraft[a] = "waiting" /\ serverDraft' = [serverDraft EXCEPT ![a] = "rejected"]
    BY <1>2 DEF RejectAnswer, RejectFails
  <2>2. serverDraft[a] = "waiting" => analyses[a].phase \notin Early
    BY DEF CoreInv, StoredInv, StoredWhenAnalysed
  <2>3. RunsKept /\ ServerKept
    BY <2>1, <2>2 DEF RunsKept, ServerKept, TypeInv, AddMemoryTypeOK
  <2>4. DraftKept /\ SavesKept
    BY <1>2 DEF RejectAnswer, RejectFails, BackToInput, ConfirmStepUnmounts, drawerVars,
                DraftKept, SavesKept
  <2>5. QED
    BY <2>3, <2>4, CalmStep
<1>3. QED
  BY <1>1, <1>2

LEMMA CoreStep == TypeInv /\ CoreInv /\ [AddMemoryNext]_addMemoryVars => CoreInv'
<1>1. TypeInv /\ CoreInv /\ UNCHANGED addMemoryVars => CoreInv'
  BY QuietKeeps DEF addMemoryVars
<1>2. SUFFICES ASSUME TypeInv, CoreInv, AddMemoryNext PROVE CoreInv'
  BY <1>1
<1>3. CASE SetInputMode \/ SetTextValue \/ ChooseScreenshot \/ ChooseMedia
  <2>1. \E new \in Kinds \union {"incomplete"} : EditForm(new)
    BY <1>3 DEF SetInputMode, SetTextValue, ChooseScreenshot, ChooseMedia, EditForm
  <2>2. QED
    BY <1>2, <2>1, DrawerKeeps
<1>4. QED
  BY <1>2, <1>3, DrawerKeeps, AnalysesKeep, SaveBegins, AnswerKeeps, RejectionsKeep
     DEF AddMemoryNext

-----------------------------------------------------------------------------
(***************************************************************************)
(* Types.                                                                  *)
(***************************************************************************)
RunsTyped == analyses \in [Analyses -> Runs] /\ TriesLeft

DrawerTyped ==
    /\ step \in Steps /\ panel \in {"none", "library", "agent"} /\ overlay \in BOOLEAN
    /\ form \in {"incomplete"} \union Kinds /\ context \in Friends \union {NoFriend}
    /\ controller \in {0} \union Analyses /\ draft \in {0} \union Drafts
    /\ reference \in {0} \union Analyses /\ prompt \in BOOLEAN

RequestsTyped ==
    /\ saves \subseteq Saves /\ rejects \subseteq Analyses /\ resuming \in {0} \union Analyses

ServerTyped ==
    /\ serverDraft \in [Analyses -> {"none", "waiting", "confirmed", "rejected"}]
    /\ serverMemory \in [Drafts -> Nat] /\ onPlanets \in [Drafts -> Nat]

LEMMA AddMemoryTypeParts == TypeInv <=> RunsTyped /\ DrawerTyped /\ RequestsTyped /\ ServerTyped
BY DEF TypeInv, AddMemoryTypeOK, RunsTyped, DrawerTyped, RequestsTyped, ServerTyped, Runs, Saves

Typed == RunsTyped /\ DrawerTyped /\ RequestsTyped /\ ServerTyped

\* A run that changes is followed by one with attempts left.
LEMMA RunChanges ==
    ASSUME RunsTyped, NEW a \in Analyses, NEW run \in Runs, run.tries < MaxUploads,
           analyses' = [analyses EXCEPT ![a] = run]
    PROVE  RunsTyped'
BY DEF RunsTyped, TriesLeft, Runs

LEMMA RunEnds ==
    ASSUME RunsTyped, NEW a \in Analyses, analyses' = [analyses EXCEPT ![a] = Ended]
    PROVE  RunsTyped'
<1>1. Ended.tries < MaxUploads
  BY EndedType, Numbers
<1>2. QED
  BY <1>1, RunChanges, EndedType

LEMMA PhaseChanges ==
    ASSUME RunsTyped, NEW a \in Analyses, NEW phase \in AnalysisPhases, NEW known \in BOOLEAN,
           analyses' = [analyses EXCEPT ![a].phase = phase, ![a].known = known]
    PROVE  RunsTyped'
<1>1. [analyses[a] EXCEPT !.phase = phase, !.known = known] \in Runs
      /\ [analyses[a] EXCEPT !.phase = phase, !.known = known].tries = analyses[a].tries
  BY DEF RunsTyped, Runs
<1>2. analyses[a].tries < MaxUploads
  BY DEF RunsTyped, TriesLeft
<1>3. analyses' = [analyses EXCEPT ![a] = [analyses[a] EXCEPT !.phase = phase, !.known = known]]
  OBVIOUS
<1> HIDE DEF RunsTyped
<1>4. QED
  BY <1>1, <1>2, <1>3, RunChanges

LEMMA UnmountedTyped ==
    ASSUME RequestsTyped, saves' \subseteq {[s EXCEPT !.mounted = FALSE] : s \in saves}
    PROVE  saves' \subseteq Saves
<1>1. \A s \in saves : [s EXCEPT !.mounted = FALSE] \in Saves
  BY DEF RequestsTyped, Saves
<1>2. QED
  BY <1>1

LEMMA ClosingTyped ==
    ASSUME Typed, DrawerCloses
    PROVE  /\ RunsTyped'
           /\ step' \in Steps /\ form' \in {"incomplete"} \union Kinds
           /\ context' \in Friends \union {NoFriend}
           /\ controller' = 0 /\ draft' = 0 /\ reference' = 0
<1>1. RunsTyped'
  <2>1. CASE controller = 0
    BY <2>1 DEF DrawerCloses, Typed, RunsTyped, TriesLeft
  <2>2. CASE controller # 0
    <3>1. PICK run \in Aborted(controller) : analyses' = [analyses EXCEPT ![controller] = run]
      BY <2>2 DEF DrawerCloses
    <3>2. controller \in Analyses
      BY <2>2 DEF Typed, DrawerTyped
    <3>3. run \in Runs /\ run.tries < MaxUploads
      <4>1. CASE run = Ended
        BY <4>1, EndedType, Numbers
      <4>2. CASE run = [analyses[controller] EXCEPT !.phase = "torn"]
        BY <3>2, <4>2 DEF Typed, RunsTyped, TriesLeft, Runs, AnalysisPhases
      <4>3. QED
        BY <3>1, <4>1, <4>2 DEF Aborted
    <3>4. QED
      BY <3>1, <3>2, <3>3, RunChanges DEF Typed
  <2>3. QED
    BY <2>1, <2>2
<1>2. QED
  BY <1>1 DEF DrawerCloses, Steps

LEMMA MemoryDrawerTypes ==
    ASSUME Typed,
           \/ \E f \in Friends \union {NoFriend} : OpenDrawer(f)
           \/ \E p \in {"library", "agent"} : OpenPanel(p)
           \/ ClosePanel \/ CloseDrawer \/ UnmountOverlay \/ MountOverlay
           \/ \E new \in Kinds \union {"incomplete"} : EditForm(new)
           \/ AskNewPerson \/ CancelNewPerson \/ CommitToUniverse
           \/ ResumeFails \/ OpenDraftForConfirmation
           \/ \E a \in Analyses : ResumeJob(a)
    PROVE  Typed'
<1>1. CASE CloseDrawer \/ UnmountOverlay
  <2>1. DrawerCloses /\ ConfirmStepUnmounts
        /\ UNCHANGED <<rejects, resuming, serverDraft, serverMemory, onPlanets>>
        /\ panel' \in {panel, "none"} /\ overlay' \in {overlay, FALSE}
    BY <1>1 DEF CloseDrawer, UnmountOverlay, serverVars
  <2>2. saves' \subseteq Saves
    BY <2>1, UnmountedTyped DEF ConfirmStepUnmounts, Typed
  <2>3. RequestsTyped' /\ ServerTyped'
    BY <2>1, <2>2 DEF Typed, RequestsTyped, ServerTyped
  <2>4. DrawerTyped'
    BY <2>1, ClosingTyped DEF Typed, DrawerTyped, ConfirmStepUnmounts
  <2>5. QED
    BY <2>1, <2>3, <2>4, ClosingTyped DEF Typed
<1>2. CASE CommitToUniverse
  <2>1. [of |-> draft, with |-> reference, mounted |-> TRUE] \in Saves
    BY <1>2 DEF CommitToUniverse, Typed, DrawerTyped, Saves
  <2>2. RequestsTyped'
    BY <1>2, <2>1 DEF CommitToUniverse, Typed, RequestsTyped
  <2>3. QED
    BY <1>2, <2>2
       DEF CommitToUniverse, drawerVars, serverVars, Typed, RunsTyped, TriesLeft, DrawerTyped,
           ServerTyped
<1>3. CASE OpenDraftForConfirmation
  <2>1. resuming \in Analyses /\ resuming \in Drafts
    BY <1>3, DraftKinds DEF OpenDraftForConfirmation, Typed, RequestsTyped
  <2>2. DrawerTyped'
    BY <1>3, <2>1, TextIsKind DEF OpenDraftForConfirmation, Typed, DrawerTyped, Steps
  <2>3. QED
    BY <1>3, <2>2
       DEF OpenDraftForConfirmation, serverVars, Typed, RunsTyped, TriesLeft, RequestsTyped,
           ServerTyped
<1>4. CASE \/ \E f \in Friends \union {NoFriend} : OpenDrawer(f)
           \/ \E p \in {"library", "agent"} : OpenPanel(p)
           \/ ClosePanel \/ MountOverlay
           \/ \E new \in Kinds \union {"incomplete"} : EditForm(new)
           \/ AskNewPerson \/ CancelNewPerson
           \/ ResumeFails \/ \E a \in Analyses : ResumeJob(a)
  <2>1. UNCHANGED <<analyses, saves, rejects, serverDraft, serverMemory, onPlanets>>
        /\ resuming' \in {0, resuming} \union Analyses
    BY <1>4
       DEF OpenDrawer, OpenPanel, ClosePanel, MountOverlay, EditForm, AskNewPerson,
           CancelNewPerson, ResumeFails, ResumeJob, serverVars
  <2>2. DrawerTyped'
    BY <1>4
       DEF OpenDrawer, OpenPanel, ClosePanel, MountOverlay, EditForm, AskNewPerson,
           CancelNewPerson, ResumeFails, ResumeJob, drawerVars, Typed, DrawerTyped, Steps
  <2>3. QED
    BY <2>1, <2>2 DEF Typed, RunsTyped, TriesLeft, RequestsTyped, ServerTyped
<1>5. QED
  BY <1>1, <1>2, <1>3, <1>4

\* A draft is shown, the server's or this client's own.
LEMMA SetDraftTyped ==
    ASSUME Typed, NEW a \in Analyses, NEW known \in BOOLEAN, SetDraft(a, known),
           UNCHANGED <<panel, overlay, form, context, prompt>>
    PROVE  DrawerTyped'
<1>1. a \in Drafts /\ Own(a) \in Drafts
  BY DraftKinds
<1>2. step' \in Steps /\ controller' = 0 /\ draft' \in Drafts /\ reference' \in {0} \union Analyses
  BY <1>1 DEF SetDraft, Steps
<1>3. QED
  BY <1>2 DEF Typed, DrawerTyped

LEMMA AnalysedTyped ==
    ASSUME Typed, NEW a \in Analyses, NEW known \in BOOLEAN, Analysed(a, known)
    PROVE  RunsTyped' /\ DrawerTyped'
<1>1. CASE analyses[a].kind = "text"
  <2>1. /\ SetDraft(a, known) /\ analyses' = [analyses EXCEPT ![a] = Ended]
        /\ UNCHANGED <<panel, overlay, form, context, prompt>>
    BY <1>1 DEF Analysed
  <2>2. QED
    BY <2>1, SetDraftTyped, RunEnds DEF Typed
<1>2. CASE analyses[a].kind # "text"
  <2>1. /\ analyses' = [analyses EXCEPT ![a].phase = "upload", ![a].known = known]
        /\ UNCHANGED drawerVars
    BY <1>2 DEF Analysed
  <2>2. RunsTyped'
    BY <2>1, PhaseChanges DEF Typed, AnalysisPhases
  <2>3. QED
    BY <2>1, <2>2 DEF Typed, DrawerTyped, drawerVars
<1>3. QED
  BY <1>1, <1>2

LEMMA AnalysesTypes ==
    ASSUME Typed, NEW a \in Analyses, Submit(a) \/ AnalysisStep(a)
    PROVE  Typed'
<1>1. CASE Submit(a)
  <2> DEFINE run == [Unused EXCEPT !.phase = IF form = "shot" THEN "analysis" ELSE "job",
                                   !.kind = form]
  <2>1. run \in Runs /\ run.tries < MaxUploads
    <3>1. run \in Runs /\ run.tries = 0
      BY <1>1, EndedType DEF Submit, CanSubmit, Runs, AnalysisPhases
    <3>2. QED
      BY <3>1, Numbers
  <2>2. analyses' = [analyses EXCEPT ![a] = run]
    BY <1>1 DEF Submit
  <2> HIDE DEF run
  <2>3. RunsTyped'
    BY <2>1, <2>2, RunChanges DEF Typed
  <2>4. QED
    BY <1>1, <2>3 DEF Submit, serverVars, Typed, DrawerTyped, RequestsTyped, ServerTyped, Steps
<1>2. CASE JobAnswer(a)
  <2>1. analyses' = [analyses EXCEPT ![a] = [analyses[a] EXCEPT !.phase = "analysis"]]
    BY <1>2 DEF JobAnswer
  <2>2. [analyses[a] EXCEPT !.phase = "analysis"] \in Runs
        /\ [analyses[a] EXCEPT !.phase = "analysis"].tries < MaxUploads
    BY DEF Typed, RunsTyped, TriesLeft, Runs, AnalysisPhases
  <2>3. RunsTyped'
    BY <2>1, <2>2, RunChanges DEF Typed
  <2>4. QED
    BY <1>2, <2>3
       DEF JobAnswer, drawerVars, serverVars, Typed, DrawerTyped, RequestsTyped, ServerTyped
<1>3. ASSUME NEW known \in BOOLEAN, Analysed(a, known),
             serverDraft' \in {serverDraft, [serverDraft EXCEPT ![a] = "waiting"]},
             UNCHANGED <<saves, rejects, resuming, serverMemory, onPlanets>>
      PROVE  Typed'
  BY <1>3, AnalysedTyped DEF Typed, RequestsTyped, ServerTyped
<1>4. CASE AnalysisAnswer(a)
  BY <1>3, <1>4 DEF AnalysisAnswer
<1>5. ASSUME NEW stored \in BOOLEAN, AnalysisFails(a, stored)
      PROVE  Typed'
  BY <1>3, <1>5 DEF AnalysisFails
<1>6. CASE TornAnswer(a) \/ UploadAnswer(a)
  <2>1. analyses[a].known \in BOOLEAN
    BY DEF Typed, RunsTyped, Runs
  <2>2. RunsTyped'
    BY <1>6, RunEnds DEF TornAnswer, UploadAnswer, Typed
  <2>3. DrawerTyped'
    BY <1>6, <2>1, SetDraftTyped DEF TornAnswer, UploadAnswer
  <2>4. QED
    BY <1>6, <2>2, <2>3
       DEF TornAnswer, UploadAnswer, serverVars, Typed, RequestsTyped, ServerTyped
<1>7. ASSUME NEW refused \in BOOLEAN, UploadFails(a, refused)
      PROVE  Typed'
  <2>1. CASE refused \/ analyses[a].tries + 1 = MaxUploads
    <3>1. /\ BackToInput /\ ConfirmStepUnmounts /\ analyses' = [analyses EXCEPT ![a] = Ended]
          /\ UNCHANGED <<panel, overlay, form, context, reference, rejects, resuming,
                         serverDraft, serverMemory, onPlanets>>
      BY <1>7, <2>1 DEF UploadFails, serverVars
    <3>2. saves' \subseteq Saves
      BY <3>1, UnmountedTyped DEF ConfirmStepUnmounts, Typed
    <3>3. DrawerTyped'
      BY <3>1 DEF BackToInput, ConfirmStepUnmounts, Typed, DrawerTyped, Steps
    <3>4. QED
      BY <3>1, <3>2, <3>3, RunEnds DEF Typed, RequestsTyped, ServerTyped
  <2>2. CASE ~(refused \/ analyses[a].tries + 1 = MaxUploads)
    <3> DEFINE run == [analyses[a] EXCEPT !.tries = @ + 1]
    <3>1. /\ analyses' = [analyses EXCEPT ![a] = run]
          /\ UNCHANGED <<drawerVars, saves, rejects, resuming, serverVars, onPlanets>>
      BY <1>7, <2>2 DEF UploadFails
    <3>2. analyses[a] \in Runs /\ analyses[a].tries \in 0..MaxUploads
          /\ analyses[a].tries < MaxUploads
      BY DEF Typed, RunsTyped, TriesLeft, Runs
    <3>3. analyses[a].tries + 1 \in 0..MaxUploads /\ analyses[a].tries + 1 < MaxUploads
      BY <2>2, <3>2, Numbers
    <3>4. run \in Runs /\ run.tries < MaxUploads
      BY <3>2, <3>3 DEF Runs
    <3> HIDE DEF run
    <3>5. RunsTyped'
      BY <3>1, <3>4, RunChanges DEF Typed
    <3>6. QED
      BY <3>1, <3>5 DEF drawerVars, serverVars, Typed, DrawerTyped, RequestsTyped, ServerTyped
  <2>3. QED
    BY <2>1, <2>2
<1>8. QED
  BY <1>1, <1>2, <1>4, <1>5, <1>6, <1>7 DEF AnalysisStep

LEMMA ServerStoresTyped ==
    ASSUME Typed, NEW s \in saves, ServerStores(s)
    PROVE  /\ serverDraft' \in [Analyses -> {"none", "waiting", "confirmed", "rejected"}]
           /\ serverMemory' \in [Drafts -> Nat]
<1>1. /\ s.of \in Drafts /\ s.with \in {0} \union Analyses
      /\ serverDraft \in [Analyses -> {"none", "waiting", "confirmed", "rejected"}]
      /\ serverMemory \in [Drafts -> Nat]
  BY DEF Typed, RequestsTyped, ServerTyped, Saves
<1>2. serverMemory[s.of] + 1 \in Nat
  BY <1>1
<1>3. serverMemory' \in {[serverMemory EXCEPT ![s.of] = serverMemory[s.of] + 1],
                        [serverMemory EXCEPT ![s.of] = 1]}
  BY DEF ServerStores
<1>4. serverMemory' \in [Drafts -> Nat]
  BY <1>1, <1>2, <1>3
<1>5. serverDraft' \in {serverDraft, [serverDraft EXCEPT ![s.with] = "confirmed"]}
      /\ (s.with = 0 => serverDraft' = serverDraft)
  BY DEF ServerStores
<1>6. QED
  BY <1>1, <1>4, <1>5

LEMMA AnswersTypes ==
    ASSUME Typed,
           \/ \E s \in saves : SaveAnswer(s) \/ \E b \in BOOLEAN : SaveFails(s, b)
           \/ LeaveDraft
           \/ \E a \in Analyses : RejectAnswer(a) \/ \E b \in BOOLEAN : RejectFails(a, b)
    PROVE  Typed'
<1>1. ASSUME NEW s \in saves, SaveAnswer(s)
      PROVE  Typed'
  <2>1. /\ ServerStores(s) /\ DrawerCloses /\ prompt' = FALSE
        /\ onPlanets' = [onPlanets EXCEPT ![s.of] = @ + 1]
        /\ saves' \subseteq {[t EXCEPT !.mounted = FALSE] : t \in saves}
        /\ UNCHANGED <<panel, overlay, rejects, resuming>>
    BY <1>1 DEF SaveAnswer
  <2>2. RequestsTyped'
    BY <2>1, UnmountedTyped DEF Typed, RequestsTyped
  <2>3. ServerTyped'
    <3>1. onPlanets' \in [Drafts -> Nat]
      BY <2>1 DEF Typed, RequestsTyped, ServerTyped, Saves
    <3>2. QED
      BY <2>1, <3>1, ServerStoresTyped DEF ServerTyped
  <2>4. DrawerTyped'
    BY <2>1, ClosingTyped DEF Typed, DrawerTyped
  <2>5. QED
    BY <2>1, <2>2, <2>3, <2>4, ClosingTyped DEF Typed
<1>2. ASSUME NEW s \in saves, NEW stored \in BOOLEAN, SaveFails(s, stored)
      PROVE  Typed'
  <2>1. /\ stored => ServerStores(s)
        /\ ~stored => UNCHANGED <<serverDraft, serverMemory>>
        /\ saves' = saves \ {s}
        /\ UNCHANGED <<drawerVars, analyses, rejects, resuming, onPlanets>>
    BY <1>2 DEF SaveFails, serverVars
  <2>2. ServerTyped'
    BY <2>1, ServerStoresTyped DEF Typed, ServerTyped
  <2>3. QED
    BY <2>1, <2>2 DEF drawerVars, Typed, RunsTyped, TriesLeft, DrawerTyped, RequestsTyped
<1>3. CASE LeaveDraft
  <2>1. UNCHANGED <<panel, overlay, form, context, reference, analyses, resuming, serverDraft,
                    serverMemory, onPlanets>>
    BY <1>3 DEF LeaveDraft, serverVars
  <2>2. CASE reference = 0
    <3>1. BackToInput /\ ConfirmStepUnmounts /\ UNCHANGED rejects
      BY <1>3, <2>2 DEF LeaveDraft
    <3>2. saves' \subseteq Saves
      BY <3>1, UnmountedTyped DEF ConfirmStepUnmounts, Typed
    <3>3. QED
      BY <2>1, <3>1, <3>2
         DEF BackToInput, ConfirmStepUnmounts, Typed, RunsTyped, TriesLeft, DrawerTyped,
             RequestsTyped, ServerTyped, Steps
  <2>3. CASE reference # 0
    <3>1. rejects' = rejects \union {reference} /\ UNCHANGED <<step, controller, draft, prompt, saves>>
      BY <1>3, <2>3 DEF LeaveDraft
    <3>2. QED
      BY <2>1, <2>3, <3>1
         DEF Typed, RunsTyped, TriesLeft, DrawerTyped, RequestsTyped, ServerTyped
  <2>4. QED
    BY <2>2, <2>3
<1>4. ASSUME NEW a \in Analyses, RejectAnswer(a)
      PROVE  Typed'
  <2>1. saves' \subseteq Saves
    BY <1>4, UnmountedTyped DEF RejectAnswer, ConfirmStepUnmounts, Typed
  <2>2. QED
    BY <1>4, <2>1
       DEF RejectAnswer, BackToInput, ConfirmStepUnmounts, Typed, RunsTyped, TriesLeft,
           DrawerTyped, RequestsTyped, ServerTyped, Steps
<1>5. ASSUME NEW a \in Analyses, NEW stored \in BOOLEAN, RejectFails(a, stored)
      PROVE  Typed'
  BY <1>5
     DEF RejectFails, drawerVars, Typed, RunsTyped, TriesLeft, DrawerTyped, RequestsTyped,
         ServerTyped
<1>6. QED
  BY <1>1, <1>2, <1>3, <1>4, <1>5

LEMMA TypedStep == Typed /\ [AddMemoryNext]_addMemoryVars => Typed'
<1>1. Typed /\ UNCHANGED addMemoryVars => Typed'
  BY DEF addMemoryVars, serverVars, Typed, RunsTyped, TriesLeft, DrawerTyped, RequestsTyped,
         ServerTyped
<1>2. SUFFICES ASSUME Typed, AddMemoryNext PROVE Typed'
  BY <1>1
<1>3. CASE SetInputMode \/ SetTextValue \/ ChooseScreenshot \/ ChooseMedia
  <2>1. \E new \in Kinds \union {"incomplete"} : EditForm(new)
    BY <1>3 DEF SetInputMode, SetTextValue, ChooseScreenshot, ChooseMedia, EditForm
  <2>2. QED
    BY <1>2, <2>1, MemoryDrawerTypes
<1>4. QED
  BY <1>2, <1>3, MemoryDrawerTypes, AnalysesTypes, AnswersTypes DEF AddMemoryNext

-----------------------------------------------------------------------------
LEMMA AddMemoryInductive == AddMemoryInit /\ [][AddMemoryNext]_addMemoryVars => [](Typed /\ CoreInv)
<1>1. AddMemoryInit => Typed /\ CoreInv
  BY AddMemoryInitInv, AddMemoryTypeParts DEF AddMemoryInv, Typed, CoreInv
<1>2. Typed /\ CoreInv /\ [AddMemoryNext]_addMemoryVars => (Typed /\ CoreInv)'
  BY CoreStep, TypedStep, AddMemoryTypeParts DEF Typed
<1>3. QED
  BY <1>1, <1>2, PTL

\* Type correctness of the drawer, its requests and the server's drafts.
THEOREM AddMemoryTypes == AddMemorySpec => []AddMemoryTypeOK
<1>1. Typed /\ CoreInv => AddMemoryTypeOK
  BY AddMemoryTypeParts DEF Typed, TypeInv
<1>2. QED
  BY <1>1, AddMemoryInductive, PTL DEF AddMemorySpec

\* A draft is confirmed or rejected under its own server draft, whatever late answer
\* replaced the draft or its reference (useAddMemoryStore.ts).
THEOREM ReferenceOfTheDraft == AddMemorySpec => []DraftKeepsReference
<1>1. Typed /\ CoreInv => DraftKeepsReference
  BY DEF Typed, DrawerTyped, CoreInv, DraftsPaired, Paired, DraftKeepsReference
<1>2. QED
  BY <1>1, AddMemoryInductive, PTL DEF AddMemorySpec

\* However often a draft is opened, confirmed, repeated after a lost answer or rejected
\* at the same time, its memory is stored once and shown once, and only when it is stored.
THEOREM SavedOnce == AddMemorySpec => []MemorySavedOnce
<1>1. ASSUME Typed, CoreInv PROVE MemorySavedOnce
  <2>1. ASSUME NEW d \in Drafts
        PROVE  serverMemory[d] <= 1 /\ onPlanets[d] <= serverMemory[d]
    <3>1. CASE d \in Analyses
      BY <1>1, <3>1 DEF CoreInv, StoredInv, ConfirmedOnce
    <3>2. CASE d \notin Analyses
      BY <1>1, <3>2, DraftKinds DEF CoreInv, StoredInv, OwnStoredOnce
    <3>3. QED
      BY <3>1, <3>2
  <2>2. \A a \in Analyses : serverDraft[a] = "rejected" => serverMemory[a] = 0
    BY <1>1 DEF CoreInv, StoredInv, ConfirmedOnce
  <2>3. QED
    BY <2>1, <2>2 DEF MemorySavedOnce
<1>2. QED
  BY <1>1, AddMemoryInductive, PTL DEF AddMemorySpec
=============================================================================
