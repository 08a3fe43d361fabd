--------------------------- MODULE PersonaCohort ---------------------------
(***************************************************************************)
(* The evaluation cohort under scripts/persona: its documents are          *)
(* generated by a model, corrected by the review script, approved by the   *)
(* product owner in the manifest, and measured by the recall baseline,     *)
(* whose gate may only count for documents that were approved.             *)
(*                                                                         *)
(* A script writes one file after another and may be stopped between two   *)
(* of them.  The operator runs one script at a time; a document is the     *)
(* number of the version that was written.                                 *)
(***************************************************************************)
EXTENDS Naturals, Sequences, FiniteSets

CONSTANTS
    MaxWritings,    \* Bound: the runs of the scripts that write documents
    Candidates      \* the expected memories that recall is asked for

ASSUME CohortAssumption == MaxWritings \in Nat

VARIABLES
    documents,      \* the version of each document, 0 where there is none
    unsound,        \* the versions that do not validate
    manifest,
    patched,        \* review-patch.json is there, and of this cohort
    writing,        \* the run that writes: its script, its version, what is left to do
    writings,       \* the runs so far
    approval,       \* the documents the product owner approved last
    measured        \* the documents that passed the gate since they were approved

cohortVars == <<documents, unsound, manifest, patched, writing, writings, approval, measured>>

\* outputFiles, in the order in which they are written.
OutputFiles == <<"profiles", "relationships", "scenarios", "expectedMemories">>
DocumentNames == {OutputFiles[i] : i \in DOMAIN OutputFiles}
Versions == 0..MaxWritings
NoDocuments == [f \in DocumentNames |-> 0]
NoManifest == [hashes |-> NoDocuments, review |-> "absent"]
Idle == [script |-> "none", version |-> 0, todo |-> <<>>]
ToWrite == OutputFiles \o <<"manifest">>
\* The requests of a generation, those for the scenarios of two relationships each as one.
GenerationStages == <<"profileStage", "relationshipStage", "scenarioStage">>
StageNames == {GenerationStages[i] : i \in DOMAIN GenerationStages}

CohortTypeOK ==
    /\ documents \in [DocumentNames -> Versions] /\ unsound \subseteq Versions
    /\ manifest \in [hashes : [DocumentNames -> Versions],
                     review : {"absent", "none", "automated", "approved"}]
    /\ patched \in BOOLEAN /\ writings \in Versions
    /\ writing.script \in {"none", "generate", "review"} /\ writing.version \in Versions
    /\ writing.todo \in Seq({"manifest"} \union StageNames \union DocumentNames)
    /\ approval \in [DocumentNames -> Versions] /\ measured \in [DocumentNames -> Versions]

CohortInit ==
    /\ documents = NoDocuments /\ unsound = {} /\ manifest = NoManifest /\ patched = FALSE
    /\ writing = Idle /\ writings = 0 /\ approval = NoDocuments /\ measured = NoDocuments

(***************************************************************************)
(* validateFixtureDirectory.                                               *)
(***************************************************************************)
Readable == patched /\ manifest # NoManifest /\ \A f \in DocumentNames : documents[f] > 0
ProfilesValid == documents["profiles"] \notin unsound
RelationshipsValid == documents["relationships"] \notin unsound
ScenariosValid == documents["scenarios"] \notin unsound
CandidatesValid == documents["expectedMemories"] \notin unsound
HashesMatch == manifest.hashes = documents

FixtureValid ==
    /\ Readable /\ ProfilesValid /\ RelationshipsValid /\ ScenariosValid /\ CandidatesValid
    /\ HashesMatch

(***************************************************************************)
(* Generating.                                                             *)
(***************************************************************************)
StartWriting(script, todo) ==
    /\ writing = Idle /\ writings < MaxWritings /\ writings' = writings + 1
    /\ writing' = [script |-> script, version |-> writings + 1, todo |-> todo]

\* Where there is a manifest only --force goes on, and it removes the directory first, the
\* corrections that were written for it included.
Generate(force) ==
    /\ force \/ manifest = NoManifest
    /\ StartWriting("generate", GenerationStages \o ToWrite)
    /\ IF force
       THEN documents' = NoDocuments /\ manifest' = NoManifest /\ patched' = FALSE
       ELSE UNCHANGED <<documents, manifest, patched>>
    /\ UNCHANGED <<unsound, approval, measured>>

NextIs(file) == writing # Idle /\ Head(writing.todo) = file
Proceeds == writing' = [writing EXCEPT !.todo = Tail(@)]

\* What the model answers within three attempts: something that reads as it should, or not.
\* Without an answer the script stops.
ModelAnswers == {"sound", "unsound"}

\* The merges and collectAgentMemories only assert that all that was asked for is there.
AfterMerge(answer) ==
    IF answer = "sound" THEN unsound ELSE unsound \union {writing.version}

StageAnswered(stage, answer) ==
    /\ NextIs(stage) /\ Proceeds /\ unsound' = AfterMerge(answer)
    /\ UNCHANGED <<documents, manifest, patched, writings, approval, measured>>

(***************************************************************************)
(* Reviewing.                                                              *)
(***************************************************************************)
\* The corrections go into all strings of the documents, whatever they make of them.
AfterCorrections == {unsound, unsound \union {writings + 1}}

\* Everything is read before anything is written.
Review ==
    /\ Readable /\ StartWriting("review", ToWrite)
    /\ unsound' \in AfterCorrections
    /\ UNCHANGED <<documents, manifest, patched, approval, measured>>

\* Faulty: a review keeps the approval of what it corrects.
ReviewOfKept ==
    IF writing.script # "review" THEN "none"
    ELSE IF manifest.review = "approved" THEN "approved" ELSE "automated"

\* The corrections may change nothing in a file.
Corrected(f) == {documents, [documents EXCEPT ![f] = writing.version]}

ReviewOf == IF writing.script = "review" THEN "automated" ELSE "none"

WriteDocument(f) ==
    /\ NextIs(f) /\ Proceeds
    /\ IF writing.script = "review"
       THEN documents' \in Corrected(f)
       ELSE documents' = [documents EXCEPT ![f] = writing.version]
    /\ UNCHANGED <<unsound, manifest, patched, writings, approval, measured>>

\* The hashes are of what is on disk by then.
WriteManifest ==
    /\ NextIs("manifest") /\ writing' = Idle
    /\ manifest' = [hashes |-> documents, review |-> ReviewOf]
    /\ UNCHANGED <<documents, unsound, patched, writings, approval, measured>>

\* An error, or the end of the process: what was written stays.
WritingStops ==
    /\ writing # Idle /\ writing' = Idle
    /\ UNCHANGED <<documents, unsound, manifest, patched, writings, approval, measured>>

\* External: the corrections are written by hand, and so is the approval of documents that
\* validate.
WritePatch ==
    /\ writing = Idle /\ ~patched /\ patched' = TRUE
    /\ UNCHANGED <<documents, unsound, manifest, writing, writings, approval, measured>>

Approve ==
    /\ writing = Idle /\ FixtureValid /\ manifest.review = "automated"
    /\ manifest' = [manifest EXCEPT !.review = "approved"] /\ approval' = documents
    /\ measured' = NoDocuments
    /\ UNCHANGED <<documents, unsound, patched, writing, writings>>

(***************************************************************************)
(* The recall baseline.                                                    *)
(***************************************************************************)
\* What was recalled for a candidate: a memory that shares enough of its words, others, none,
\* one of another user, or the request failed.
Outcomes == {"hit", "miss", "empty", "leak", "failed"}
Recalls == [Candidates -> Outcomes]
Count(recall, outcome) == Cardinality({c \in Candidates : recall[c] = outcome})

\* With the default thresholds.  The rates of no candidates at all are 0.
GatePasses(recall) ==
    /\ \A outcome \in {"failed", "empty", "leak"} : Count(recall, outcome) = 0
    /\ Candidates # {} /\ 10 * Count(recall, "hit") >= 9 * Cardinality(Candidates)

\* Without --allow-unapproved.
MayMeasure == writing = Idle /\ FixtureValid /\ manifest.review = "approved"

MeasureRecall(recall) ==
    /\ MayMeasure /\ GatePasses(recall) /\ measured' = documents
    /\ UNCHANGED <<documents, unsound, manifest, patched, writing, writings, approval>>

CohortNext ==
    \/ \E force \in BOOLEAN : Generate(force)
    \/ \E stage \in StageNames, answer \in ModelAnswers : StageAnswered(stage, answer)
    \/ Review \/ \E f \in DocumentNames : WriteDocument(f)
    \/ WriteManifest \/ WritingStops \/ WritePatch \/ Approve
    \/ \E recall \in Recalls : MeasureRecall(recall)

CohortSpec == CohortInit /\ [][CohortNext]_cohortVars

(***************************************************************************)
(* Properties.                                                             *)
(***************************************************************************)

\* Documents only pass the gate as the product owner approved them last: a review, or one
\* that stopped between two files, leaves documents that have to be approved anew.
MeasuredAsApproved == measured \in {NoDocuments, approval}
=============================================================================
