------------------------------ MODULE Ingestion ------------------------------
(***************************************************************************)
(* Analysis jobs and the drafts of memories that they lead to: the         *)
(* handlers of src/backend/app/application/ingestion.py, and deletion and  *)
(* saving from memory_revision.py, each one transaction on PostgreSQL.     *)
(*                                                                         *)
(* A transaction reads what is committed, waits for the rows it locks or   *)
(* writes, and keeps them until it ends; its writes appear at its end.  A  *)
(* handler locks the draft and then the job, or the job and then the       *)
(* draft, so that two may wait for each other: the database then stops one *)
(* of them.  It may stop any at any time, as a lost connection does.       *)
(***************************************************************************)
EXTENDS Naturals

CONSTANTS
    Requests,       \* the transactions that may be under way at once
    NoRequest,
    LastJob         \* Bound: jobs; the memory an analysis proposes has its job's number

ASSUME IngestionAssumption == NoRequest \notin Requests /\ LastJob \in Nat

VARIABLES
    job,            \* the status of an AnalysisJobRow, by number
    draftRow,       \* the status of its MemoryDraftRow
    proposedBy,     \* candidate_memory_id of that draft
    due,            \* the drafts whose expires_at has passed
    memoryRow,      \* MemoryRow, by the job whose sources and draft refer to it
    erased,         \* the memories that were deleted
    locks,          \* the transaction that holds a row
    request         \* what each transaction is about to do

ingestionVars == <<job, draftRow, proposedBy, due, memoryRow, erased, locks, request>>
rowVars == <<job, draftRow, proposedBy, due, memoryRow, erased>>

JobIds == 1..LastJob
MemoryIds == 1..LastJob
NoRow == 0
BareRow == LastJob + 1      \* a memory that no draft refers to
Rows == {"job", "draft", "memory"} \X JobIds
JobStatus == {"none", "created", "failed", "awaiting_confirmation", "confirmed", "cancelled",
              "expired", "deleted"}
DraftStatus == {"none", "awaiting_confirmation", "confirmed", "rejected", "expired"}

TransactionSteps == {"analysing", "expire draft", "expire job", "reject job", "cancel draft",
          "delete draft", "insert", "confirm job", "saved draft", "new draft", "revise", "unlink"}
NotBegun == [step |-> "none", of |-> 0]

IngestionTypeOK ==
    /\ job \in [JobIds -> JobStatus] /\ draftRow \in [JobIds -> DraftStatus]
    /\ proposedBy \in [JobIds -> {NoRow} \union MemoryIds] /\ due \subseteq JobIds
    /\ memoryRow \in [MemoryIds -> {NoRow, BareRow} \union JobIds] /\ erased \subseteq MemoryIds
    /\ locks \in [Rows -> Requests \union {NoRequest}]
    /\ request \in [Requests -> [step : {"none"} \union TransactionSteps, of : 0..LastJob]]

IngestionInit ==
    /\ job = [j \in JobIds |-> "none"]
    /\ draftRow = [j \in JobIds |-> "none"] /\ proposedBy = [j \in JobIds |-> NoRow] /\ due = {}
    /\ memoryRow = [m \in MemoryIds |-> NoRow] /\ erased = {}
    /\ locks = [row \in Rows |-> NoRequest] /\ request = [r \in Requests |-> NotBegun]

(***************************************************************************)
(* Transactions.  One that is refused changes nothing, as does one that    *)
(* expects another version of its row: the guards name what goes through.  *)
(***************************************************************************)
Begins(r) == request[r] = NotBegun
At(r, step) == request[r].step = step
Available(r, row) == locks[row] \in {NoRequest, r}
GoesOn(r, step, of) == request' = [request EXCEPT ![r] = [step |-> step, of |-> of]]

\* Commit or rollback.
Ends(r) ==
    /\ request' = [request EXCEPT ![r] = NotBegun]
    /\ locks' = [row \in Rows |-> IF locks[row] = r THEN NoRequest ELSE locks[row]]

\* The row is locked, and another step follows.
LocksRow(r, row, next, of) ==
    /\ Available(r, row) /\ locks' = [locks EXCEPT ![row] = r] /\ GoesOn(r, next, of)
    /\ UNCHANGED rowVars

\* _transition_job, as many times as it is called, and _transition_draft
JobBecomes(j, status) == job' = [job EXCEPT ![j] = status]
DraftBecomes(j, status) == draftRow' = [draftRow EXCEPT ![j] = status]

Awaiting(j) == job[j] = "awaiting_confirmation"
DraftAwaiting(j) == draftRow[j] = "awaiting_confirmation"

TransactionStops(r) == ~Begins(r) /\ Ends(r) /\ UNCHANGED rowVars

DraftFallsDue(j) ==
    /\ DraftAwaiting(j) /\ j \notin due /\ due' = due \union {j}
    /\ UNCHANGED <<job, draftRow, proposedBy, memoryRow, erased, locks, request>>

(***************************************************************************)
(* Jobs.                                                                   *)
(***************************************************************************)
\* The provider fails, or what it found becomes a draft.
AnalysisLeads(j) ==
    \/ JobBecomes(j, "failed") /\ UNCHANGED <<draftRow, proposedBy>>
    \/ /\ JobBecomes(j, "awaiting_confirmation") /\ DraftBecomes(j, "awaiting_confirmation")
       /\ proposedBy' = [proposedBy EXCEPT ![j] = j]

NextJob(j) == job[j] = "none" /\ (j > 1 => job[j - 1] # "none")

\* create_ingestion_job, by itself, and in one transaction with the analysis
\* (the compatible route, the proposal of a conversation).
CreateJob(j) ==
    /\ NextJob(j)
    /\ \/ JobBecomes(j, "created") /\ UNCHANGED <<draftRow, proposedBy>>
       \/ AnalysisLeads(j)
    /\ UNCHANGED <<due, memoryRow, erased, locks, request>>

\* analyze_ingestion_job: the job is locked while the provider is waited for.
Analyze(r, j) ==
    Begins(r) /\ job[j] \in {"created", "failed"} /\ LocksRow(r, <<"job", j>>, "analysing", j)

AnalysisEnds(r) ==
    /\ At(r, "analysing") /\ AnalysisLeads(request[r].of) /\ Ends(r)
    /\ UNCHANGED <<due, memoryRow, erased>>

\* get_ingestion_job: the draft is read without its lock.
GetJob(r, j) ==
    /\ Begins(r) /\ Awaiting(j) /\ DraftAwaiting(j) /\ j \in due
    /\ LocksRow(r, <<"job", j>>, "expire draft", j)

ExpireDraft(r) ==
    LET j == request[r].of
    IN  /\ At(r, "expire draft") /\ Available(r, <<"draft", j>>) /\ Ends(r)
        /\ DraftBecomes(j, "expired") /\ JobBecomes(j, "expired")
        /\ UNCHANGED <<proposedBy, due, memoryRow, erased>>

\* cancel_ingestion_job, of a job without a draft to reject
Cancel(r, j) ==
    /\ Begins(r) /\ job[j] \in {"created", "failed", "awaiting_confirmation"}
    /\ ~(Awaiting(j) /\ DraftAwaiting(j))
    /\ Available(r, <<"job", j>>) /\ JobBecomes(j, "cancelled")
    /\ UNCHANGED <<draftRow, proposedBy, due, memoryRow, erased, locks, request>>

\* and of one that waits with its draft.
CancelWaiting(r, j) ==
    /\ Begins(r) /\ Awaiting(j) /\ DraftAwaiting(j)
    /\ LocksRow(r, <<"job", j>>, "cancel draft", j)

CancelDraft(r) ==
    LET j == request[r].of
    IN  /\ At(r, "cancel draft") /\ Available(r, <<"draft", j>>) /\ Ends(r)
        /\ DraftBecomes(j, "rejected") /\ JobBecomes(j, "cancelled")
        /\ UNCHANGED <<proposedBy, due, memoryRow, erased>>

\* delete_ingestion_job: not while a memory refers to it.
DeleteJob(r, j) ==
    /\ Begins(r) /\ job[j] \in {"confirmed", "failed", "cancelled", "expired"}
    /\ \A m \in MemoryIds : memoryRow[m] # j
    /\ LocksRow(r, <<"job", j>>, "delete draft", j)

DeleteDraft(r) ==
    LET j == request[r].of
    IN  /\ At(r, "delete draft") /\ Available(r, <<"draft", j>>) /\ Ends(r)
        /\ DraftBecomes(j, "none") /\ JobBecomes(j, "deleted")
        /\ UNCHANGED <<proposedBy, due, memoryRow, erased>>

(***************************************************************************)
(* Drafts.                                                                 *)
(***************************************************************************)
\* get_memory_draft
GetDraft(r, j) ==
    /\ Begins(r) /\ DraftAwaiting(j) /\ j \in due
    /\ LocksRow(r, <<"draft", j>>, "expire job", j)

ExpireJob(r) ==
    LET j == request[r].of
    IN  /\ At(r, "expire job") /\ Available(r, <<"job", j>>) /\ Ends(r)
        /\ DraftBecomes(j, "expired")
        /\ IF Awaiting(j) THEN JobBecomes(j, "expired") ELSE UNCHANGED job
        /\ UNCHANGED <<proposedBy, due, memoryRow, erased>>

\* reject_memory_draft: of a draft that is due, the expiry is rolled back with the refusal.
Reject(r, j) ==
    /\ Begins(r) /\ DraftAwaiting(j) /\ j \notin due
    /\ LocksRow(r, <<"draft", j>>, "reject job", j)

RejectJob(r) ==
    LET j == request[r].of
    IN  /\ At(r, "reject job") /\ Available(r, <<"job", j>>) /\ Ends(r)
        /\ IF Awaiting(j) THEN DraftBecomes(j, "rejected") /\ JobBecomes(j, "cancelled")
           ELSE UNCHANGED <<draftRow, job>>
        /\ UNCHANGED <<proposedBy, due, memoryRow, erased>>

\* confirm_memory_draft: the draft, the new memory, the job.
Confirms(r, j) ==
    /\ Begins(r) /\ DraftAwaiting(j) /\ j \notin due
    /\ LocksRow(r, <<"draft", j>>, "insert", j)

\* persist_confirmed_memory, of a memory that is not there: otherwise nothing goes through.
Insert(r) ==
    LET m == proposedBy[request[r].of]
    IN  /\ At(r, "insert") /\ memoryRow[m] = NoRow
        /\ LocksRow(r, <<"memory", m>>, "confirm job", request[r].of)

\* Faulty: the job is not looked at again.
Unchecked(j) == TRUE

\* The job that is locked last may have ended since the draft was read.
Confirmable(j) == Awaiting(j)

ConfirmJob(r) ==
    LET j == request[r].of
    IN  /\ At(r, "confirm job") /\ Available(r, <<"job", j>>) /\ Ends(r)
        /\ IF Confirmable(j)
           THEN /\ DraftBecomes(j, "confirmed") /\ JobBecomes(j, "confirmed")
                /\ memoryRow' = [memoryRow EXCEPT ![proposedBy[j]] = j]
           ELSE UNCHANGED <<draftRow, job, memoryRow>>
        /\ UNCHANGED <<proposedBy, due, erased>>

(***************************************************************************)
(* Memories, by their id.                                                  *)
(***************************************************************************)
\* confirm_legacy_memory looks, without a lock, for the memory, then for another one of
\* the same evidence, which it returns, then for a draft that waits.
SaveMemory(r, m) ==
    LET drafts == {j \in JobIds : DraftAwaiting(j) /\ proposedBy[j] = m}
    IN  /\ Begins(r) /\ UNCHANGED <<rowVars, locks>>
        /\ \/ memoryRow[m] # NoRow /\ GoesOn(r, "revise", m)
           \/ memoryRow[m] = NoRow /\ \E j \in drafts : GoesOn(r, "saved draft", j)
           \/ memoryRow[m] = NoRow /\ drafts = {} /\ GoesOn(r, "new draft", m)

\* The draft is locked, but its status stays as it was read: the session has it already.
SavedDraft(r) ==
    LET j == request[r].of
    IN  /\ At(r, "saved draft") /\ draftRow[j] # "none" /\ j \notin due
        /\ LocksRow(r, <<"draft", j>>, "insert", j)

\* A job and a draft of its own, confirmed at once; not when the memory is there by now.
NewDraft(r) ==
    LET m == request[r].of
    IN  /\ At(r, "new draft") /\ Available(r, <<"memory", m>>) /\ memoryRow[m] = NoRow /\ Ends(r)
        /\ \E j \in JobIds :
              /\ NextJob(j) /\ JobBecomes(j, "confirmed") /\ DraftBecomes(j, "confirmed")
              /\ proposedBy' = [proposedBy EXCEPT ![j] = m]
              /\ memoryRow' = [memoryRow EXCEPT ![m] = j]
        /\ UNCHANGED <<due, erased>>

\* save_memory_compatibility: a memory that was deleted meanwhile is inserted again.
Revise(r) ==
    LET m == request[r].of
    IN  /\ At(r, "revise") /\ Available(r, <<"memory", m>>) /\ Ends(r)
        /\ memoryRow' = [memoryRow EXCEPT ![m] = IF @ = NoRow THEN BareRow ELSE @]
        /\ UNCHANGED <<job, draftRow, proposedBy, due, erased>>

\* delete_confirmed_memory
DeleteMemory(r, m) ==
    Begins(r) /\ memoryRow[m] # NoRow /\ LocksRow(r, <<"memory", m>>, "unlink", m)

\* The draft forgets the memory.
Unlink(r) ==
    LET m == request[r].of
    IN  /\ At(r, "unlink") /\ Ends(r)
        /\ memoryRow[m] \in JobIds => Available(r, <<"draft", memoryRow[m]>>)
        /\ memoryRow' = [memoryRow EXCEPT ![m] = NoRow] /\ erased' = erased \union {m}
        /\ UNCHANGED <<job, draftRow, proposedBy, due>>

IngestionNext ==
    \/ \E j \in JobIds : CreateJob(j) \/ DraftFallsDue(j)
    \/ \E r \in Requests, j \in JobIds :
          \/ Analyze(r, j) \/ GetJob(r, j) \/ Cancel(r, j) \/ CancelWaiting(r, j)
          \/ DeleteJob(r, j) \/ GetDraft(r, j) \/ Reject(r, j) \/ Confirms(r, j)
    \/ \E r \in Requests, m \in MemoryIds : SaveMemory(r, m) \/ DeleteMemory(r, m)
    \/ \E r \in Requests :
          \/ TransactionStops(r) \/ AnalysisEnds(r) \/ ExpireDraft(r) \/ CancelDraft(r)
          \/ DeleteDraft(r) \/ ExpireJob(r) \/ RejectJob(r) \/ Insert(r) \/ ConfirmJob(r)
          \/ SavedDraft(r) \/ NewDraft(r) \/ Revise(r) \/ Unlink(r)

IngestionSpec == IngestionInit /\ [][IngestionNext]_ingestionVars

(***************************************************************************)
(* Properties.                                                             *)
(***************************************************************************)
\* What became of a job and its draft; "torn" when they disagree.
LifeOf(status, draft) ==
    IF draft = "none"
    THEN CASE status \in {"none", "deleted"} -> status
           [] status \in {"created", "failed"} -> "open"
           [] status = "cancelled" -> "rejected"
           [] OTHER -> "torn"
    ELSE CASE draft = "awaiting_confirmation" /\ status = draft -> "waiting"
           [] draft = "rejected" /\ status = "cancelled" -> "rejected"
           [] draft \in {"confirmed", "expired"} /\ status = draft -> draft
           [] OTHER -> "torn"

Life == [j \in JobIds |-> LifeOf(job[j], draftRow[j])]

Store == INSTANCE DraftStore WITH Jobs <- JobIds, Memories <- MemoryIds, Nobody <- NoRow,
    Bare <- BareRow, life <- Life, proposed <- proposedBy, holder <- memoryRow

\* Concurrent transactions, which lock the draft and the job in either order, read drafts
\* without a lock or keep what they read before, and are stopped anywhere, do with jobs,
\* drafts and memories only what the store of drafts allows, in one step each.  It is
\* Store!DraftStoreSpec: a step that leaves all variables here alone leaves those there.
IsDraftStore ==
    /\ Store!DraftStoreInit
    /\ [][UNCHANGED ingestionVars \/ Store!DraftStoreNext]_(Store!draftStoreVars)
=============================================================================
