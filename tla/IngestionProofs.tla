--------------------------- MODULE IngestionProofs ---------------------------
(***************************************************************************)
(* Proofs about Ingestion, for any number of transactions and of jobs: its *)
(* types, that the statuses of a job and its draft agree, and that the     *)
(* transactions implement DraftStore.                                      *)
(***************************************************************************)
EXTENDS Ingestion, TLAPS

WithJob == {"analysing", "expire draft", "cancel draft", "delete draft"}
WithDraft == {"expire job", "reject job", "insert", "confirm job"}
Deletable == {"confirmed", "failed", "cancelled", "expired"}

\* A transaction has the rows that it has locked.
HoldsAt(r, step, j) ==
    /\ step \in WithJob => locks[<<"job", j>>] = r
    /\ step \in WithDraft => locks[<<"draft", j>>] = r
    /\ step = "confirm job" => locks[<<"memory", proposedBy[j]>>] = r
    /\ step = "unlink" => locks[<<"memory", j>>] = r

Holds(r) ==
    (Begins(r) \/ request[r].of \in JobIds) /\ HoldsAt(r, request[r].step, request[r].of)

\* What it read in them is still so.
ReadsAt(step, j) ==
    /\ step = "analysing" => job[j] \in {"created", "failed"}
    /\ step \in {"expire draft", "cancel draft"} => Awaiting(j)
    /\ step = "delete draft" => job[j] \in Deletable /\ \A m \in MemoryIds : memoryRow[m] # j
    /\ step \in {"expire job", "reject job"} => DraftAwaiting(j)
    /\ step \in {"insert", "confirm job"} => draftRow[j] # "none"
    /\ step = "confirm job" => memoryRow[proposedBy[j]] = NoRow
    /\ step = "revise" => memoryRow[j] # NoRow \/ j \in erased
    /\ step = "unlink" => memoryRow[j] # NoRow

Reads(r) == ReadsAt(request[r].step, request[r].of)

\* The statuses of a job and its draft belong together.
Agree(j) ==
    \/ draftRow[j] = "none" /\ job[j] \in {"none", "created", "failed", "cancelled", "deleted"}
    \/ DraftAwaiting(j) /\ Awaiting(j)
    \/ draftRow[j] = "rejected" /\ job[j] = "cancelled"
    \/ draftRow[j] \in {"confirmed", "expired"} /\ job[j] = draftRow[j]

IngestionInv ==
    /\ IngestionTypeOK
    /\ \A r \in Requests : Holds(r) /\ Reads(r)
    /\ \A j \in JobIds : Agree(j) /\ (draftRow[j] # "none" => proposedBy[j] \in MemoryIds)

OnlyRowsOf(j) ==
    \A i \in JobIds \ {j} :
       job'[i] = job[i] /\ draftRow'[i] = draftRow[i] /\ proposedBy'[i] = proposedBy[i]

\* A step that writes rows of job j, and memories, spares what q has locked or read.
Spares(q, j) ==
    /\ request'[q] = request[q] /\ \A row \in Rows : locks[row] = q => locks'[row] = q
    /\ OnlyRowsOf(j)
    /\ job[j] \in {job'[j], "none"} \/ locks[<<"job", j>>] # q
    /\ draftRow[j] \in {draftRow'[j], "none"} \/ locks[<<"draft", j>>] # q
    /\ draftRow[j] = "none" \/ proposedBy'[j] = proposedBy[j]
    /\ erased \subseteq erased'
    /\ \A m \in MemoryIds : memoryRow'[m] = memoryRow[m] \/
          /\ locks[<<"memory", m>>] # q /\ memoryRow'[m] \in {NoRow, BareRow, j}
          /\ memoryRow'[m] = NoRow => m \in erased'
          /\ memoryRow'[m] = j => job[j] = "none" \/ locks[<<"job", j>>] # q

-----------------------------------------------------------------------------
(* What transactions have, and what they read. *)

LEMMA RowsOfJobs ==
    ASSUME NEW j \in JobIds
    PROVE  <<"job", j>> \in Rows /\ <<"draft", j>> \in Rows /\ <<"memory", j>> \in Rows
BY DEF Rows

LEMMA NumbersDiffer ==
    /\ NoRow \notin JobIds /\ BareRow \notin JobIds /\ NoRow # BareRow
    /\ MemoryIds = JobIds
BY IngestionAssumption DEF JobIds, MemoryIds, NoRow, BareRow

\* What a transaction is about to do after a step that goes on.
LEMMA GoesOnTo ==
    ASSUME IngestionTypeOK, NEW r \in Requests, NEW next, NEW j, GoesOn(r, next, j)
    PROVE  /\ request'[r].step = next /\ request'[r].of = j
           /\ \A q \in Requests \ {r} : request'[q] = request[q]
BY DEF GoesOn, IngestionTypeOK

LEMMA RequestsOf ==
    ASSUME NEW step \in TransactionSteps, NEW j \in JobIds
    PROVE  [step |-> step, of |-> j] \in [step : {"none"} \union TransactionSteps, of : 0..LastJob]
BY DEF JobIds

LEMMA IngestionInitInv == IngestionInit => IngestionInv
<1> SUFFICES ASSUME IngestionInit PROVE IngestionInv
  OBVIOUS
<1>1. NotBegun \in [step : {"none"} \union TransactionSteps, of : 0..LastJob]
  BY IngestionAssumption DEF NotBegun
<1>2. IngestionTypeOK
  BY <1>1, NumbersDiffer DEF IngestionInit, IngestionTypeOK, JobStatus, DraftStatus
<1>3. ASSUME NEW r \in Requests PROVE Holds(r) /\ Reads(r)
  <2>1. request[r] = NotBegun /\ request[r].step = "none"
    BY DEF IngestionInit, NotBegun
  <2>2. QED
    BY <2>1 DEF Holds, HoldsAt, Reads, ReadsAt, Begins, At, WithJob, WithDraft
<1>4. QED
  BY <1>2, <1>3 DEF IngestionInv, IngestionInit, Agree

\* A transaction that is spared keeps what it has and what it read.
LEMMA SparedKeeps ==
    ASSUME IngestionInv, NEW q \in Requests, NEW j \in JobIds, Spares(q, j)
    PROVE  Holds(q)' /\ Reads(q)'
<1> DEFINE i == request[q].of
<1>1. Holds(q) /\ Reads(q) /\ request'[q] = request[q]
  BY DEF IngestionInv, Spares
<1>2. CASE Begins(q)
  BY <1>1, <1>2 DEF Begins, NotBegun, Holds, HoldsAt, Reads, ReadsAt, At, WithJob, WithDraft
<1>3. CASE ~Begins(q)
  <2>1. i \in JobIds
    BY <1>1, <1>3 DEF Holds, HoldsAt
  <2>2. i \in MemoryIds /\ <<"job", i>> \in Rows /\ <<"draft", i>> \in Rows /\ <<"memory", i>> \in Rows
    BY <2>1, NumbersDiffer, RowsOfJobs
  <2>3. request[q].step \in WithDraft => draftRow[i] # "none" /\ draftRow'[i] = draftRow[i]
                                         /\ proposedBy'[i] = proposedBy[i]
    <3>1. request[q].step \in WithDraft => draftRow[i] # "none" /\ locks[<<"draft", i>>] = q
      BY <1>1, <2>1 DEF Holds, HoldsAt, Reads, ReadsAt, WithDraft, At, DraftAwaiting
    <3>2. QED
      BY <3>1, <2>1 DEF Spares, OnlyRowsOf
  <2>4. request[q].step \in WithJob => job'[i] = job[i] /\ job[i] # "none"
    <3>1. request[q].step \in WithJob => job[i] # "none" /\ locks[<<"job", i>>] = q
      BY <1>1, <2>1 DEF Holds, HoldsAt, Reads, ReadsAt, WithJob, At, Awaiting, Deletable
    <3>2. QED
      BY <3>1, <2>1 DEF Spares, OnlyRowsOf
  <2>5. At(q, "confirm job") => /\ proposedBy[i] \in MemoryIds
                                /\ <<"memory", proposedBy[i]>> \in Rows
    <3>1. At(q, "confirm job") => proposedBy[i] \in MemoryIds
      BY <1>1, <2>1 DEF IngestionInv, Reads, ReadsAt, At
    <3>2. QED
      BY <3>1, NumbersDiffer, RowsOfJobs
  <2>6. Holds(q)'
    <3>1. /\ request[q].step \in WithJob => locks'[<<"job", i>>] = q
          /\ request[q].step \in WithDraft => locks'[<<"draft", i>>] = q
          /\ At(q, "unlink") => locks'[<<"memory", i>>] = q
      BY <1>1, <2>2 DEF Holds, HoldsAt, Spares, At
    <3>2. At(q, "confirm job") => locks'[<<"memory", proposedBy'[i]>>] = q
      BY <1>1, <2>3, <2>5 DEF Holds, HoldsAt, Spares, At, WithDraft
    <3>3. QED
      BY <1>1, <1>3, <2>1, <3>1, <3>2 DEF Holds, HoldsAt, At, Begins
  <2>7. Reads(q)'
    <3>1. /\ At(q, "analysing") => job'[i] \in {"created", "failed"}
          /\ At(q, "expire draft") \/ At(q, "cancel draft") => Awaiting(i)'
      BY <1>1, <2>4 DEF Reads, ReadsAt, WithJob, At, Awaiting
    <3>2. ASSUME At(q, "delete draft")
          PROVE  job'[i] \in Deletable /\ \A m \in MemoryIds : memoryRow'[m] # i
      <4>1. job[i] \in Deletable /\ (\A m \in MemoryIds : memoryRow[m] # i) /\ job'[i] = job[i]
        BY <1>1, <2>4, <3>2 DEF Reads, ReadsAt, WithJob, At
      <4>2. locks[<<"job", i>>] = q
        BY <1>1, <3>2 DEF Holds, HoldsAt, At, WithJob
      <4>3. ASSUME NEW m \in MemoryIds PROVE memoryRow'[m] # i
        <5>1. /\ memoryRow'[m] \in {memoryRow[m], NoRow, BareRow, j}
              /\ memoryRow'[m] = j =>
                    memoryRow'[m] = memoryRow[m] \/ job[j] = "none" \/ locks[<<"job", j>>] # q
          BY DEF Spares
        <5>2. CASE i = j
          BY <4>1, <4>2, <5>1, <5>2, NumbersDiffer DEF Deletable
        <5>3. CASE i # j
          BY <4>1, <5>1, <5>3, <2>1, NumbersDiffer
        <5>4. QED
          BY <5>2, <5>3
      <4>4. QED
        BY <4>1, <4>3
    <3>3. /\ At(q, "expire job") \/ At(q, "reject job") => DraftAwaiting(i)'
          /\ At(q, "insert") \/ At(q, "confirm job") => draftRow'[i] # "none"
      BY <1>1, <2>3 DEF Reads, ReadsAt, WithDraft, At, DraftAwaiting
    <3>4. At(q, "confirm job") => memoryRow'[proposedBy'[i]] = NoRow
      BY <1>1, <2>3, <2>5 DEF Reads, ReadsAt, Holds, HoldsAt, Spares, At, WithDraft
    <3>5. At(q, "revise") => memoryRow'[i] # NoRow \/ i \in erased'
      BY <1>1, <2>2 DEF Reads, ReadsAt, Spares, At
    <3>6. At(q, "unlink") => memoryRow'[i] # NoRow
      BY <1>1, <2>2 DEF Reads, ReadsAt, Holds, HoldsAt, Spares, At
    <3>7. QED
      BY <1>1, <3>1, <3>2, <3>3, <3>4, <3>5, <3>6 DEF Reads, ReadsAt, At
  <2>8. QED
    BY <2>6, <2>7
<1>4. QED
  BY <1>2, <1>3

\* A transaction that ends takes nothing from the others, and has nothing itself.
LEMMA EndsFor ==
    ASSUME IngestionTypeOK, NEW r \in Requests, Ends(r)
    PROVE  /\ request' \in [Requests -> [step : {"none"} \union TransactionSteps, of : 0..LastJob]]
           /\ locks' \in [Rows -> Requests \union {NoRequest}]
           /\ \A q \in Requests \ {r} :
                 request'[q] = request[q] /\ \A row \in Rows : locks[row] = q => locks'[row] = q
           /\ Holds(r)' /\ Reads(r)'
<1>1. NotBegun \in [step : {"none"} \union TransactionSteps, of : 0..LastJob]
  BY IngestionAssumption DEF NotBegun
<1>2. request'[r] = NotBegun /\ request'[r].step = "none"
  BY DEF Ends, NotBegun, IngestionTypeOK
<1>3. Holds(r)' /\ Reads(r)'
  BY <1>2 DEF Holds, HoldsAt, Reads, ReadsAt, Begins, At, WithJob, WithDraft
<1>4. \A q \in Requests \ {r} :
         request'[q] = request[q] /\ \A row \in Rows : locks[row] = q => locks'[row] = q
  BY DEF Ends, IngestionTypeOK
<1>5. QED
  BY <1>1, <1>3, <1>4 DEF Ends, IngestionTypeOK

\* A step that leaves the rows alone keeps the invariant of the rows.
LEMMA RowsStay ==
    ASSUME IngestionInv, UNCHANGED rowVars
    PROVE  /\ \A j \in JobIds : Agree(j)' /\ (draftRow'[j] # "none" => proposedBy'[j] \in MemoryIds)
           /\ \A q \in Requests, j \in JobIds :
                 /\ request'[q] = request[q]
                 /\ \A row \in Rows : locks[row] = q => locks'[row] = q
                 => Spares(q, j)
BY DEF IngestionInv, rowVars, Agree, Awaiting, DraftAwaiting, Spares, OnlyRowsOf

\* The end of a transaction that wrote rows of job j and spared the others.
LEMMA WriteInv ==
    ASSUME IngestionInv, NEW r \in Requests, Ends(r), NEW j \in JobIds,
           \A q \in Requests \ {r} : Spares(q, j),
           /\ job' \in [JobIds -> JobStatus] /\ draftRow' \in [JobIds -> DraftStatus]
           /\ proposedBy' \in [JobIds -> {NoRow} \union MemoryIds] /\ due' \subseteq JobIds
           /\ memoryRow' \in [MemoryIds -> {NoRow, BareRow} \union JobIds]
           /\ erased' \subseteq MemoryIds,
           OnlyRowsOf(j), Agree(j)', draftRow'[j] # "none" => proposedBy'[j] \in MemoryIds
    PROVE  IngestionInv'
<1>1. IngestionTypeOK'
  BY EndsFor DEF IngestionTypeOK, IngestionInv
<1>2. \A q \in Requests : Holds(q)' /\ Reads(q)'
  BY EndsFor, SparedKeeps DEF IngestionInv
<1>3. \A i \in JobIds : Agree(i)' /\ (draftRow'[i] # "none" => proposedBy'[i] \in MemoryIds)
  BY DEF OnlyRowsOf, IngestionInv, Agree, Awaiting, DraftAwaiting
<1>4. QED
  BY <1>1, <1>2, <1>3 DEF IngestionInv

\* A transaction that locks a row, and has what its next step needs.
LEMMA LocksInv ==
    ASSUME IngestionInv, NEW r \in Requests, NEW row \in Rows, NEW next \in TransactionSteps,
           NEW j \in JobIds, LocksRow(r, row, next, j), ReadsAt(next, j), Holds(r)'
    PROVE  IngestionInv'
<1>1. [step |-> next, of |-> j] \in [step : {"none"} \union TransactionSteps, of : 0..LastJob]
  BY RequestsOf
<1>2. IngestionTypeOK'
  BY <1>1 DEF LocksRow, GoesOn, rowVars, IngestionInv, IngestionTypeOK
<1>3. ASSUME NEW q \in Requests \ {r} PROVE Spares(q, j)
  <2>1. request'[q] = request[q] /\ q # NoRequest
    BY IngestionAssumption, GoesOnTo DEF LocksRow, IngestionInv
  <2>2. \A held \in Rows : locks[held] = q => locks'[held] = q
    BY <2>1 DEF LocksRow, Available, IngestionInv, IngestionTypeOK
  <2>3. QED
    BY <2>1, <2>2, RowsStay DEF LocksRow
<1>4. ReadsAt(next, j)'
  BY DEF ReadsAt, LocksRow, rowVars, Awaiting, DraftAwaiting
<1>5. Reads(r)'
  BY <1>4, GoesOnTo DEF Reads, LocksRow, IngestionInv
<1>6. \A q \in Requests : Holds(q)' /\ Reads(q)'
  BY <1>3, <1>5, SparedKeeps
<1>7. QED
  BY <1>2, <1>6, RowsStay DEF IngestionInv, LocksRow

\* A first lock is all that the next step needs.
LEMMA FirstLockInv ==
    ASSUME IngestionInv, NEW r \in Requests, NEW j \in JobIds, NEW row, NEW next \in TransactionSteps,
           LocksRow(r, row, next, j), ReadsAt(next, j),
           \/ row = <<"job", j>> /\ next \in WithJob
           \/ row = <<"draft", j>> /\ next \in WithDraft \ {"confirm job"}
           \/ row = <<"memory", j>> /\ next = "unlink"
    PROVE  IngestionInv'
<1>1. row \in Rows
  BY RowsOfJobs
<1>2. locks'[row] = r
  BY <1>1 DEF LocksRow, IngestionInv, IngestionTypeOK
<1>3. HoldsAt(r, next, j)'
  BY <1>2 DEF HoldsAt, WithJob, WithDraft
<1>4. Holds(r)'
  BY <1>3, GoesOnTo DEF Holds, LocksRow, IngestionInv
<1>5. QED
  BY <1>1, <1>4, LocksInv

-----------------------------------------------------------------------------
(* The first steps of transactions. *)

LEMMA FirstLocksInv ==
    ASSUME IngestionInv, NEW r \in Requests, NEW j \in JobIds,
           \/ Analyze(r, j) \/ GetJob(r, j) \/ CancelWaiting(r, j) \/ DeleteJob(r, j)
           \/ GetDraft(r, j) \/ Reject(r, j) \/ Confirms(r, j)
    PROVE  IngestionInv'
<1> USE DEF TransactionSteps, WithJob, WithDraft
<1>1. CASE Analyze(r, j)
  <2>1. LocksRow(r, <<"job", j>>, "analysing", j) /\ ReadsAt("analysing", j)
    BY <1>1 DEF Analyze, ReadsAt
  <2>2. QED
    BY <2>1, FirstLockInv
<1>2. CASE GetJob(r, j)
  <2>1. LocksRow(r, <<"job", j>>, "expire draft", j) /\ ReadsAt("expire draft", j)
    BY <1>2 DEF GetJob, ReadsAt
  <2>2. QED
    BY <2>1, FirstLockInv
<1>3. CASE CancelWaiting(r, j)
  <2>1. LocksRow(r, <<"job", j>>, "cancel draft", j) /\ ReadsAt("cancel draft", j)
    BY <1>3 DEF CancelWaiting, ReadsAt
  <2>2. QED
    BY <2>1, FirstLockInv
<1>4. CASE DeleteJob(r, j)
  <2>1. LocksRow(r, <<"job", j>>, "delete draft", j) /\ ReadsAt("delete draft", j)
    BY <1>4 DEF DeleteJob, ReadsAt, Deletable
  <2>2. QED
    BY <2>1, FirstLockInv
<1>5. CASE GetDraft(r, j)
  <2>1. LocksRow(r, <<"draft", j>>, "expire job", j) /\ ReadsAt("expire job", j)
    BY <1>5 DEF GetDraft, ReadsAt
  <2>2. QED
    BY <2>1, FirstLockInv
<1>6. CASE Reject(r, j)
  <2>1. LocksRow(r, <<"draft", j>>, "reject job", j) /\ ReadsAt("reject job", j)
    BY <1>6 DEF Reject, ReadsAt
  <2>2. QED
    BY <2>1, FirstLockInv
<1>7. CASE Confirms(r, j)
  <2>1. LocksRow(r, <<"draft", j>>, "insert", j) /\ ReadsAt("insert", j)
    BY <1>7 DEF Confirms, ReadsAt, DraftAwaiting
  <2>2. QED
    BY <2>1, FirstLockInv
<1>8. QED
  BY <1>1, <1>2, <1>3, <1>4, <1>5, <1>6, <1>7

LEMMA MemoryLocksInv ==
    ASSUME IngestionInv, NEW r \in Requests, NEW m \in MemoryIds,
           SaveMemory(r, m) \/ DeleteMemory(r, m)
    PROVE  IngestionInv'
<1> USE NumbersDiffer
<1>1. CASE DeleteMemory(r, m)
  <2>1. LocksRow(r, <<"memory", m>>, "unlink", m) /\ ReadsAt("unlink", m)
    BY <1>1 DEF DeleteMemory, ReadsAt
  <2>2. QED
    BY <2>1, FirstLockInv DEF TransactionSteps
<1>2. CASE SaveMemory(r, m)
  <2>1. PICK next \in {"revise", "saved draft", "new draft"}, j \in JobIds :
           GoesOn(r, next, j) /\ ReadsAt(next, j)
    BY <1>2 DEF SaveMemory, ReadsAt
  <2>2. UNCHANGED rowVars /\ UNCHANGED locks
    BY <1>2 DEF SaveMemory
  <2>3. /\ request'[r].step = next /\ request'[r].of = j
        /\ \A q \in Requests \ {r} : request'[q] = request[q]
    BY <2>1, GoesOnTo DEF IngestionInv
  <2>4. [step |-> next, of |-> j] \in [step : {"none"} \union TransactionSteps, of : 0..LastJob]
    <3>1. next \in TransactionSteps
      BY DEF TransactionSteps
    <3>2. QED
      BY <3>1, RequestsOf
  <2>5. IngestionTypeOK'
    BY <2>1, <2>2, <2>4 DEF GoesOn, rowVars, IngestionInv, IngestionTypeOK
  <2>6. Holds(r)' /\ Reads(r)'
    <3>1. HoldsAt(r, next, j)'
      BY <2>1 DEF HoldsAt, WithJob, WithDraft
    <3>2. ReadsAt(next, j)'
      BY <2>1, <2>2 DEF ReadsAt, rowVars, Awaiting, DraftAwaiting
    <3>3. QED
      BY <2>3, <3>1, <3>2 DEF Holds, Reads
  <2>7. ASSUME NEW q \in Requests \ {r} PROVE Holds(q)' /\ Reads(q)'
    <3>1. request'[q] = request[q]
      BY <2>3
    <3>2. QED
      BY <2>2, <3>1, RowsStay, SparedKeeps
  <2>8. QED
    BY <2>2, <2>5, <2>6, <2>7, RowsStay DEF IngestionInv
<1>3. QED
  BY <1>1, <1>2

LEMMA LaterLocksInv ==
    ASSUME IngestionInv, NEW r \in Requests, Insert(r) \/ SavedDraft(r)
    PROVE  IngestionInv'
<1>1. ~Begins(r)
  <2>1. Begins(r) => request[r].step = "none"
    BY DEF Begins, NotBegun
  <2>2. QED
    BY <2>1 DEF Insert, SavedDraft, LocksRow, At
<1>2. PICK j \in JobIds : j = request[r].of
  BY <1>1 DEF IngestionInv, Holds
<1>3. CASE SavedDraft(r)
  <2>1. LocksRow(r, <<"draft", j>>, "insert", j) /\ ReadsAt("insert", j)
    BY <1>2, <1>3 DEF SavedDraft, ReadsAt
  <2>2. QED
    BY <2>1, FirstLockInv DEF TransactionSteps, WithDraft
<1>4. CASE Insert(r)
  <2>1. LocksRow(r, <<"memory", proposedBy[j]>>, "confirm job", j) /\ memoryRow[proposedBy[j]] = NoRow
    BY <1>2, <1>4 DEF Insert
  <2>2. locks[<<"draft", j>>] = r /\ draftRow[j] # "none"
    BY <1>2, <1>4 DEF Insert, IngestionInv, Holds, HoldsAt, Reads, ReadsAt, At, WithDraft
  <2>3. PICK m \in MemoryIds : m = proposedBy[j]
    BY <2>2 DEF IngestionInv
  <2>4. <<"memory", m>> \in Rows /\ <<"draft", j>> \in Rows
    BY <2>3, NumbersDiffer, RowsOfJobs
  <2>5. locks'[<<"memory", m>>] = r /\ locks'[<<"draft", j>>] = r
    BY <2>1, <2>2, <2>3, <2>4 DEF LocksRow, IngestionInv, IngestionTypeOK
  <2>6. HoldsAt(r, "confirm job", j)'
    <3>1. proposedBy'[j] = m
      BY <2>1, <2>3 DEF LocksRow, rowVars
    <3>2. QED
      BY <2>5, <3>1 DEF HoldsAt, WithJob, WithDraft
  <2>7. Holds(r)'
    BY <2>1, <2>6, GoesOnTo DEF Holds, LocksRow, IngestionInv
  <2>8. ReadsAt("confirm job", j)
    BY <2>1, <2>2 DEF ReadsAt
  <2>9. QED
    BY <2>1, <2>3, <2>4, <2>7, <2>8, LocksInv DEF TransactionSteps
<1>5. QED
  BY <1>3, <1>4

-----------------------------------------------------------------------------
(* The steps that write. *)

\* What a step that writes rows of job j may write, given the locks that r has or may have.
MayWrite(r, j) ==
    /\ OnlyRowsOf(j)
    /\ job[j] \in {job'[j], "none"} \/ Available(r, <<"job", j>>)
    /\ draftRow[j] \in {draftRow'[j], "none"} \/ Available(r, <<"draft", j>>)
    /\ draftRow[j] = "none" \/ proposedBy'[j] = proposedBy[j]
    /\ erased \subseteq erased'
    /\ \A m \in MemoryIds : memoryRow'[m] = memoryRow[m] \/
          /\ Available(r, <<"memory", m>>) /\ memoryRow'[m] \in {NoRow, BareRow, j}
          /\ memoryRow'[m] = NoRow => m \in erased'
          /\ memoryRow'[m] = j => job[j] = "none" \/ Available(r, <<"job", j>>)

\* What the rows are after the step.
RowsAgree(j) ==
    /\ job' \in [JobIds -> JobStatus] /\ draftRow' \in [JobIds -> DraftStatus]
    /\ proposedBy' \in [JobIds -> {NoRow} \union MemoryIds] /\ due' \subseteq JobIds
    /\ memoryRow' \in [MemoryIds -> {NoRow, BareRow} \union JobIds] /\ erased' \subseteq MemoryIds
    /\ Agree(j)' /\ (draftRow'[j] # "none" => proposedBy'[j] \in MemoryIds)

LEMMA MayWriteSpares ==
    ASSUME IngestionInv, NEW r \in Requests, NEW j \in JobIds, MayWrite(r, j),
           NEW q \in Requests \ {r}, request'[q] = request[q],
           \A row \in Rows : locks[row] = q => locks'[row] = q
    PROVE  Spares(q, j)
<1>1. \A row : Available(r, row) => locks[row] # q
  BY IngestionAssumption DEF Available
<1>2. QED
  BY <1>1 DEF MayWrite, Spares

LEMMA EndInv ==
    ASSUME IngestionInv, NEW r \in Requests, Ends(r), NEW j \in JobIds, MayWrite(r, j), RowsAgree(j)
    PROVE  IngestionInv'
<1>1. \A q \in Requests \ {r} : Spares(q, j)
  BY EndsFor, MayWriteSpares DEF IngestionInv
<1>2. QED
  BY <1>1, WriteInv DEF MayWrite, RowsAgree

\* A step that is a transaction of its own: r has not begun, if there is one at all.
LEMMA AloneInv ==
    ASSUME IngestionInv, UNCHANGED <<locks, request>>, NEW j \in JobIds, RowsAgree(j),
           OnlyRowsOf(j),
           \/ \A q \in Requests : Spares(q, j)
           \/ \E r \in Requests : Begins(r) /\ MayWrite(r, j)
    PROVE  IngestionInv'
<1>1. IngestionTypeOK'
  BY DEF IngestionTypeOK, IngestionInv, RowsAgree
<1>2. ASSUME NEW q \in Requests PROVE Holds(q)' /\ Reads(q)'
  <2>1. CASE Spares(q, j)
    BY <2>1, SparedKeeps
  <2>2. CASE \E r \in Requests : Begins(r) /\ MayWrite(r, j)
    <3>1. PICK r \in Requests : Begins(r) /\ MayWrite(r, j)
      BY <2>2
    <3>2. CASE q = r
      <4>1. Begins(q)' /\ request'[q].step = "none"
        BY <3>1, <3>2 DEF Begins, NotBegun
      <4>2. QED
        BY <4>1 DEF Holds, HoldsAt, Reads, ReadsAt, WithJob, WithDraft
    <3>3. CASE q # r
      <4>1. Spares(q, j)
        BY <3>1, <3>3, MayWriteSpares
      <4>2. QED
        BY <4>1, SparedKeeps
    <3>4. QED
      BY <3>2, <3>3
  <2>3. QED
    BY <2>1, <2>2
<1>3. \A i \in JobIds : Agree(i)' /\ (draftRow'[i] # "none" => proposedBy'[i] \in MemoryIds)
  BY DEF OnlyRowsOf, IngestionInv, Agree, Awaiting, DraftAwaiting, RowsAgree
<1>4. QED
  BY <1>1, <1>2, <1>3 DEF IngestionInv

\* An analysis ends for a job that has no draft.
LEMMA AnalysisAgrees ==
    ASSUME IngestionInv, NEW j \in JobIds, AnalysisLeads(j), draftRow[j] = "none",
           UNCHANGED <<due, memoryRow, erased>>
    PROVE  OnlyRowsOf(j) /\ RowsAgree(j)
<1>1. OnlyRowsOf(j)
  BY DEF AnalysisLeads, OnlyRowsOf, JobBecomes, DraftBecomes, IngestionInv, IngestionTypeOK
<1>2. CASE JobBecomes(j, "failed") /\ UNCHANGED <<draftRow, proposedBy>>
  <2>1. job'[j] = "failed" /\ draftRow'[j] = "none" /\ job' \in [JobIds -> JobStatus]
    BY <1>2 DEF JobBecomes, IngestionInv, IngestionTypeOK, JobStatus
  <2>2. Agree(j)'
    BY <2>1 DEF Agree
  <2>3. QED
    BY <1>1, <1>2, <2>1, <2>2 DEF RowsAgree, IngestionInv, IngestionTypeOK
<1>3. CASE /\ JobBecomes(j, "awaiting_confirmation") /\ DraftBecomes(j, "awaiting_confirmation")
           /\ proposedBy' = [proposedBy EXCEPT ![j] = j]
  <2>1. /\ Awaiting(j)' /\ job' \in [JobIds -> JobStatus]
        /\ DraftAwaiting(j)' /\ draftRow' \in [JobIds -> DraftStatus]
    BY <1>3 DEF Awaiting, DraftAwaiting, JobBecomes, DraftBecomes, IngestionInv, IngestionTypeOK,
       JobStatus, DraftStatus
  <2>2. proposedBy'[j] \in MemoryIds /\ proposedBy' \in [JobIds -> {NoRow} \union MemoryIds]
    BY <1>3, NumbersDiffer DEF IngestionInv, IngestionTypeOK
  <2>3. QED
    BY <1>1, <2>1, <2>2 DEF RowsAgree, Agree, IngestionInv, IngestionTypeOK
<1>4. QED
  BY <1>1, <1>2, <1>3 DEF AnalysisLeads

\* Both statuses change, to ones that agree.
LEMMA BothBecome ==
    ASSUME IngestionInv, NEW j \in JobIds, NEW status \in JobStatus, NEW draft \in DraftStatus,
           JobBecomes(j, status), DraftBecomes(j, draft),
           UNCHANGED <<proposedBy, due, memoryRow, erased>>,
           \/ draft = "none" /\ status = "deleted"
           \/ draft = "rejected" /\ status = "cancelled"
           \/ draft \in {"confirmed", "expired"} /\ status = draft,
           draftRow[j] # "none" \/ draft = "none"
    PROVE  OnlyRowsOf(j) /\ RowsAgree(j)
<1>1. OnlyRowsOf(j)
  BY DEF OnlyRowsOf, JobBecomes, DraftBecomes, IngestionInv, IngestionTypeOK
<1>2. job'[j] = status /\ draftRow'[j] = draft
  BY DEF JobBecomes, DraftBecomes, IngestionInv, IngestionTypeOK
<1>3. Agree(j)' /\ (draftRow'[j] # "none" => proposedBy'[j] \in MemoryIds)
  BY <1>2 DEF Agree, IngestionInv
<1>4. QED
  BY <1>1, <1>3 DEF RowsAgree, JobBecomes, DraftBecomes, IngestionInv, IngestionTypeOK

LEMMA UnderWay ==
    ASSUME IngestionInv, NEW r \in Requests, NEW step, At(r, step), step # "none"
    PROVE  /\ ~Begins(r)
           /\ \E j \in JobIds : j = request[r].of /\ HoldsAt(r, step, j) /\ ReadsAt(step, j)
<1>1. ~Begins(r)
  <2>1. Begins(r) => request[r].step = "none"
    BY DEF Begins, NotBegun
  <2>2. QED
    BY <2>1 DEF At
<1>2. QED
  BY <1>1 DEF At, IngestionInv, Holds, Reads

\* A transaction that has a row may write it.
LEMMA HeldIsAvailable ==
    ASSUME NEW r, NEW row, locks[row] = r
    PROVE  Available(r, row)
BY DEF Available

\* What becomes of job j in the store of drafts.
LEMMA LifeBecomes ==
    ASSUME NEW j \in JobIds, OnlyRowsOf(j), NEW before, NEW after,
           LifeOf(job[j], draftRow[j]) \in before, LifeOf(job'[j], draftRow'[j]) = after
    PROVE  Store!Becomes(j, before, after)
<1>1. Life[j] \in before
  BY DEF Life
<1>2. Life' = [Life EXCEPT ![j] = after]
  BY DEF Life, OnlyRowsOf
<1>3. QED
  BY <1>1, <1>2 DEF Store!Becomes

LEMMA LifeStays == ASSUME UNCHANGED <<job, draftRow>> PROVE Life' = Life
BY DEF Life

\* Both statuses of a job change, with the locks of both rows.
LEMMA BothWritten ==
    ASSUME IngestionInv, NEW r \in Requests, NEW j \in JobIds, Ends(r),
           NEW status \in JobStatus, NEW draft \in DraftStatus,
           JobBecomes(j, status), DraftBecomes(j, draft),
           UNCHANGED <<proposedBy, due, memoryRow, erased>>,
           \/ draft = "none" /\ status = "deleted"
           \/ draft = "rejected" /\ status = "cancelled"
           \/ draft = "expired" /\ status = draft,
           draftRow[j] # "none" \/ draft = "none",
           Available(r, <<"job", j>>), Available(r, <<"draft", j>>)
    PROVE  IngestionInv' /\ OnlyRowsOf(j) /\ job'[j] = status /\ draftRow'[j] = draft
<1>1. OnlyRowsOf(j) /\ RowsAgree(j)
  BY BothBecome
<1>2. MayWrite(r, j)
  BY <1>1 DEF MayWrite
<1>3. job'[j] = status /\ draftRow'[j] = draft
  BY DEF JobBecomes, DraftBecomes, IngestionInv, IngestionTypeOK
<1>4. QED
  BY <1>1, <1>2, <1>3, EndInv

\* Both expire, or are rejected.
LEMMA EndOfDraft ==
    ASSUME IngestionInv, NEW r \in Requests, NEW j \in JobIds, Ends(r), Awaiting(j), DraftAwaiting(j),
           Available(r, <<"job", j>>), Available(r, <<"draft", j>>),
           UNCHANGED <<proposedBy, due, memoryRow, erased>>,
           \/ DraftBecomes(j, "expired") /\ JobBecomes(j, "expired")
           \/ DraftBecomes(j, "rejected") /\ JobBecomes(j, "cancelled")
    PROVE  IngestionInv' /\ (Store!Expire(j) \/ Store!Withdraw(j))
<1>1. LifeOf(job[j], draftRow[j]) = "waiting" /\ draftRow[j] # "none"
  BY DEF LifeOf, Awaiting, DraftAwaiting
<1>2. CASE DraftBecomes(j, "expired") /\ JobBecomes(j, "expired")
  <2>1. "expired" \in JobStatus /\ "expired" \in DraftStatus
    BY DEF JobStatus, DraftStatus
  <2>2. IngestionInv' /\ OnlyRowsOf(j) /\ job'[j] = "expired" /\ draftRow'[j] = "expired"
    BY <1>1, <1>2, <2>1, BothWritten
  <2>3. LifeOf(job'[j], draftRow'[j]) = "expired"
    BY <2>2 DEF LifeOf
  <2>4. Store!Becomes(j, {"waiting"}, "expired")
    BY <1>1, <2>2, <2>3, LifeBecomes
  <2>5. QED
    BY <2>2, <2>4 DEF Store!Expire
<1>3. CASE DraftBecomes(j, "rejected") /\ JobBecomes(j, "cancelled")
  <2>1. "cancelled" \in JobStatus /\ "rejected" \in DraftStatus
    BY DEF JobStatus, DraftStatus
  <2>2. IngestionInv' /\ OnlyRowsOf(j) /\ job'[j] = "cancelled" /\ draftRow'[j] = "rejected"
    BY <1>1, <1>3, <2>1, BothWritten
  <2>3. LifeOf(job'[j], draftRow'[j]) = "rejected"
    BY <2>2 DEF LifeOf
  <2>4. Store!Becomes(j, {"open", "waiting"}, "rejected")
    BY <1>1, <2>2, <2>3, LifeBecomes
  <2>5. QED
    BY <2>2, <2>4 DEF Store!Withdraw
<1>4. QED
  BY <1>2, <1>3

\* A transaction that has locked one of the two rows, and waited for the other.
LEMMA EndsOfDrafts ==
    ASSUME IngestionInv, NEW r \in Requests,
           \/ ExpireDraft(r) \/ CancelDraft(r) \/ ExpireJob(r)
           \/ RejectJob(r) /\ Awaiting(request[r].of)
    PROVE  IngestionInv' /\ \E j \in JobIds : Store!Expire(j) \/ Store!Withdraw(j)
<1>1. PICK step \in {"expire draft", "cancel draft", "expire job", "reject job"} : At(r, step)
  BY DEF ExpireDraft, CancelDraft, ExpireJob, RejectJob
<1>2. PICK j \in JobIds : j = request[r].of /\ HoldsAt(r, step, j) /\ ReadsAt(step, j)
  BY <1>1, UnderWay
<1>3. /\ ExpireDraft(r) \/ CancelDraft(r) => Available(r, <<"draft", j>>)
      /\ ExpireJob(r) \/ RejectJob(r) => Available(r, <<"job", j>>)
      /\ ExpireDraft(r) \/ CancelDraft(r) => step \in {"expire draft", "cancel draft"}
      /\ ExpireJob(r) \/ RejectJob(r) => step \in {"expire job", "reject job"}
  BY <1>1, <1>2 DEF ExpireDraft, CancelDraft, ExpireJob, RejectJob, At
<1>4. /\ step \in {"expire draft", "cancel draft"} => locks[<<"job", j>>] = r /\ Awaiting(j)
      /\ step \in {"expire job", "reject job"} => locks[<<"draft", j>>] = r /\ DraftAwaiting(j)
  BY <1>2 DEF HoldsAt, ReadsAt, WithJob, WithDraft
<1>5. Available(r, <<"job", j>>) /\ Available(r, <<"draft", j>>)
  BY <1>3, <1>4, HeldIsAvailable
<1>6. Awaiting(j) <=> DraftAwaiting(j)
  BY DEF IngestionInv, Agree, Awaiting, DraftAwaiting
<1>7. Awaiting(j) /\ DraftAwaiting(j)
  BY <1>1, <1>4, <1>6
<1>8. /\ Ends(r) /\ UNCHANGED <<proposedBy, due, memoryRow, erased>>
      /\ \/ DraftBecomes(j, "expired") /\ JobBecomes(j, "expired")
         \/ DraftBecomes(j, "rejected") /\ JobBecomes(j, "cancelled")
  BY <1>2, <1>7 DEF ExpireDraft, CancelDraft, ExpireJob, RejectJob
<1>9. QED
  BY <1>5, <1>7, <1>8, EndOfDraft

\* A transaction that writes nothing ends.
LEMMA EndsOnly ==
    ASSUME IngestionInv, NEW r \in Requests, ~Begins(r), Ends(r), UNCHANGED rowVars
    PROVE  IngestionInv' /\ UNCHANGED Store!draftStoreVars
<1>1. PICK j \in JobIds : j = request[r].of
  BY DEF IngestionInv, Holds
<1>2. MayWrite(r, j)
  BY DEF MayWrite, OnlyRowsOf, rowVars
<1>3. RowsAgree(j)
  BY RowsStay DEF RowsAgree, IngestionInv, IngestionTypeOK, rowVars
<1>4. QED
  BY <1>2, <1>3, EndInv, LifeStays DEF rowVars, Store!draftStoreVars

\* An analysis ends for a job that has not ended.
LEMMA AnalysisIs ==
    ASSUME IngestionInv, NEW j \in JobIds, AnalysisLeads(j), job[j] \in {"none", "created", "failed"},
           UNCHANGED <<due, memoryRow, erased>>
    PROVE  OnlyRowsOf(j) /\ RowsAgree(j) /\ (Store!Open(j) \/ \E m \in MemoryIds : Store!Propose(j, m))
<1>1. draftRow[j] = "none"
  BY DEF IngestionInv, Agree, Awaiting, DraftAwaiting
<1>2. OnlyRowsOf(j) /\ RowsAgree(j)
  BY <1>1, AnalysisAgrees
<1>3. LifeOf(job[j], draftRow[j]) \in {"none", "open"}
  BY <1>1 DEF LifeOf
<1>4. CASE JobBecomes(j, "failed") /\ UNCHANGED <<draftRow, proposedBy>>
  <2>1. job'[j] = "failed" /\ draftRow'[j] = "none"
    BY <1>1, <1>4 DEF JobBecomes, IngestionInv, IngestionTypeOK
  <2>2. LifeOf(job'[j], draftRow'[j]) = "open"
    BY <2>1 DEF LifeOf
  <2>3. Store!Becomes(j, {"none", "open"}, "open")
    BY <1>2, <1>3, <2>2, LifeBecomes
  <2>4. QED
    BY <1>2, <1>4, <2>3 DEF Store!Open
<1>5. CASE /\ JobBecomes(j, "awaiting_confirmation") /\ DraftBecomes(j, "awaiting_confirmation")
           /\ proposedBy' = [proposedBy EXCEPT ![j] = j]
  <2>1. job'[j] = "awaiting_confirmation" /\ draftRow'[j] = "awaiting_confirmation"
    BY <1>5 DEF JobBecomes, DraftBecomes, IngestionInv, IngestionTypeOK
  <2>2. LifeOf(job'[j], draftRow'[j]) = "waiting"
    BY <2>1 DEF LifeOf
  <2>3. Store!Becomes(j, {"none", "open"}, "waiting")
    BY <1>2, <1>3, <2>2, LifeBecomes
  <2>4. Store!Propose(j, j)
    BY <1>5, <2>3 DEF Store!Propose
  <2>5. QED
    BY <1>2, <2>4, NumbersDiffer
<1>6. QED
  BY <1>4, <1>5 DEF AnalysisLeads

LEMMA AnalysisEndsIs ==
    ASSUME IngestionInv, NEW r \in Requests, AnalysisEnds(r)
    PROVE  IngestionInv' /\ \E j \in JobIds : Store!Open(j) \/ \E m \in MemoryIds : Store!Propose(j, m)
<1>1. At(r, "analysing")
  BY DEF AnalysisEnds
<1>2. PICK j \in JobIds :
         j = request[r].of /\ HoldsAt(r, "analysing", j) /\ ReadsAt("analysing", j)
  BY <1>1, UnderWay
<1>3. locks[<<"job", j>>] = r /\ job[j] \in {"created", "failed"}
  BY <1>2 DEF HoldsAt, ReadsAt, WithJob
<1>4. AnalysisLeads(j) /\ Ends(r) /\ UNCHANGED <<due, memoryRow, erased>>
  BY <1>2 DEF AnalysisEnds
<1>5. OnlyRowsOf(j) /\ RowsAgree(j) /\ (Store!Open(j) \/ \E m \in MemoryIds : Store!Propose(j, m))
  BY <1>3, <1>4, AnalysisIs
<1>6. draftRow[j] = "none"
  BY <1>3 DEF IngestionInv, Agree, Awaiting, DraftAwaiting
<1>7. MayWrite(r, j)
  BY <1>3, <1>4, <1>5, <1>6, HeldIsAvailable DEF MayWrite
<1>8. QED
  BY <1>4, <1>5, <1>7, EndInv

LEMMA CreateJobIs ==
    ASSUME IngestionInv, NEW j \in JobIds, CreateJob(j)
    PROVE  IngestionInv' /\ (Store!Open(j) \/ \E m \in MemoryIds : Store!Propose(j, m))
<1>1. job[j] = "none" /\ UNCHANGED <<due, memoryRow, erased, locks, request>>
  BY DEF CreateJob, NextJob
<1>2. draftRow[j] = "none"
  BY <1>1 DEF IngestionInv, Agree, Awaiting, DraftAwaiting
<1>3. /\ OnlyRowsOf(j) /\ RowsAgree(j)
      /\ Store!Open(j) \/ \E m \in MemoryIds : Store!Propose(j, m)
  <2>1. CASE JobBecomes(j, "created") /\ UNCHANGED <<draftRow, proposedBy>>
    <3>1. job'[j] = "created" /\ draftRow'[j] = "none" /\ job' \in [JobIds -> JobStatus]
      BY <1>2, <2>1 DEF JobBecomes, IngestionInv, IngestionTypeOK, JobStatus
    <3>2. OnlyRowsOf(j)
      BY <2>1 DEF OnlyRowsOf, JobBecomes, IngestionInv, IngestionTypeOK
    <3>3. RowsAgree(j)
      BY <1>1, <2>1, <3>1 DEF RowsAgree, Agree, IngestionInv, IngestionTypeOK
    <3>4. LifeOf(job[j], draftRow[j]) \in {"none", "open"} /\ LifeOf(job'[j], draftRow'[j]) = "open"
      BY <1>1, <1>2, <3>1 DEF LifeOf
    <3>5. Store!Becomes(j, {"none", "open"}, "open")
      BY <3>2, <3>4, LifeBecomes
    <3>6. QED
      BY <1>1, <2>1, <3>2, <3>3, <3>5 DEF Store!Open
  <2>2. CASE AnalysisLeads(j)
    BY <1>1, <2>2, AnalysisIs
  <2>3. QED
    BY <2>1, <2>2 DEF CreateJob
<1>4. \A q \in Requests : Spares(q, j)
  BY <1>1, <1>2, <1>3 DEF Spares
<1>5. QED
  BY <1>1, <1>3, <1>4, AloneInv

LEMMA DraftFallsDueInv ==
    ASSUME IngestionInv, NEW j \in JobIds, DraftFallsDue(j)
    PROVE  IngestionInv' /\ UNCHANGED Store!draftStoreVars
<1>1. UNCHANGED <<job, draftRow, proposedBy, memoryRow, erased, locks, request>> /\ due' \subseteq JobIds
  BY DEF DraftFallsDue, IngestionInv, IngestionTypeOK
<1>2. OnlyRowsOf(j) /\ RowsAgree(j)
  BY <1>1 DEF OnlyRowsOf, RowsAgree, IngestionInv, IngestionTypeOK, Agree, Awaiting, DraftAwaiting
<1>3. \A q \in Requests : Spares(q, j)
  BY <1>1, <1>2 DEF Spares
<1>4. QED
  BY <1>1, <1>2, <1>3, AloneInv, LifeStays DEF Store!draftStoreVars

LEMMA CancelIs ==
    ASSUME IngestionInv, NEW r \in Requests, NEW j \in JobIds, Cancel(r, j)
    PROVE  IngestionInv' /\ Store!Withdraw(j)
<1>1. job[j] \in {"created", "failed"} /\ draftRow[j] = "none"
  BY DEF Cancel, IngestionInv, Agree, Awaiting, DraftAwaiting
<1>2. /\ JobBecomes(j, "cancelled") /\ Begins(r) /\ Available(r, <<"job", j>>)
      /\ UNCHANGED <<draftRow, proposedBy, due, memoryRow, erased, locks, request>>
  BY DEF Cancel
<1>3. job'[j] = "cancelled" /\ draftRow'[j] = "none" /\ job' \in [JobIds -> JobStatus]
  BY <1>1, <1>2 DEF JobBecomes, IngestionInv, IngestionTypeOK, JobStatus
<1>4. OnlyRowsOf(j)
  BY <1>2 DEF OnlyRowsOf, JobBecomes, IngestionInv, IngestionTypeOK
<1>5. RowsAgree(j)
  BY <1>2, <1>3 DEF RowsAgree, Agree, IngestionInv, IngestionTypeOK
<1>6. MayWrite(r, j)
  BY <1>2, <1>4 DEF MayWrite
<1>7. IngestionInv'
  BY <1>2, <1>4, <1>5, <1>6, AloneInv
<1>8. LifeOf(job[j], draftRow[j]) \in {"open", "waiting"} /\ LifeOf(job'[j], draftRow'[j]) = "rejected"
  BY <1>1, <1>3 DEF LifeOf
<1>9. Store!Becomes(j, {"open", "waiting"}, "rejected")
  BY <1>4, <1>8, LifeBecomes
<1>10. QED
  BY <1>2, <1>7, <1>9 DEF Store!Withdraw

LEMMA DeleteDraftIs ==
    ASSUME IngestionInv, NEW r \in Requests, DeleteDraft(r)
    PROVE  IngestionInv' /\ \E j \in JobIds : Store!Forget(j)
<1>1. At(r, "delete draft")
  BY DEF DeleteDraft
<1>2. PICK j \in JobIds :
         j = request[r].of /\ HoldsAt(r, "delete draft", j) /\ ReadsAt("delete draft", j)
  BY <1>1, UnderWay
<1>3. /\ locks[<<"job", j>>] = r /\ Available(r, <<"job", j>>)
      /\ job[j] \in Deletable /\ \A m \in MemoryIds : memoryRow[m] # j
  BY <1>2, HeldIsAvailable DEF HoldsAt, ReadsAt, WithJob
<1>4. /\ Available(r, <<"draft", j>>) /\ Ends(r) /\ UNCHANGED <<proposedBy, due, memoryRow, erased>>
      /\ DraftBecomes(j, "none") /\ JobBecomes(j, "deleted")
  BY <1>2 DEF DeleteDraft
<1>5. "deleted" \in JobStatus /\ "none" \in DraftStatus
  BY DEF JobStatus, DraftStatus
<1>6. IngestionInv' /\ OnlyRowsOf(j) /\ job'[j] = "deleted" /\ draftRow'[j] = "none"
  BY <1>3, <1>4, <1>5, BothWritten
<1>7. LifeOf(job[j], draftRow[j]) \in {"open", "confirmed", "rejected", "expired"}
  BY <1>3 DEF IngestionInv, Agree, Awaiting, DraftAwaiting, LifeOf, Deletable
<1>8. LifeOf(job'[j], draftRow'[j]) = "deleted"
  BY <1>6 DEF LifeOf
<1>9. Store!Becomes(j, {"open", "confirmed", "rejected", "expired"}, "deleted")
  BY <1>6, <1>7, <1>8, LifeBecomes
<1>10. QED
  BY <1>3, <1>4, <1>6, <1>9 DEF Store!Forget

-----------------------------------------------------------------------------
(* The steps that write memories. *)

\* A job and its draft are confirmed, and lead to memory m.
LEMMA ConfirmedIs ==
    ASSUME IngestionInv, NEW r \in Requests, Ends(r), NEW j \in JobIds, NEW m \in MemoryIds,
           \/ DraftAwaiting(j) /\ Awaiting(j) /\ proposedBy[j] = m
           \/ job[j] = "none" /\ draftRow[j] = "none",
           Available(r, <<"job", j>>) \/ job[j] = "none",
           Available(r, <<"draft", j>>) \/ draftRow[j] = "none",
           Available(r, <<"memory", m>>), memoryRow[m] = NoRow,
           JobBecomes(j, "confirmed"), DraftBecomes(j, "confirmed"),
           proposedBy' = [proposedBy EXCEPT ![j] = m], memoryRow' = [memoryRow EXCEPT ![m] = j],
           UNCHANGED <<due, erased>>
    PROVE  IngestionInv' /\ Store!Confirm(j, m)
<1>1. /\ job'[j] = "confirmed" /\ job' \in [JobIds -> JobStatus]
      /\ draftRow'[j] = "confirmed" /\ draftRow' \in [JobIds -> DraftStatus]
  BY DEF JobBecomes, DraftBecomes, IngestionInv, IngestionTypeOK, JobStatus, DraftStatus
<1>2. OnlyRowsOf(j)
  BY DEF OnlyRowsOf, JobBecomes, DraftBecomes, IngestionInv, IngestionTypeOK
<1>3. proposedBy'[j] = m /\ proposedBy' \in [JobIds -> {NoRow} \union MemoryIds]
  BY DEF IngestionInv, IngestionTypeOK
<1>4. memoryRow' \in [MemoryIds -> {NoRow, BareRow} \union JobIds]
  BY DEF IngestionInv, IngestionTypeOK
<1>5. Agree(j)'
  BY <1>1 DEF Agree
<1>6. RowsAgree(j)
  BY <1>1, <1>3, <1>4, <1>5 DEF RowsAgree, IngestionInv, IngestionTypeOK
<1>7. MayWrite(r, j)
  <2>1. draftRow[j] = "none" \/ proposedBy'[j] = proposedBy[j]
    BY <1>3 DEF DraftAwaiting
  <2>2. memoryRow'[m] = j /\ \A n \in MemoryIds \ {m} : memoryRow'[n] = memoryRow[n]
    BY DEF IngestionInv, IngestionTypeOK
  <2>3. QED
    BY <1>2, <2>1, <2>2, NumbersDiffer DEF MayWrite
<1>8. IngestionInv'
  BY <1>6, <1>7, EndInv
<1>9. /\ LifeOf(job[j], draftRow[j]) \in {"none", "waiting"}
      /\ LifeOf(job[j], draftRow[j]) = "waiting" => proposedBy[j] = m
      /\ LifeOf(job'[j], draftRow'[j]) = "confirmed"
  BY <1>1 DEF LifeOf, Awaiting, DraftAwaiting
<1>10. Store!Becomes(j, {"none", "waiting"}, "confirmed") /\ Life[j] = LifeOf(job[j], draftRow[j])
  BY <1>2, <1>9, LifeBecomes DEF Life
<1>11. QED
  BY <1>8, <1>9, <1>10 DEF Store!Confirm

LEMMA ConfirmJobIs ==
    ASSUME IngestionInv, NEW r \in Requests, ConfirmJob(r)
    PROVE  /\ IngestionInv'
           /\ UNCHANGED Store!draftStoreVars \/ \E j \in JobIds, m \in MemoryIds : Store!Confirm(j, m)
<1>1. At(r, "confirm job")
  BY DEF ConfirmJob
<1>2. PICK j \in JobIds :
         j = request[r].of /\ HoldsAt(r, "confirm job", j) /\ ReadsAt("confirm job", j)
  BY <1>1, UnderWay
<1>3. /\ locks[<<"draft", j>>] = r /\ locks[<<"memory", proposedBy[j]>>] = r
      /\ draftRow[j] # "none" /\ memoryRow[proposedBy[j]] = NoRow
  BY <1>2 DEF HoldsAt, ReadsAt, WithDraft
<1>4. PICK m \in MemoryIds : m = proposedBy[j]
  BY <1>3 DEF IngestionInv
<1>5. Available(r, <<"draft", j>>) /\ Available(r, <<"memory", m>>)
  BY <1>3, <1>4, HeldIsAvailable
<1>6. Available(r, <<"job", j>>) /\ Ends(r) /\ UNCHANGED <<proposedBy, due, erased>>
  BY <1>2 DEF ConfirmJob
<1>7. CASE Awaiting(j)
  <2>1. /\ DraftBecomes(j, "confirmed") /\ JobBecomes(j, "confirmed")
        /\ memoryRow' = [memoryRow EXCEPT ![m] = j]
    BY <1>2, <1>4, <1>7 DEF ConfirmJob, Confirmable
  <2>2. DraftAwaiting(j) /\ proposedBy' = [proposedBy EXCEPT ![j] = m]
    BY <1>4, <1>6, <1>7 DEF IngestionInv, IngestionTypeOK, Agree, Awaiting, DraftAwaiting
  <2>3. QED
    BY <1>3, <1>4, <1>5, <1>6, <1>7, <2>1, <2>2, ConfirmedIs
<1>8. CASE ~Awaiting(j)
  <2>1. UNCHANGED rowVars
    BY <1>2, <1>6, <1>8 DEF ConfirmJob, Confirmable, rowVars
  <2>2. ~Begins(r)
    BY <1>1, UnderWay
  <2>3. QED
    BY <1>6, <2>1, <2>2, EndsOnly
<1>9. QED
  BY <1>7, <1>8

LEMMA NewDraftIs ==
    ASSUME IngestionInv, NEW r \in Requests, NewDraft(r)
    PROVE  IngestionInv' /\ \E j \in JobIds, m \in MemoryIds : Store!Confirm(j, m)
<1>1. At(r, "new draft")
  BY DEF NewDraft
<1>2. PICK m \in MemoryIds : m = request[r].of
  BY <1>1, UnderWay, NumbersDiffer
<1>3. /\ Available(r, <<"memory", m>>) /\ memoryRow[m] = NoRow /\ Ends(r)
      /\ UNCHANGED <<due, erased>>
  BY <1>2 DEF NewDraft
<1>4. PICK j \in JobIds :
         /\ NextJob(j) /\ JobBecomes(j, "confirmed") /\ DraftBecomes(j, "confirmed")
         /\ proposedBy' = [proposedBy EXCEPT ![j] = m]
         /\ memoryRow' = [memoryRow EXCEPT ![m] = j]
  BY <1>2 DEF NewDraft
<1>5. job[j] = "none" /\ draftRow[j] = "none"
  BY <1>4 DEF NextJob, IngestionInv, Agree, Awaiting, DraftAwaiting
<1>6. QED
  BY <1>3, <1>4, <1>5, ConfirmedIs

\* A step of transaction r that writes one memory, and erases it or makes it a bare one.
LEMMA MemoryWritten ==
    ASSUME IngestionInv, NEW r \in Requests, Ends(r), NEW m \in MemoryIds, NEW row \in {NoRow, BareRow},
           memoryRow' = [memoryRow EXCEPT ![m] = row], Available(r, <<"memory", m>>),
           UNCHANGED <<job, draftRow, proposedBy, due>>,
           erased' = erased \/ erased' = erased \union {m}, row = NoRow => m \in erased'
    PROVE  IngestionInv'
<1>1. m \in JobIds
  BY NumbersDiffer
<1>2. /\ memoryRow' \in [MemoryIds -> {NoRow, BareRow} \union JobIds]
      /\ memoryRow'[m] = row /\ \A n \in MemoryIds \ {m} : memoryRow'[n] = memoryRow[n]
  BY DEF IngestionInv, IngestionTypeOK
<1>3. MayWrite(r, m)
  BY <1>1, <1>2, NumbersDiffer DEF MayWrite, OnlyRowsOf
<1>4. RowsAgree(m)
  BY <1>1, <1>2 DEF RowsAgree, IngestionInv, IngestionTypeOK, Agree, Awaiting, DraftAwaiting
<1>5. QED
  BY <1>1, <1>3, <1>4, EndInv

LEMMA ReviseIs ==
    ASSUME IngestionInv, NEW r \in Requests, Revise(r)
    PROVE  /\ IngestionInv'
           /\ UNCHANGED Store!draftStoreVars \/ \E m \in MemoryIds : Store!Restore(m)
<1>1. At(r, "revise")
  BY DEF Revise
<1>2. ~Begins(r) /\ \E m \in MemoryIds : m = request[r].of /\ ReadsAt("revise", m)
  BY <1>1, UnderWay, NumbersDiffer
<1>3. PICK m \in MemoryIds : m = request[r].of /\ (memoryRow[m] # NoRow \/ m \in erased)
  BY <1>2 DEF ReadsAt
<1>4. /\ Available(r, <<"memory", m>>) /\ Ends(r) /\ UNCHANGED <<job, draftRow, proposedBy, due, erased>>
      /\ memoryRow' = [memoryRow EXCEPT ![m] = IF memoryRow[m] = NoRow THEN BareRow ELSE memoryRow[m]]
  BY <1>3 DEF Revise
<1>5. CASE memoryRow[m] = NoRow
  <2>1. memoryRow' = [memoryRow EXCEPT ![m] = BareRow]
    BY <1>4, <1>5
  <2>2. IngestionInv'
    BY <1>4, <2>1, NumbersDiffer, MemoryWritten
  <2>3. Store!Restore(m)
    BY <1>3, <1>4, <1>5, <2>1, LifeStays DEF Store!Restore
  <2>4. QED
    BY <2>2, <2>3
<1>6. CASE memoryRow[m] # NoRow
  <2>1. memoryRow' = memoryRow
    BY <1>4, <1>6 DEF IngestionInv, IngestionTypeOK
  <2>2. QED
    BY <1>2, <1>4, <2>1, EndsOnly DEF rowVars
<1>7. QED
  BY <1>5, <1>6

LEMMA UnlinkIs ==
    ASSUME IngestionInv, NEW r \in Requests, Unlink(r)
    PROVE  IngestionInv' /\ \E m \in MemoryIds : Store!Erase(m)
<1>1. At(r, "unlink")
  BY DEF Unlink
<1>2. PICK m \in MemoryIds : m = request[r].of /\ HoldsAt(r, "unlink", m) /\ ReadsAt("unlink", m)
  BY <1>1, UnderWay, NumbersDiffer
<1>3. Available(r, <<"memory", m>>) /\ memoryRow[m] # NoRow
  BY <1>2, HeldIsAvailable DEF HoldsAt, ReadsAt
<1>4. /\ Ends(r) /\ memoryRow' = [memoryRow EXCEPT ![m] = NoRow] /\ erased' = erased \union {m}
      /\ UNCHANGED <<job, draftRow, proposedBy, due>>
  BY <1>2 DEF Unlink
<1>5. IngestionInv'
  BY <1>3, <1>4, MemoryWritten
<1>6. Store!Erase(m)
  BY <1>3, <1>4, LifeStays DEF Store!Erase
<1>7. QED
  BY <1>5, <1>6

-----------------------------------------------------------------------------
(* The theorems. *)

LEMMA IngestionStep ==
    ASSUME IngestionInv, IngestionNext
    PROVE  IngestionInv' /\ (UNCHANGED Store!draftStoreVars \/ Store!DraftStoreNext)
<1> USE DEF Store!DraftStoreNext
<1>1. ASSUME NEW j \in JobIds, CreateJob(j) \/ DraftFallsDue(j)
      PROVE  IngestionInv' /\ (UNCHANGED Store!draftStoreVars \/ Store!DraftStoreNext)
  BY <1>1, CreateJobIs, DraftFallsDueInv
<1>2. ASSUME NEW r \in Requests, NEW j \in JobIds, Cancel(r, j)
      PROVE  IngestionInv' /\ Store!DraftStoreNext
  BY <1>2, CancelIs
<1>3. ASSUME NEW r \in Requests, NEW j \in JobIds,
             \/ Analyze(r, j) \/ GetJob(r, j) \/ CancelWaiting(r, j) \/ DeleteJob(r, j)
             \/ GetDraft(r, j) \/ Reject(r, j) \/ Confirms(r, j)
      PROVE  IngestionInv' /\ UNCHANGED Store!draftStoreVars
  <2>1. UNCHANGED rowVars
    BY <1>3 DEF Analyze, GetJob, CancelWaiting, DeleteJob, GetDraft, Reject, Confirms, LocksRow
  <2>2. QED
    BY <1>3, <2>1, FirstLocksInv, LifeStays DEF rowVars, Store!draftStoreVars
<1>4. ASSUME NEW r \in Requests, NEW m \in MemoryIds, SaveMemory(r, m) \/ DeleteMemory(r, m)
      PROVE  IngestionInv' /\ UNCHANGED Store!draftStoreVars
  <2>1. UNCHANGED rowVars
    BY <1>4 DEF SaveMemory, DeleteMemory, LocksRow
  <2>2. QED
    BY <1>4, <2>1, MemoryLocksInv, LifeStays DEF rowVars, Store!draftStoreVars
<1>5. ASSUME NEW r \in Requests, Insert(r) \/ SavedDraft(r)
      PROVE  IngestionInv' /\ UNCHANGED Store!draftStoreVars
  <2>1. UNCHANGED rowVars
    BY <1>5 DEF Insert, SavedDraft, LocksRow
  <2>2. QED
    BY <1>5, <2>1, LaterLocksInv, LifeStays DEF rowVars, Store!draftStoreVars
<1>6. ASSUME NEW r \in Requests, ExpireDraft(r) \/ CancelDraft(r) \/ ExpireJob(r)
      PROVE  IngestionInv' /\ Store!DraftStoreNext
  BY <1>6, EndsOfDrafts
<1>7. ASSUME NEW r \in Requests, RejectJob(r)
      PROVE  IngestionInv' /\ Store!DraftStoreNext
  <2>1. At(r, "reject job")
    BY <1>7 DEF RejectJob
  <2>2. PICK j \in JobIds : j = request[r].of /\ ReadsAt("reject job", j)
    BY <2>1, UnderWay
  <2>3. Awaiting(request[r].of)
    BY <2>2 DEF ReadsAt, IngestionInv, Agree, Awaiting, DraftAwaiting
  <2>4. QED
    BY <1>7, <2>3, EndsOfDrafts
<1>8. ASSUME NEW r \in Requests, TransactionStops(r)
      PROVE  IngestionInv' /\ UNCHANGED Store!draftStoreVars
  BY <1>8, EndsOnly DEF TransactionStops
<1>9. ASSUME NEW r \in Requests,
             AnalysisEnds(r) \/ DeleteDraft(r) \/ ConfirmJob(r) \/ NewDraft(r) \/ Revise(r) \/ Unlink(r)
      PROVE  IngestionInv' /\ (UNCHANGED Store!draftStoreVars \/ Store!DraftStoreNext)
  BY <1>9, AnalysisEndsIs, DeleteDraftIs, ConfirmJobIs, NewDraftIs, ReviseIs, UnlinkIs
<1>10. QED
  BY <1>1, <1>2, <1>3, <1>4, <1>5, <1>6, <1>7, <1>8, <1>9 DEF IngestionNext

LEMMA IngestionStutter ==
    ASSUME IngestionInv, UNCHANGED ingestionVars
    PROVE  IngestionInv'
<1>1. IngestionTypeOK'
  BY DEF ingestionVars, IngestionInv, IngestionTypeOK
<1>2. ASSUME NEW r \in Requests PROVE Holds(r)'
  BY DEF ingestionVars, IngestionInv, Holds, HoldsAt, Begins
<1>3. ASSUME NEW r \in Requests PROVE Reads(r)'
  BY DEF ingestionVars, IngestionInv, Reads, ReadsAt, Awaiting, DraftAwaiting
<1>4. \A j \in JobIds : Agree(j)' /\ (draftRow'[j] # "none" => proposedBy'[j] \in MemoryIds)
  BY DEF ingestionVars, IngestionInv, Agree, Awaiting, DraftAwaiting
<1>5. QED
  BY <1>1, <1>2, <1>3, <1>4 DEF IngestionInv

LEMMA IngestionInductive == IngestionSpec => []IngestionInv
<1>1. IngestionInv /\ [IngestionNext]_ingestionVars => IngestionInv'
  BY IngestionStep, IngestionStutter
<1>2. QED
  BY <1>1, IngestionInitInv, PTL DEF IngestionSpec

\* Every row has a status that its column allows, every transaction a step and a job.
THEOREM IngestionTypes == IngestionSpec => []IngestionTypeOK
<1>1. IngestionInv => IngestionTypeOK
  BY DEF IngestionInv
<1>2. QED
  BY <1>1, IngestionInductive, PTL

\* Two handlers that end a job and its draft at the same time never leave the one ended and
\* the other not: no life is "torn".
THEOREM StatusesAgree == IngestionSpec => [](\A j \in JobIds : Life[j] # "torn")
<1>1. IngestionInv => \A j \in JobIds : Life[j] # "torn"
  BY DEF IngestionInv, Agree, Awaiting, DraftAwaiting, Life, LifeOf
<1>2. QED
  BY <1>1, IngestionInductive, PTL

LEMMA IngestionInitStore == IngestionInit => Store!DraftStoreInit
<1> SUFFICES ASSUME IngestionInit PROVE Store!DraftStoreInit
  OBVIOUS
<1>1. Life = [j \in JobIds |-> "none"]
  BY DEF IngestionInit, Life, LifeOf
<1>2. QED
  BY <1>1 DEF IngestionInit, Store!DraftStoreInit

\* The handlers, as they wait for each other, read without locks and are stopped, do with
\* drafts and memories what the store of drafts promises, one step at a time.
THEOREM IngestionIsDraftStore == IngestionSpec => IsDraftStore
<1>1. IngestionInv /\ [IngestionNext]_ingestionVars
         => [UNCHANGED ingestionVars \/ Store!DraftStoreNext]_(Store!draftStoreVars)
  BY IngestionStep
<1>2. QED
  BY <1>1, IngestionInitStore, IngestionInductive, PTL DEF IngestionSpec, IsDraftStore

\* The same as the specification of that module.
THEOREM IngestionImplements == IngestionSpec => Store!DraftStoreSpec
<1>1. UNCHANGED ingestionVars => UNCHANGED Store!draftStoreVars
  BY LifeStays DEF ingestionVars, Store!draftStoreVars
<1>2. IngestionInv /\ [IngestionNext]_ingestionVars => [Store!DraftStoreNext]_(Store!draftStoreVars)
  BY <1>1, IngestionStep
<1>3. QED
  BY <1>2, IngestionInitStore, IngestionInductive, PTL DEF IngestionSpec, Store!DraftStoreSpec

-----------------------------------------------------------------------------
(* What the store of drafts promises of the memories, and with it the transactions. *)

\* The job that a memory refers to was confirmed, with a draft that proposes that memory.
SourcesKept ==
    \A m \in MemoryIds : memoryRow[m] \in JobIds =>
        Life[memoryRow[m]] = "confirmed" /\ proposedBy[memoryRow[m]] = m

\* A step of the store on the life of one job changes that life only.
LEMMA LivesOfOthers ==
    ASSUME NEW j \in JobIds, NEW before, NEW after, Store!Becomes(j, before, after)
    PROVE  /\ Life[j] \in before /\ Life'[j] = after
           /\ \A i \in JobIds \ {j} : Life'[i] = Life[i]
BY DEF Store!Becomes, Life

LEMMA StoreKeepsSources ==
    ASSUME IngestionTypeOK, SourcesKept, Store!DraftStoreNext
    PROVE  SourcesKept'
<1> USE NumbersDiffer
<1>1. ASSUME NEW j \in JobIds, Store!Open(j) \/ Store!Withdraw(j) \/ Store!Expire(j)
      PROVE  SourcesKept'
  <2>1. /\ Life[j] # "confirmed" /\ \A i \in JobIds \ {j} : Life'[i] = Life[i]
        /\ UNCHANGED <<proposedBy, memoryRow>>
    BY <1>1, LivesOfOthers DEF Store!Open, Store!Withdraw, Store!Expire
  <2>2. QED
    BY <2>1 DEF SourcesKept
<1>2. ASSUME NEW j \in JobIds, Store!Forget(j)
      PROVE  SourcesKept'
  <2>1. /\ \A m \in MemoryIds : memoryRow[m] # j
        /\ \A i \in JobIds \ {j} : Life'[i] = Life[i]
        /\ UNCHANGED <<proposedBy, memoryRow>>
    BY <1>2, LivesOfOthers DEF Store!Forget
  <2>2. QED
    BY <2>1 DEF SourcesKept
<1>3. ASSUME NEW j \in JobIds, NEW m \in MemoryIds, Store!Propose(j, m)
      PROVE  SourcesKept'
  <2>1. /\ Life[j] # "confirmed" /\ \A i \in JobIds \ {j} : Life'[i] = Life[i]
        /\ proposedBy' = [proposedBy EXCEPT ![j] = m] /\ UNCHANGED memoryRow
    BY <1>3, LivesOfOthers DEF Store!Propose
  <2>2. \A i \in JobIds \ {j} : proposedBy'[i] = proposedBy[i]
    BY <2>1 DEF IngestionTypeOK
  <2>3. QED
    BY <2>1, <2>2 DEF SourcesKept
<1>4. ASSUME NEW j \in JobIds, NEW m \in MemoryIds, Store!Confirm(j, m)
      PROVE  SourcesKept'
  <2>1. /\ Life[j] # "confirmed" /\ Life'[j] = "confirmed" /\ \A i \in JobIds \ {j} : Life'[i] = Life[i]
        /\ memoryRow' = [memoryRow EXCEPT ![m] = j] /\ proposedBy' = [proposedBy EXCEPT ![j] = m]
    BY <1>4, LivesOfOthers DEF Store!Confirm
  <2>2. /\ proposedBy'[j] = m /\ \A i \in JobIds \ {j} : proposedBy'[i] = proposedBy[i]
        /\ memoryRow'[m] = j /\ \A n \in MemoryIds \ {m} : memoryRow'[n] = memoryRow[n]
    BY <2>1 DEF IngestionTypeOK
  <2>3. QED
    BY <2>1, <2>2 DEF SourcesKept
<1>5. ASSUME NEW m \in MemoryIds, Store!Erase(m) \/ Store!Restore(m)
      PROVE  SourcesKept'
  <2>1. /\ Life' = Life /\ UNCHANGED proposedBy
        /\ memoryRow' = [memoryRow EXCEPT ![m] = NoRow] \/ memoryRow' = [memoryRow EXCEPT ![m] = BareRow]
    BY <1>5 DEF Store!Erase, Store!Restore
  <2>2. memoryRow'[m] \notin JobIds /\ \A n \in MemoryIds \ {m} : memoryRow'[n] = memoryRow[n]
    BY <2>1 DEF IngestionTypeOK
  <2>3. QED
    BY <2>1, <2>2 DEF SourcesKept
<1>6. QED
  BY <1>1, <1>2, <1>3, <1>4, <1>5 DEF Store!DraftStoreNext

\* While there is a memory that was confirmed, the job and the draft that it refers to are
\* there, are confirmed, and propose it: a deletion of the job that looked for memories, and
\* then waited, has not missed the memory of a confirmation.
THEOREM MemoriesKeepTheirSources == IngestionSpec => []SourcesKept
<1>1. IngestionInit => SourcesKept
  BY NumbersDiffer DEF IngestionInit, SourcesKept
<1>2. IngestionTypeOK /\ SourcesKept /\ [Store!DraftStoreNext]_(Store!draftStoreVars) => SourcesKept'
  <2>1. SourcesKept /\ UNCHANGED Store!draftStoreVars => SourcesKept'
    BY DEF Store!draftStoreVars, SourcesKept
  <2>2. QED
    BY <2>1, StoreKeepsSources
<1>3. QED
  BY <1>1, <1>2, IngestionTypes, IngestionImplements, PTL DEF IngestionSpec, Store!DraftStoreSpec
=============================================================================
