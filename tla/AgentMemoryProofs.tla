------------------------- MODULE AgentMemoryProofs -------------------------
(***************************************************************************)
(* Proofs about AgentMemory, for any sets of memories and workers and any  *)
(* bounds.  The inductive invariant IInv follows the life of a claim: a    *)
(* worker past the check of _has_unfinished_predecessor can only meet      *)
(* earlier upserts that are completed or redacted, and the event of a      *)
(* worker inside a settling transaction is not completed behind its back.  *)
(* The outbox is then shown to implement MemoryOutbox.  The second half    *)
(* proves what holds of any number of workers that keep their turn         *)
(* (Turns), and so of the one that package.json starts: SyncedIsSettled,   *)
(* AppendedOnce, NoContentAfterDelete and FirstVersionExported, each from  *)
(* an inductive invariant on top of TInv (LifeInv, OrderInv, SendInv,      *)
(* ClearInv, ExportInv).                                                   *)
(***************************************************************************)
EXTENDS AgentMemory, TLAPS, FiniteSetTheorems, WellFoundedInduction

Busy == Stages \ {"idle", "next"}
Checked == Busy \ {"defer", "fail", "failing"}

\* The types of what the invariant speaks about.
Typing ==
    /\ live \subseteq Memories
    /\ rev \in [Memories -> 0..MaxVersion]
    /\ status \in [Key -> Statuses]
    /\ redacted \in [Key -> BOOLEAN]
    /\ pc \in [Workers -> Stages]
    /\ queue \in [Workers -> SUBSET Key]
    /\ ev \in [Workers -> Key \cup {None}]

\* Earlier upserts can send nothing any more.
Clear(e) == \A f \in UpsertsBelow(e) : status[f] = "completed" \/ redacted[f]

\* Claimed events and events in process exist.
ClaimsExist ==
    \A w \in Workers :
        /\ \A e \in queue[w] : status[e] # "absent"
        /\ pc[w] \in Busy => ev[w] \in Key /\ status[ev[w]] # "absent"

\* A worker inside a settling transaction is alone there with its event, which
\* may have been claimed anew, deferred or cancelled in the meantime.
InDoubt == {"processing", "retry", "cancelled"}
AloneInTx ==
    \A w \in Workers : pc[w] \in InTx =>
        /\ status[ev[w]] \in InDoubt
        /\ \A v \in Workers : pc[v] \in InTx /\ ev[v] = ev[w] => v = w

\* A deletion in progress cancels events that exist.
DoomedExist == \A e \in doomed : e \in Key /\ status[e] # "absent"

CancelledIsRedacted == \A e \in Key : status[e] = "cancelled" => redacted[e]

\* Versions are queued without a gap, up to the latest revision.
NoGaps ==
    /\ \A e \in Key : status[e] # "absent" /\ e.mem \notin Legacy =>
           \A f \in UpsertsBelow(e) : status[f] # "absent"
    /\ \A m \in Memories \ Legacy :
           IF m \in live THEN rev[m] > 0 /\ status[Upsert(m, rev[m])] # "absent"
           ELSE rev[m] = 0

CheckedIsClear ==
    \A w \in Workers : pc[w] \in Checked /\ ev[w].mem \notin Legacy => Clear(ev[w])

IInv == /\ Typing
        /\ ClaimsExist
        /\ AloneInTx
        /\ DoomedExist
        /\ CancelledIsRedacted
        /\ NoGaps
        /\ CheckedIsClear
        /\ CompletedInOrder

-----------------------------------------------------------------------------
\* What a worker's step that leaves the outbox alone does to the worker.
Quiet(w) ==
    /\ UNCHANGED <<live, rev, doomed, status, redacted>>
    /\ \A v \in Workers : queue'[v] \subseteq queue[v]
    /\ \A v \in Workers \ {w} : pc'[v] = pc[v] /\ ev'[v] = ev[v]
    /\ pc'[w] \in Busy => pc[w] \in Busy /\ ev'[w] = ev[w]
    /\ pc'[w] \in Checked => pc[w] \in Checked
    /\ pc'[w] \in InTx => status[ev[w]] = "processing" /\ NoneSettles(w)

QuietStep(w) ==
    \/ BatchDone(w) \/ Checkpoint(w) \/ SessionKey(w) \/ OpenSession(w)
    \/ RecordSession(w) \/ LatestTask(w) \/ AppendMessage(w) \/ CommitSession(w)
    \/ RecordSyncing(w) \/ AwaitTask(w) \/ ListSessions(w) \/ DeleteSession(w)
    \/ CompleteRead(w) \/ FailRead(w) \/ Crash(w)

\* The steps that only move the worker are quiet, and keep the types.
LEMMA QuietSteps ==
    ASSUME NEW w \in Workers, Typing, QuietStep(w)
    PROVE  Quiet(w) /\ Typing'
<1> USE DEF Typing, Quiet, Stages, Busy, Checked, InTx, Goto, InProcess,
            memoryVars, deletionVars, outboxVars, Leave, Holds, CallFails
<1>1. CASE BatchDone(w)
  BY <1>1 DEF BatchDone
<1>2. CASE Checkpoint(w)
  BY <1>2 DEF Checkpoint
<1>3. CASE SessionKey(w)
  BY <1>3 DEF SessionKey
<1>4. CASE OpenSession(w)
  BY <1>4 DEF OpenSession
<1>5. CASE RecordSession(w)
  BY <1>5 DEF RecordSession
<1>6. CASE LatestTask(w)
  BY <1>6 DEF LatestTask
<1>7. CASE AppendMessage(w)
  BY <1>7 DEF AppendMessage
<1>8. CASE CommitSession(w)
  BY <1>8 DEF CommitSession
<1>9. CASE RecordSyncing(w)
  BY <1>9 DEF RecordSyncing
<1>10. CASE AwaitTask(w)
  BY <1>10 DEF AwaitTask
<1>11. CASE ListSessions(w)
  BY <1>11 DEF ListSessions
<1>12. CASE DeleteSession(w)
  BY <1>12 DEF DeleteSession
<1>13. CASE CompleteRead(w)
  BY <1>13 DEF CompleteRead
<1>14. CASE FailRead(w)
  BY <1>14 DEF FailRead
<1>15. CASE Crash(w)
  BY <1>15 DEF Crash
<1>16. QED
  BY <1>1, <1>2, <1>3, <1>4, <1>5, <1>6, <1>7, <1>8, <1>9, <1>10, <1>11,
     <1>12, <1>13, <1>14, <1>15 DEF QuietStep

-----------------------------------------------------------------------------
\* The keys of a memory's events, as records.
LEMMA EventKeys ==
    /\ MaxVersion \in Nat
    /\ \A m \in Memories : \A v \in 1..MaxVersion :
           LET u == Upsert(m, v) IN u \in Key /\ u.mem = m /\ u.ver = v /\ u.del = FALSE
    /\ \A m \in Memories : \A v \in 1..(MaxVersion + 1) :
           LET d == Deletion(m, v) IN d \in Key /\ d.mem = m /\ d.ver = v /\ d.del = TRUE
<1>1. MaxVersion \in Nat
  BY ConstantsAssumption
<1>2. 1..MaxVersion \subseteq 1..(MaxVersion + 1)
  BY <1>1
<1>3. QED
  BY <1>1, <1>2 DEF Upsert, Deletion, Key

\* No step takes back an event, a redaction or a completion.
Monotone ==
    \A e \in Key :
        /\ status[e] # "absent" => status'[e] # "absent"
        /\ redacted[e] => redacted'[e]
        /\ status[e] = "completed" =>
             status'[e] = "completed" \/ (status'[e] = "cancelled" /\ redacted'[e])

\* Workers inside settling transactions stay alone there as long as nobody
\* enters one and their events stay in doubt.
LEMMA TxStable ==
    ASSUME IInv,
           \A v \in Workers : pc'[v] \in InTx =>
               /\ pc[v] \in InTx /\ ev'[v] = ev[v]
               /\ ev[v] \in Key /\ status[ev[v]] \in InDoubt => status'[ev[v]] \in InDoubt
    PROVE  AloneInTx'
<1>1. \A v \in Workers : pc[v] \in InTx => ev[v] \in Key /\ status[ev[v]] \in InDoubt
  BY DEF IInv, ClaimsExist, AloneInTx, Busy, InTx, Stages
<1>2. QED
  BY <1>1 DEF IInv, AloneInTx

\* What the two enqueueing requests have in common: a first event of version
\* rev[m] + 1 leaves no gap.
LEMMA BelowExist ==
    ASSUME IInv, NEW m \in Memories \ Legacy,
           NEW e \in Key, e.mem = m, e.ver = rev[m] + 1,
           NEW f \in UpsertsBelow(e)
    PROVE  status[f] # "absent"
<1>1. /\ f \in Key /\ f.mem = m /\ f.ver < rev[m] + 1 /\ ~f.del
  BY DEF UpsertsBelow, Predecessors
<1>2. /\ rev[m] \in 0..MaxVersion /\ f.ver \in 1..(MaxVersion + 1)
      /\ f.del \in BOOLEAN /\ MaxVersion \in Nat
  BY <1>1, ConstantsAssumption DEF IInv, Typing, Key
<1>3. m \in live /\ rev[m] > 0 /\ status[Upsert(m, rev[m])] # "absent"
  BY <1>1, <1>2 DEF IInv, NoGaps
<1>4. CASE f.ver = rev[m]
  <2>1. f = Upsert(m, rev[m])
    BY <1>1, <1>2, <1>4 DEF Upsert, Key
  <2>2. QED
    BY <2>1, <1>3
<1>5. CASE f.ver < rev[m]
  <2>1. Upsert(m, rev[m]) \in Key /\ Upsert(m, rev[m]).mem = m
    BY <1>2, <1>3 DEF Upsert, Key
  <2>2. f \in UpsertsBelow(Upsert(m, rev[m]))
    BY <1>1, <1>5 DEF UpsertsBelow, Predecessors, Upsert
  <2>3. QED
    BY <2>1, <2>2, <1>3 DEF IInv, NoGaps
<1>6. QED
  BY <1>1, <1>2, <1>4, <1>5

\* Steps that only move a worker (calls to the store, reads, a crash) keep IInv.
LEMMA QuietPreserves ==
    ASSUME IInv, NEW w \in Workers, Quiet(w), Typing'
    PROVE  IInv' /\ Monotone
<1>1. Monotone
  BY DEF Monotone, Quiet
<1>2. ClaimsExist'
  BY DEF IInv, Typing, ClaimsExist, Quiet
<1>3. AloneInTx'
  BY DEF IInv, Typing, AloneInTx, NoneSettles, Quiet, InTx, InDoubt, Busy, Stages
<1>4. CancelledIsRedacted' /\ NoGaps' /\ DoomedExist'
  BY DEF IInv, CancelledIsRedacted, NoGaps, DoomedExist, Quiet
<1>5. CheckedIsClear'
  <2> SUFFICES ASSUME NEW v \in Workers, pc'[v] \in Checked, ev'[v].mem \notin Legacy
               PROVE  Clear(ev[v])'
    BY DEF CheckedIsClear
  <2>1. pc[v] \in Checked /\ ev'[v] = ev[v]
    BY DEF Quiet, Checked, Busy
  <2>2. Clear(ev[v])
    BY <2>1 DEF IInv, CheckedIsClear
  <2>3. QED
    BY <2>1, <2>2 DEF Clear, Quiet
<1>6. CompletedInOrder'
  BY DEF IInv, CompletedInOrder, Quiet
<1>7. QED
  BY <1>1, <1>2, <1>3, <1>4, <1>5, <1>6 DEF IInv

-----------------------------------------------------------------------------
\* The outbox keeps what is clear for a worker whose event does not change.
LEMMA CheckedStable ==
    ASSUME IInv, Monotone, NEW v \in Workers,
           pc[v] \in Checked, ev'[v] = ev[v], ev'[v].mem \notin Legacy
    PROVE  Clear(ev[v])'
<1>1. Clear(ev[v])
  BY DEF IInv, CheckedIsClear
<1>2. QED
  BY <1>1 DEF Clear, Monotone, UpsertsBelow, Predecessors

\* Completed events stay clear when no other event is completed.
LEMMA CompletedStable ==
    ASSUME IInv, Monotone,
           \A e \in Key : status'[e] = "completed" /\ e.mem \notin Legacy
                         => status[e] = "completed" \/ Clear(e)
    PROVE  CompletedInOrder'
<1> SUFFICES ASSUME NEW e \in Key, status'[e] = "completed", e.mem \notin Legacy,
                    NEW f \in UpsertsBelow(e)
             PROVE  status'[f] = "completed" \/ redacted'[f]
  BY DEF CompletedInOrder, UpsertsBelow, Predecessors
<1>1. Clear(e)
  BY DEF IInv, CompletedInOrder, Clear
<1>2. f \in Key
  BY DEF UpsertsBelow, Predecessors
<1>3. QED
  BY <1>1, <1>2 DEF Clear, Monotone

\* Storing a memory: the only new event is the upsert of the next version.
LEMMA PersistPreserves ==
    ASSUME IInv, NEW m \in Memories, Persist(m)
    PROVE  IInv' /\ Monotone
<1> DEFINE n == NextRevision(m)
           u == Upsert(m, n)
<1>1. /\ n \in 1..MaxVersion /\ u \in Key /\ u.mem = m /\ u.ver = n /\ ~u.del
      /\ m \notin Legacy => n = rev[m] + 1
      /\ MaxVersion \in Nat /\ rev[m] \in 0..MaxVersion
  <2>1. n <= MaxVersion /\ rev[m] \in 0..MaxVersion /\ MaxVersion \in Nat
    BY EventKeys DEF Persist, IInv, Typing
  <2>2. n = 2 \/ n = rev[m] + 1
    BY DEF NextRevision
  <2>3. n \in 1..MaxVersion
    BY <2>1, <2>2
  <2>4. u \in Key /\ u.mem = m /\ u.ver = n /\ ~u.del
    BY <2>3, EventKeys
  <2>5. m \notin Legacy => n = rev[m] + 1
    BY <2>1 DEF NextRevision, IInv, NoGaps
  <2>6. QED
    BY <2>1, <2>3, <2>4, <2>5
<1>2. /\ UNCHANGED <<doomed, redacted, pc, queue, ev>>
      /\ live' = live \cup {m} /\ rev' = [rev EXCEPT ![m] = n]
      /\ status' = EnqueuedStatus(u, status)
  BY DEF Persist, deletionVars, workerVars
<1>3. /\ status' \in [Key -> Statuses] /\ status'[u] # "absent"
      /\ \A e \in Key : status[e] # "absent" => status'[e] = status[e]
      /\ \A e \in Key : e # u => status'[e] = status[e]
      /\ status[u] = "absent" => status'[u] = "pending"
  BY <1>1, <1>2 DEF EnqueuedStatus, IInv, Typing, Statuses
<1> HIDE DEF n, u
<1>4. Typing'
  BY <1>1, <1>2, <1>3 DEF IInv, Typing
<1>5. Monotone
  BY <1>2, <1>3 DEF Monotone
<1>6. ClaimsExist' /\ AloneInTx' /\ DoomedExist' /\ CancelledIsRedacted'
  <2>1. ClaimsExist'
    BY <1>2, <1>3 DEF IInv, Typing, ClaimsExist
  <2>2. AloneInTx'
    BY <1>2, <1>3, TxStable DEF InDoubt
  <2>3. CancelledIsRedacted'
    BY <1>1, <1>2, <1>3 DEF IInv, CancelledIsRedacted
  <2>4. DoomedExist'
    BY <1>2, <1>3 DEF IInv, DoomedExist
  <2>5. QED
    BY <2>1, <2>2, <2>3, <2>4
<1>7. NoGaps'
  <2>1. ASSUME NEW e \in Key, status'[e] # "absent", e.mem \notin Legacy,
               NEW f \in UpsertsBelow(e)
        PROVE  status'[f] # "absent"
    <3>1. f \in Key
      BY DEF UpsertsBelow, Predecessors
    <3>2. CASE status[e] # "absent"
      BY <2>1, <3>1, <3>2, <1>3 DEF IInv, NoGaps
    <3>3. CASE status[e] = "absent"
      <4>1. e = u
        BY <2>1, <3>3, <1>3
      <4>2. QED
        BY <2>1, <4>1, <1>1, <1>3, <3>1, BelowExist
    <3>4. QED
      BY <3>2, <3>3
  <2>2. ASSUME NEW k \in Memories \ Legacy
        PROVE  IF k \in live' THEN rev'[k] > 0 /\ status'[Upsert(k, rev'[k])] # "absent"
               ELSE rev'[k] = 0
    <3>1. CASE k = m
      <4>1. k \in live' /\ rev'[k] = n
        BY <3>1, <1>2 DEF IInv, Typing
      <4>2. Upsert(k, rev'[k]) = u
        BY <4>1, <3>1 DEF u
      <4>3. QED
        BY <4>1, <4>2, <1>1, <1>3
    <3>2. CASE k # m
      <4>1. rev'[k] = rev[k] /\ (k \in live' <=> k \in live)
        BY <3>2, <1>2 DEF IInv, Typing
      <4>2. ASSUME k \in live
            PROVE  Upsert(k, rev[k]) \in Key
        <5>1. rev[k] \in 1..MaxVersion
          BY <4>2, EventKeys DEF IInv, Typing, NoGaps
        <5>2. QED
          BY <5>1, EventKeys
      <4>3. QED
        BY <4>1, <4>2, <1>3 DEF IInv, NoGaps
    <3>3. QED
      BY <3>1, <3>2
  <2>3. QED
    BY <2>1, <2>2 DEF NoGaps, UpsertsBelow, Predecessors
<1>8. CheckedIsClear'
  BY <1>2, <1>5, CheckedStable DEF CheckedIsClear
<1>9. CompletedInOrder'
  <2>1. \A e \in Key : status'[e] = "completed" => status[e] = "completed"
    BY <1>3
  <2>2. QED
    BY <2>1, <1>5, CompletedStable
<1>10. QED
  BY <1>4, <1>5, <1>6, <1>7, <1>8, <1>9 DEF IInv

\* Deleting a memory: the only new event is the deletion, of the next version;
\* the others are cancelled or stay as they are, and all are redacted.
LEMMA DeletePreserves ==
    ASSUME IInv, NEW m \in Memories, DeleteWrite(m)
    PROVE  IInv' /\ Monotone
<1> DEFINE n == rev[m] + 1
           d == Deletion(m, n)
<1>1. /\ n \in 1..(MaxVersion + 1) /\ d \in Key /\ d.mem = m /\ d.ver = n
      /\ MaxVersion \in Nat
  <2>1. rev[m] \in 0..MaxVersion /\ MaxVersion \in Nat
    BY EventKeys DEF IInv, Typing
  <2>2. n \in 1..(MaxVersion + 1)
    BY <2>1
  <2>3. QED
    BY <2>1, <2>2, EventKeys
<1>2. /\ UNCHANGED <<pc, queue, ev>> /\ doomed' \subseteq doomed
      /\ live' = live \ {m} /\ rev' = [rev EXCEPT ![m] = 0]
  BY DEF DeleteWrite, workerVars
<1> HIDE DEF n, d
<1>3. \A e \in Key :
        /\ status'[e] \in Statuses /\ redacted'[e] \in BOOLEAN
        /\ status[e] # "absent" => status'[e] \in {status[e], "cancelled"}
        /\ status[e] # "absent" /\ status'[e] # status[e] => redacted'[e]
        /\ status[e] = "absent" /\ e # d => status'[e] = "absent"
        /\ status[e] = "absent" /\ e = d => status'[e] = "pending"
        /\ redacted[e] => redacted'[e]
        /\ status'[e] = "cancelled" => redacted'[e]
  <2> DEFINE previous == {e \in EventsOf(m) : status[e] # "absent"}
             st == [e \in Key |-> IF e \in doomed \cap EventsOf(m) THEN "cancelled"
                                 ELSE status[e]]
  <2>1. /\ status' = EnqueuedStatus(d, st)
        /\ redacted' = [e \in Key |-> redacted[e] \/ e \in previous]
    BY DEF DeleteWrite, d, n
  <2>2. /\ status \in [Key -> Statuses] /\ redacted \in [Key -> BOOLEAN]
        /\ \A e \in Key : status[e] = "cancelled" => redacted[e]
    BY DEF IInv, Typing, CancelledIsRedacted
  <2>3. status' = IF status[d] = "absent" THEN [st EXCEPT ![d] = "pending"] ELSE st
    BY <2>1 DEF EnqueuedStatus
  <2>4. /\ \A e \in previous : status[e] # "absent"
        /\ doomed \cap EventsOf(m) \subseteq previous
    BY DEF IInv, DoomedExist, EventsOf
  <2> HIDE DEF previous
  <2>5. QED
    BY <2>1, <2>2, <2>3, <2>4, <1>1 DEF Statuses
<1>4. status' \in [Key -> Statuses] /\ redacted' \in [Key -> BOOLEAN]
  <2>1. /\ status' = [e \in Key |-> status'[e]]
        /\ redacted' = [e \in Key |-> redacted'[e]]
    BY <1>1 DEF DeleteWrite, EnqueuedStatus, IInv, Typing
  <2>2. QED
    BY <2>1, <1>3
<1>5. Typing'
  BY <1>1, <1>2, <1>4 DEF IInv, Typing
<1>6. Monotone
  BY <1>3 DEF Monotone, Statuses
<1>7. ClaimsExist' /\ CancelledIsRedacted' /\ DoomedExist'
  BY <1>2, <1>3, <1>6
     DEF IInv, Typing, ClaimsExist, CancelledIsRedacted, DoomedExist, Monotone
<1>8. AloneInTx'
  <2>1. \A e \in Key : status[e] \in InDoubt => status'[e] \in InDoubt
    BY <1>3 DEF InDoubt
  <2>2. QED
    BY <1>2, <2>1, TxStable
<1>9. NoGaps'
  <2>1. ASSUME NEW e \in Key, status'[e] # "absent", e.mem \notin Legacy,
               NEW f \in UpsertsBelow(e)
        PROVE  status'[f] # "absent"
    <3>1. f \in Key
      BY DEF UpsertsBelow, Predecessors
    <3>2. CASE status[e] # "absent"
      BY <2>1, <3>1, <3>2, <1>6 DEF IInv, NoGaps, Monotone
    <3>3. CASE status[e] = "absent"
      <4>1. e = d
        BY <2>1, <3>3, <1>3
      <4>2. status[f] # "absent"
        BY <2>1, <4>1, <1>1, BelowExist DEF n
      <4>3. QED
        BY <4>2, <3>1, <1>6 DEF Monotone
    <3>4. QED
      BY <3>2, <3>3
  <2>2. ASSUME NEW k \in Memories \ Legacy
        PROVE  IF k \in live' THEN rev'[k] > 0 /\ status'[Upsert(k, rev'[k])] # "absent"
               ELSE rev'[k] = 0
    <3>1. CASE k = m
      BY <3>1, <1>2 DEF IInv, Typing
    <3>2. CASE k # m
      <4>1. rev'[k] = rev[k] /\ (k \in live' <=> k \in live)
        BY <3>2, <1>2 DEF IInv, Typing
      <4>2. ASSUME k \in live
            PROVE  Upsert(k, rev[k]) \in Key
        <5>1. rev[k] \in 1..MaxVersion
          BY <4>2, EventKeys DEF IInv, Typing, NoGaps
        <5>2. QED
          BY <5>1, EventKeys
      <4>3. QED
        BY <4>1, <4>2, <1>6 DEF IInv, NoGaps, Monotone
    <3>3. QED
      BY <3>1, <3>2
  <2>3. QED
    BY <2>1, <2>2 DEF NoGaps, UpsertsBelow, Predecessors
<1>10. CheckedIsClear'
  BY <1>2, <1>6, CheckedStable DEF CheckedIsClear
<1>11. CompletedInOrder'
  <2>1. \A e \in Key : status'[e] = "completed" => status[e] = "completed"
    BY <1>3 DEF IInv, Typing, Statuses
  <2>2. QED
    BY <2>1, <1>6, CompletedStable
<1>12. QED
  BY <1>5, <1>6, <1>7, <1>8, <1>9, <1>10, <1>11 DEF IInv

\* A deletion that has read the events of its memory.
LEMMA DeleteReadPreserves ==
    ASSUME IInv, NEW m \in Memories, DeleteRead(m)
    PROVE  IInv' /\ Monotone
<1>1. /\ UNCHANGED <<live, rev, status, redacted, pc, queue, ev>>
      /\ doomed' = doomed \cup
                    {e \in EventsOf(m) : status[e] \notin Settled \cup {"absent"}}
  BY DEF DeleteRead, memoryVars, outboxVars, workerVars
<1>2. DoomedExist'
  BY <1>1 DEF IInv, DoomedExist, EventsOf
<1>3. QED
  BY <1>1, <1>2 DEF IInv, Typing, ClaimsExist, AloneInTx, CancelledIsRedacted, NoGaps,
                    CheckedIsClear, Clear, CompletedInOrder, Monotone

\* Steps that enqueue nothing and change no memory keep the numbering.
LEMMA NoNewEvent ==
    ASSUME IInv, UNCHANGED <<live, rev, redacted>>,
           \A e \in Key :
               /\ status[e] = "absent" <=> status'[e] = "absent"
               /\ status[e] = "completed" => status'[e] = "completed"
    PROVE  NoGaps' /\ Monotone /\ (UNCHANGED doomed => DoomedExist')
<1>1. Monotone
  BY DEF Monotone
<1>2. ASSUME NEW m \in Memories \ Legacy, m \in live
      PROVE  Upsert(m, rev[m]) \in Key
  <2>1. rev[m] \in 1..MaxVersion
    BY <1>2, EventKeys DEF IInv, Typing, NoGaps
  <2>2. QED
    BY <2>1, EventKeys
<1>3. \A e \in Key : \A f \in UpsertsBelow(e) : f \in Key
  BY DEF UpsertsBelow, Predecessors
<1>4. \A e \in Key : status'[e] # "absent" /\ e.mem \notin Legacy =>
          \A f \in UpsertsBelow(e) : status'[f] # "absent"
  BY <1>3 DEF IInv, NoGaps
<1>5. \A m \in Memories \ Legacy :
          IF m \in live' THEN rev'[m] > 0 /\ status'[Upsert(m, rev'[m])] # "absent"
          ELSE rev'[m] = 0
  BY <1>2 DEF IInv, NoGaps
<1>6. UNCHANGED doomed => DoomedExist'
  BY DEF IInv, DoomedExist
<1>7. QED
  BY <1>1, <1>4, <1>5, <1>6 DEF NoGaps, UpsertsBelow, Predecessors

\* An operator's replay takes up a dead letter, never a completed event.
LEMMA ReplayPreserves ==
    ASSUME IInv, NEW e \in Key, Replay(e)
    PROVE  IInv' /\ Monotone
<1>1. /\ status[e] = "dead_letter" /\ status' = [status EXCEPT ![e] = "pending"]
      /\ UNCHANGED <<live, rev, doomed, redacted, pc, queue, ev>>
  BY DEF Replay, memoryVars, deletionVars, workerVars
<1>2. Typing'
  BY <1>1 DEF IInv, Typing, Statuses
<1>3. NoGaps' /\ Monotone /\ DoomedExist'
  BY <1>1, NoNewEvent DEF IInv, Typing
<1>4. ClaimsExist' /\ CancelledIsRedacted'
  BY <1>1 DEF IInv, Typing, ClaimsExist, CancelledIsRedacted
<1>5. AloneInTx'
  <2>1. \A k \in Key : status[k] \in InDoubt => status'[k] \in InDoubt
    BY <1>1 DEF InDoubt
  <2>2. QED
    BY <1>1, <2>1, TxStable
<1>6. CheckedIsClear'
  BY <1>1, <1>3, CheckedStable DEF CheckedIsClear
<1>7. CompletedInOrder'
  BY <1>1, <1>3, CompletedStable DEF IInv, Typing
<1>8. QED
  BY <1>2, <1>3, <1>4, <1>5, <1>6, <1>7 DEF IInv

\* A claim takes no event that is completed, though it may take one that another
\* worker is about to settle.
LEMMA ClaimPreserves ==
    ASSUME IInv, NEW w \in Workers, NEW batch \in SUBSET Eligible, Claim(w, batch)
    PROVE  IInv' /\ Monotone
<1>1. /\ pc[w] = "idle" /\ pc' = [pc EXCEPT ![w] = "next"]
      /\ status' = [e \in Key |-> IF e \in batch THEN "processing" ELSE status[e]]
      /\ queue' = [queue EXCEPT ![w] = batch]
      /\ UNCHANGED <<live, rev, doomed, redacted, ev>>
  BY DEF Claim, memoryVars, deletionVars
<1>2. \A e \in batch : e \in Key /\ status[e] \in {"pending", "retry", "processing"}
  BY DEF Eligible
<1>3. Typing'
  BY <1>1, <1>2 DEF IInv, Typing, Statuses, Stages
<1>4. NoGaps' /\ Monotone /\ DoomedExist'
  <2>1. \A e \in Key : /\ status[e] = "absent" <=> status'[e] = "absent"
                       /\ status[e] = "completed" => status'[e] = "completed"
    BY <1>1, <1>2
  <2>2. QED
    BY <1>1, <2>1, NoNewEvent
<1>5. ClaimsExist'
  BY <1>1, <1>2 DEF IInv, Typing, ClaimsExist, Busy, Stages
<1>6. CancelledIsRedacted'
  BY <1>1 DEF IInv, CancelledIsRedacted
<1>7. AloneInTx'
  <2>1. \A e \in Key : status[e] \in InDoubt => status'[e] \in InDoubt
    BY <1>1 DEF InDoubt
  <2>2. \A v \in Workers : pc'[v] \in InTx => pc[v] \in InTx
    BY <1>1 DEF IInv, Typing, InTx
  <2>3. QED
    BY <1>1, <2>1, <2>2, TxStable
<1>8. CheckedIsClear'
  <2> SUFFICES ASSUME NEW v \in Workers, pc'[v] \in Checked, ev[v].mem \notin Legacy
               PROVE  Clear(ev[v])'
    BY <1>1 DEF CheckedIsClear
  <2>1. pc[v] \in Checked
    BY <1>1 DEF IInv, Typing, Checked, Busy
  <2>2. QED
    BY <2>1, <1>1, <1>4, CheckedStable
<1>9. CompletedInOrder'
  BY <1>1, <1>4, CompletedStable DEF IInv, Typing
<1>10. QED
  BY <1>3, <1>4, <1>5, <1>6, <1>7, <1>8, <1>9 DEF IInv

\* The check of the predecessors, and the cancellations' redactions, make an
\* event clear from then on.
LEMMA BeginPreserves ==
    ASSUME IInv, NEW w \in Workers, NEW e \in queue[w], Begin(w, e)
    PROVE  IInv' /\ Monotone
<1>1. /\ e \in Key /\ status[e] # "absent"
  BY DEF IInv, Typing, ClaimsExist
<1>2. /\ pc[w] = "next" /\ queue' = [queue EXCEPT ![w] = @ \ {e}]
      /\ ev' = [ev EXCEPT ![w] = e]
      /\ UNCHANGED <<live, rev, doomed, status, redacted>>
  BY DEF Begin, memoryVars, deletionVars, outboxVars
<1>3. \E stage \in {"defer", "list", "fail", "checkpoint"} :
          /\ pc' = [pc EXCEPT ![w] = stage]
          /\ stage \in {"list", "checkpoint"} =>
               \A f \in Predecessors(e) : status[f] \in Settled \cup {"absent"}
  BY DEF Begin, Goto
<1>4. Typing'
  BY <1>1, <1>2, <1>3 DEF IInv, Typing, Stages
<1>5. NoGaps' /\ Monotone /\ CancelledIsRedacted' /\ CompletedInOrder' /\ DoomedExist'
  BY <1>2 DEF IInv, NoGaps, Monotone, CancelledIsRedacted, CompletedInOrder, DoomedExist
<1>6. ClaimsExist'
  BY <1>1, <1>2, <1>3 DEF IInv, Typing, ClaimsExist
<1>7. AloneInTx'
  BY <1>2, <1>3 DEF IInv, Typing, AloneInTx, InTx
<1>8. CheckedIsClear'
  <2> SUFFICES ASSUME NEW v \in Workers, pc'[v] \in Checked, ev'[v].mem \notin Legacy
               PROVE  Clear(ev[v])'
    BY DEF CheckedIsClear
  <2>1. CASE v = w
    <3>1. ev'[v] = e /\ pc'[w] \in {"list", "checkpoint"}
      BY <2>1, <1>2, <1>3 DEF IInv, Typing, Checked, Busy
    <3>2. \A f \in UpsertsBelow(e) :
              f \in Key /\ status[f] \in {"completed", "cancelled", "absent"}
      BY <3>1, <1>3 DEF IInv, Typing, UpsertsBelow, Predecessors, Settled
    <3>3. \A f \in UpsertsBelow(e) : status[f] # "absent"
      BY <1>1, <2>1, <3>1 DEF IInv, NoGaps
    <3>4. \A f \in UpsertsBelow(e) : status[f] = "completed" \/ redacted[f]
      BY <3>2, <3>3 DEF IInv, CancelledIsRedacted
    <3>5. QED
      BY <3>1, <3>4, <1>2 DEF Clear
  <2>2. CASE v # w
    <3>1. ev'[v] = ev[v] /\ pc[v] \in Checked
      BY <2>2, <1>2, <1>3 DEF IInv, Typing
    <3>2. QED
      BY <3>1, <1>5, CheckedStable
  <2>3. QED
    BY <2>1, <2>2
<1>9. QED
  BY <1>4, <1>5, <1>6, <1>7, <1>8 DEF IInv

\* A worker that defers an event holds its claim, so the event is in doubt.
LEMMA DeferPreserves ==
    ASSUME IInv, NEW w \in Workers, Defer(w)
    PROVE  IInv' /\ Monotone
<1>1. /\ pc[w] = "defer" /\ pc' = [pc EXCEPT ![w] = "next"]
      /\ ev' = [ev EXCEPT ![w] = None]
      /\ UNCHANGED <<live, rev, doomed, redacted, queue>>
  BY DEF Defer, Leave, Goto, memoryVars, deletionVars
<1>2. ev[w] \in Key
  BY <1>1 DEF IInv, ClaimsExist, Busy, Stages
<1>3. CASE Holds(w)
  <2>1. /\ status[ev[w]] = "processing"
        /\ status' = [status EXCEPT ![ev[w]] = "retry"]
    BY <1>3 DEF Defer, Holds
  <2>2. Typing'
    BY <1>1, <1>2, <2>1 DEF IInv, Typing, Statuses, Stages
  <2>3. NoGaps' /\ Monotone /\ DoomedExist'
    <3>1. \A e \in Key :
             /\ status[e] = "absent" <=> status'[e] = "absent"
             /\ status[e] = "completed" => status'[e] = "completed"
      BY <1>2, <2>1 DEF IInv, Typing
    <3>2. QED
      BY <1>1, <3>1, NoNewEvent
  <2>4. ClaimsExist' /\ CancelledIsRedacted'
    BY <1>1, <1>2, <2>1 DEF IInv, Typing, ClaimsExist, CancelledIsRedacted, Busy
  <2>5. AloneInTx'
    <3>1. \A e \in Key : status[e] \in InDoubt => status'[e] \in InDoubt
      BY <2>1 DEF InDoubt, IInv, Typing
    <3>2. \A v \in Workers : pc'[v] \in InTx => pc[v] \in InTx /\ ev'[v] = ev[v]
      BY <1>1 DEF IInv, Typing, InTx
    <3>3. QED
      BY <3>1, <3>2, TxStable
  <2>6. CheckedIsClear'
    <3> SUFFICES ASSUME NEW v \in Workers, pc'[v] \in Checked, ev'[v].mem \notin Legacy
                 PROVE  Clear(ev[v])'
      BY DEF CheckedIsClear
    <3>1. v # w /\ pc[v] \in Checked /\ ev'[v] = ev[v]
      BY <1>1 DEF IInv, Typing, Checked, Busy
    <3>2. QED
      BY <3>1, <2>3, CheckedStable
  <2>7. CompletedInOrder'
    <3>1. \A e \in Key : status'[e] = "completed" => status[e] = "completed"
      BY <1>2, <2>1 DEF IInv, Typing
    <3>2. QED
      BY <3>1, <2>3, CompletedStable
  <2>8. QED
    BY <2>2, <2>3, <2>4, <2>5, <2>6, <2>7 DEF IInv
<1>4. CASE ~Holds(w)
  <2>1. UNCHANGED status
    BY <1>4 DEF Defer
  <2>2. Quiet(w) /\ Typing'
    BY <1>1, <2>1 DEF IInv, Typing, Quiet, Busy, Checked, InTx, Stages
  <2>3. QED
    BY <2>2, QuietPreserves
<1>5. QED
  BY <1>3, <1>4

\* The second half of a settling transaction, for both outcomes: it writes
\* an event that is still in doubt, and no other worker is settling it.
LEMMA SettlePreserves ==
    ASSUME IInv, NEW w \in Workers, NEW st \in Statuses \ {"absent", "cancelled"},
           pc[w] \in InTx, st = "completed" => pc[w] = "completing",
           status' = [status EXCEPT ![ev[w]] = st],
           pc' = [pc EXCEPT ![w] = "next"],
           ev' = [ev EXCEPT ![w] = None],
           UNCHANGED <<live, rev, doomed, redacted, queue>>
    PROVE  IInv' /\ Monotone
<1>1. /\ ev[w] \in Key /\ status[ev[w]] \in InDoubt
      /\ \A v \in Workers \ {w} : pc[v] \in InTx => ev[v] # ev[w]
  BY DEF IInv, ClaimsExist, AloneInTx, InTx, Busy, Stages
<1>2. Typing'
  BY <1>1 DEF IInv, Typing, Stages
<1>3. NoGaps' /\ Monotone /\ DoomedExist'
  <2>1. \A e \in Key :
           /\ status[e] = "absent" <=> status'[e] = "absent"
           /\ status[e] = "completed" => status'[e] = "completed"
    BY <1>1 DEF IInv, Typing, InDoubt
  <2>2. QED
    BY <2>1, NoNewEvent
<1>4. ClaimsExist' /\ CancelledIsRedacted'
  BY <1>1 DEF IInv, Typing, ClaimsExist, CancelledIsRedacted, Busy
<1>5. AloneInTx'
  <2>1. \A v \in Workers : pc'[v] \in InTx =>
            v # w /\ pc[v] \in InTx /\ ev'[v] = ev[v] /\ ev[v] # ev[w]
    BY <1>1 DEF IInv, Typing, InTx
  <2>2. \A e \in Key : e # ev[w] => status'[e] = status[e]
    BY DEF IInv, Typing
  <2>3. QED
    BY <2>1, <2>2, TxStable
<1>6. CheckedIsClear'
  <2> SUFFICES ASSUME NEW v \in Workers, pc'[v] \in Checked, ev'[v].mem \notin Legacy
               PROVE  Clear(ev[v])'
    BY DEF CheckedIsClear
  <2>1. v # w /\ pc[v] \in Checked /\ ev'[v] = ev[v]
    BY DEF IInv, Typing, Checked, Busy
  <2>2. QED
    BY <2>1, <1>3, CheckedStable
<1>7. CompletedInOrder'
  <2>1. ASSUME NEW e \in Key, status'[e] = "completed", e.mem \notin Legacy
        PROVE  status[e] = "completed" \/ Clear(e)
    <3>1. CASE e # ev[w]
      BY <2>1, <3>1, <1>1 DEF IInv, Typing
    <3>2. CASE e = ev[w]
      <4>1. pc[w] \in Checked
        BY <2>1, <3>2, <1>1 DEF IInv, Typing, Checked, Busy, Stages
      <4>2. QED
        BY <2>1, <3>2, <4>1 DEF IInv, CheckedIsClear
    <3>3. QED
      BY <3>1, <3>2
  <2>2. QED
    BY <2>1, <1>3, CompletedStable
<1>8. QED
  BY <1>2, <1>3, <1>4, <1>5, <1>6, <1>7 DEF IInv

\* Completing settles an event that is clear (the earlier ones are settled).
LEMMA CompletePreserves ==
    ASSUME IInv, NEW w \in Workers, CompleteWrite(w)
    PROVE  IInv' /\ Monotone
<1>1. /\ pc[w] = "completing"
      /\ status' = [status EXCEPT ![ev[w]] = "completed"]
      /\ pc' = [pc EXCEPT ![w] = "next"] /\ ev' = [ev EXCEPT ![w] = None]
      /\ UNCHANGED <<live, rev, doomed, redacted, queue>>
  BY DEF CompleteWrite, Leave, Goto, memoryVars, deletionVars
<1>2. "completed" \in Statuses \ {"absent", "cancelled"} /\ pc[w] \in InTx
  BY <1>1 DEF Statuses, InTx
<1>3. QED
  BY <1>1, <1>2, SettlePreserves

\* Failing settles a claim with a retry or a dead letter.
LEMMA FailPreserves ==
    ASSUME IInv, NEW w \in Workers, FailWrite(w)
    PROVE  IInv' /\ Monotone
<1>1. PICK st \in {"dead_letter", "retry"} : status' = [status EXCEPT ![ev[w]] = st]
  BY DEF FailWrite
<1>2. /\ pc[w] = "failing"
      /\ pc' = [pc EXCEPT ![w] = "next"] /\ ev' = [ev EXCEPT ![w] = None]
      /\ UNCHANGED <<live, rev, doomed, redacted, queue>>
  BY DEF FailWrite, Leave, Goto, memoryVars, deletionVars
<1>3. /\ st \in Statuses \ {"absent", "cancelled"} /\ pc[w] \in InTx
      /\ st # "completed"
  BY <1>2 DEF Statuses, InTx
<1>4. QED
  BY <1>1, <1>2, <1>3, SettlePreserves

-----------------------------------------------------------------------------
\* The empty outbox satisfies the inductive invariant.
LEMMA InitIInv == Init => IInv
<1> SUFFICES ASSUME Init
             PROVE  IInv
  OBVIOUS
<1> USE DEF Init
<1>1. Typing
  <2>1. Legacy \subseteq Memories /\ 0 \in 0..MaxVersion
    BY ConstantsAssumption
  <2>2. QED
    BY <2>1 DEF Typing, Statuses, Stages
<1>2. ClaimsExist /\ AloneInTx /\ DoomedExist /\ CancelledIsRedacted /\ CheckedIsClear
  BY DEF ClaimsExist, AloneInTx, DoomedExist, CancelledIsRedacted, CheckedIsClear, Busy, Checked, InTx
<1>3. NoGaps /\ CompletedInOrder
  BY DEF NoGaps, CompletedInOrder, UpsertsBelow, Predecessors
<1>4. QED
  BY <1>1, <1>2, <1>3 DEF IInv

\* Every step keeps the inductive invariant and takes up no completed event.
LEMMA StepIInv == IInv /\ [Next]_vars => IInv' /\ Monotone
<1> SUFFICES ASSUME IInv, [Next]_vars
             PROVE  IInv' /\ Monotone
  OBVIOUS
<1>1. CASE \E m \in Memories : Persist(m)
  BY <1>1, PersistPreserves
<1>2. CASE \E m \in Memories : DeleteRead(m) \/ DeleteWrite(m)
  BY <1>2, DeleteReadPreserves, DeletePreserves
<1>3. CASE \E e \in Key : Replay(e)
  BY <1>3, ReplayPreserves
<1>4. CASE \E w \in Workers : ClaimAny(w)
  BY <1>4, ClaimPreserves DEF ClaimAny
<1>5. CASE \E w \in Workers : \E e \in queue[w] : Begin(w, e)
  BY <1>5, BeginPreserves
<1>6. CASE \E w \in Workers : Defer(w)
  BY <1>6, DeferPreserves
<1>7. CASE \E w \in Workers : CompleteWrite(w)
  BY <1>7, CompletePreserves
<1>8. CASE \E w \in Workers : FailWrite(w)
  BY <1>8, FailPreserves
<1>9. CASE \E w \in Workers : QuietStep(w)
  <2>1. PICK w \in Workers : QuietStep(w)
    BY <1>9
  <2>2. Quiet(w) /\ Typing'
    BY <2>1, QuietSteps DEF IInv
  <2>3. QED
    BY <2>2, QuietPreserves
<1>10. CASE (\E e \in Key : TaskEnds(e)) \/ UNCHANGED vars
  <2>1. UNCHANGED <<live, rev, doomed, status, redacted, pc, queue, ev>>
    BY <1>10 DEF TaskEnds, TaskFinishes, vars, memoryVars, deletionVars, outboxVars, workerVars
  <2>2. QED
    BY <2>1 DEF IInv, Typing, ClaimsExist, AloneInTx, DoomedExist, CancelledIsRedacted,
                NoGaps, CheckedIsClear, Clear, CompletedInOrder, Monotone
<1>11. QED
  BY <1>1, <1>2, <1>3, <1>4, <1>5, <1>6, <1>7, <1>8, <1>9, <1>10
     DEF Next, Request, Step, QuietStep

\* The inductive invariant holds in every reachable state.
LEMMA Invariance == Spec => []IInv
<1>1. Init => IInv
  BY InitIInv
<1>2. IInv /\ [Next]_vars => IInv'
  BY StepIInv
<1>3. QED
  BY <1>1, <1>2, PTL DEF Spec

\* Versions are exported in order: a completed event leaves no earlier upsert
\* of its memory that could still send its content.
THEOREM ExportsInOrder == Spec => []CompletedInOrder
<1>1. IInv => CompletedInOrder
  BY DEF IInv
<1>2. QED
  BY <1>1, Invariance, PTL

\* A completed event is never taken up again, whichever workers answer late.
THEOREM CompletionIsFinal == Spec => CompletedIsFinal
<1>1. IInv /\ [Next]_vars =>
        [\A e \in Key : status[e] = "completed" =>
            status'[e] = "completed" \/ CancelledByDeletion(e)']_vars
  BY StepIInv DEF Monotone, CancelledByDeletion
<1>2. QED
  BY <1>1, Invariance, PTL DEF Spec, CompletedIsFinal

(***************************************************************************)
(* The requests and the workers implement MemoryOutbox, whatever the       *)
(* number of workers and with deleted ids stored again.                    *)
(***************************************************************************)

\* A deletion in progress has its memory, and only what exists is redacted.
OutboxInv ==
    /\ deleting \subseteq live
    /\ \A e \in Key : redacted[e] => status[e] # "absent"

\* What became of an event, by cases, now and after a step.
LEMMA EntryStates ==
    ASSUME NEW e \in Key
    PROVE  /\ status[e] = "absent" => EntryState(e) = "none"
           /\ status[e] # "absent" /\ redacted[e] => EntryState(e) = "void"
           /\ status[e] = "completed" /\ ~redacted[e] => EntryState(e) = "sent"
           /\ status[e] = "dead_letter" /\ ~redacted[e] => EntryState(e) = "stuck"
           /\ status[e] \in InDoubt \cup {"pending"} /\ ~redacted[e] => EntryState(e) = "waiting"
           /\ status'[e] = "absent" => EntryState(e)' = "none"
           /\ status'[e] # "absent" /\ redacted'[e] => EntryState(e)' = "void"
           /\ status'[e] = "completed" /\ ~redacted'[e] => EntryState(e)' = "sent"
           /\ status'[e] = "dead_letter" /\ ~redacted'[e] => EntryState(e)' = "stuck"
           /\ status'[e] \in InDoubt \cup {"pending"} /\ ~redacted'[e]
                => EntryState(e)' = "waiting"
           /\ EntryState(e) = "none" => status[e] = "absent"
           /\ status'[e] = status[e] /\ redacted'[e] = redacted[e]
                => EntryState(e)' = EntryState(e)
  BY DEF EntryState, InDoubt

\* A step that changes no memory and leaves every event what it was.
LEMMA OutboxStutters ==
    ASSUME UNCHANGED <<live, rev>>, \A e \in Key : EntryState(e)' = EntryState(e)
    PROVE  UNCHANGED Outbox!memoryOutboxVars
  BY DEF Outbox!memoryOutboxVars

\* A step that changes no memory and one event.
LEMMA EntryBecomes ==
    ASSUME UNCHANGED <<live, rev>>, NEW e \in Key, NEW before, NEW after,
           EntryState(e) = before, EntryState(e)' = after,
           \A f \in Key \ {e} : EntryState(f)' = EntryState(f)
    PROVE  Outbox!Becomes(e, before, after)
<1>1. [f \in Key |-> EntryState(f)]' = [[f \in Key |-> EntryState(f)] EXCEPT ![e] = after]
  OBVIOUS
<1>2. QED
  BY <1>1 DEF Outbox!Becomes

\* Queueing an event changes it only when there was none.
LEMMA QueuedEntries ==
    ASSUME NEW e \in Key, NEW A, NEW B,
           A = [f \in Key |-> A[f]], B = [f \in Key |-> B[f]],
           B[e] = IF A[e] = "none" THEN "waiting" ELSE A[e],
           \A f \in Key \ {e} : B[f] = A[f]
    PROVE  B = Outbox!Queued(e, A)
<1>1. CASE A[e] = "none"
  <2>1. B = [A EXCEPT ![e] = "waiting"]
    BY <1>1
  <2>2. QED
    BY <1>1, <2>1 DEF Outbox!Queued
<1>2. CASE A[e] # "none"
  <2>1. \A f \in Key : B[f] = A[f]
    BY <1>2
  <2>2. B = A
    BY <2>1
  <2>3. QED
    BY <1>2, <2>2 DEF Outbox!Queued
<1>3. QED
  BY <1>1, <1>2

\* Storing a memory queues the upload of its next version, unless it is known.
LEMMA PersistIsStore ==
    ASSUME IInv, OutboxInv, NEW m \in Memories, Persist(m)
    PROVE  Outbox!Store(m)
<1> DEFINE n == NextRevision(m)
<1>1. MaxVersion \in Nat /\ n \in Nat /\ n <= MaxVersion /\ n < MaxVersion + 1
  <2>1. rev[m] \in 0..MaxVersion /\ MaxVersion \in Nat /\ n <= MaxVersion
    BY EventKeys DEF Persist, IInv, Typing
  <2>2. QED
    BY <2>1 DEF NextRevision
<1>2. PICK u \in Key : u = Upsert(m, n)
  <2>1. n \in 1..MaxVersion
    BY <1>1, EventKeys DEF NextRevision, IInv, Typing
  <2>2. QED
    BY <2>1, EventKeys
<1>3. /\ UNCHANGED redacted
      /\ live' = live \cup {m} /\ rev' = [rev EXCEPT ![m] = n]
      /\ status' = IF status[u] = "absent" THEN [status EXCEPT ![u] = "pending"] ELSE status
  BY <1>2 DEF Persist, EnqueuedStatus
<1>4. Outbox!NextVersion(m) = n /\ Outbox!Upload(m, n) = u
  BY <1>2 DEF Outbox!NextVersion, Outbox!Upload, NextRevision, Upsert
<1> HIDE DEF n
<1>5. EntryState(u)' = IF EntryState(u) = "none" THEN "waiting" ELSE EntryState(u)
  <2>1. CASE status[u] = "absent"
    <3>1. ~redacted[u] /\ ~redacted'[u] /\ status'[u] = "pending"
      BY <1>2, <1>3, <2>1 DEF OutboxInv, IInv, Typing
    <3>2. QED
      BY <3>1, <1>2, <2>1, EntryStates
  <2>2. CASE status[u] # "absent"
    <3>1. UNCHANGED <<status, redacted>>
      BY <1>3, <2>2
    <3>2. QED
      BY <1>2, <2>2, <3>1, EntryStates
  <2>3. QED
    BY <2>1, <2>2
<1>6. ASSUME NEW f \in Key \ {u}
      PROVE  EntryState(f)' = EntryState(f)
  <2>1. status'[f] = status[f] /\ redacted'[f] = redacted[f]
    BY <1>2, <1>3 DEF IInv, Typing
  <2>2. QED
    BY <2>1, EntryStates
<1>7. [e \in Key |-> EntryState(e)]' = Outbox!Queued(u, [e \in Key |-> EntryState(e)])
  <2> DEFINE A == [e \in Key |-> EntryState(e)]
             B == [e \in Key |-> EntryState(e)']
  <2>1. /\ A = [e \in Key |-> A[e]] /\ B = [e \in Key |-> B[e]]
        /\ B[u] = IF A[u] = "none" THEN "waiting" ELSE A[u]
        /\ \A f \in Key \ {u} : B[f] = A[f]
    BY <1>2, <1>5, <1>6
  <2> HIDE DEF A, B
  <2>2. B = Outbox!Queued(u, A)
    BY <1>2, <2>1, QueuedEntries
  <2>3. QED
    BY <2>2 DEF A, B
<1>8. QED
  BY <1>1, <1>3, <1>4, <1>7 DEF Outbox!Store

\* Deleting a memory voids what is queued for it and queues its removal.
LEMMA DeleteIsDelete ==
    ASSUME IInv, OutboxInv, NEW m \in Memories, DeleteWrite(m)
    PROVE  Outbox!Delete(m)
<1> DEFINE old == [e \in Key |-> EntryState(e)]
           voided == [e \in Key |-> IF e.mem = m /\ old[e] # "none" THEN "void" ELSE old[e]]
           st == [e \in Key |-> IF e \in doomed \cap EventsOf(m) THEN "cancelled"
                                ELSE status[e]]
<1>1. /\ m \in live
      /\ live' = live \ {m} /\ rev' = [rev EXCEPT ![m] = 0]
  BY DEF DeleteWrite, OutboxInv
<1>2. PICK d \in Key : d.mem = m /\ d = Deletion(m, rev[m] + 1)
  <2>1. rev[m] \in 0..MaxVersion /\ MaxVersion \in Nat
    BY EventKeys DEF IInv, Typing
  <2>2. rev[m] + 1 \in 1..(MaxVersion + 1)
    BY <2>1
  <2>3. QED
    BY <2>2, EventKeys
<1>3. /\ status' = IF status[d] = "absent" THEN [st EXCEPT ![d] = "pending"] ELSE st
      /\ redacted' = [e \in Key |-> redacted[e] \/ (e.mem = m /\ status[e] # "absent")]
  BY <1>2 DEF DeleteWrite, EnqueuedStatus, EventsOf
<1>4. \A e \in Key : st[e] = status[e] \/ (st[e] = "cancelled" /\ e.mem = m /\ status[e] # "absent")
  BY DEF IInv, DoomedExist, EventsOf
<1>5. Outbox!Removal(m, rev[m] + 1) = d /\ Outbox!Voided(m) = voided
  BY <1>2 DEF Outbox!Removal, Outbox!Voided, Outbox!Entries, Key, Deletion
<1>6. \A e \in Key : old[e] = EntryState(e) /\ (old[e] = "none" <=> status[e] = "absent")
  BY EntryStates
<1> HIDE DEF st
<1>7. ASSUME NEW e \in Key, status[e] # "absent" \/ e # d
      PROVE  EntryState(e)' = voided[e]
  <2>1. status'[e] = st[e] /\ redacted'[e] = (redacted[e] \/ (e.mem = m /\ status[e] # "absent"))
    <3>1. status'[e] = st[e]
      BY <1>3, <1>7 DEF st
    <3>2. redacted'[e] = (redacted[e] \/ (e.mem = m /\ status[e] # "absent"))
      BY <1>3, Zenon
    <3>3. QED
      BY <3>1, <3>2
  <2>2. CASE e.mem = m /\ status[e] # "absent"
    <3>1. status'[e] # "absent" /\ redacted'[e]
      BY <2>1, <2>2, <1>4
    <3>2. EntryState(e)' = "void"
      BY <3>1, EntryStates
    <3>3. QED
      BY <2>2, <3>2, <1>6
  <2>3. CASE ~(e.mem = m /\ status[e] # "absent")
    <3>1. status'[e] = status[e] /\ redacted'[e] = redacted[e]
      BY <2>1, <2>3, <1>4 DEF IInv, Typing
    <3>2. EntryState(e)' = EntryState(e)
      BY <3>1, EntryStates
    <3>3. voided[e] = old[e]
      BY <2>3, <1>6
    <3>4. QED
      BY <3>2, <3>3, <1>6
  <2>4. QED
    BY <2>2, <2>3
<1>8. status[d] = "absent" => EntryState(d)' = "waiting"
  <2>1. SUFFICES ASSUME status[d] = "absent"
                 PROVE  EntryState(d)' = "waiting"
    OBVIOUS
  <2>2. ~redacted[d]
    BY <1>2, <2>1 DEF OutboxInv
  <2>3. redacted'[d] = (redacted[d] \/ (d.mem = m /\ status[d] # "absent"))
    BY <1>2, <1>3, Zenon
  <2>4. status'[d] = "pending"
    BY <1>2, <1>3, <2>1 DEF st
  <2>5. ~redacted'[d]
    BY <2>1, <2>2, <2>3
  <2>6. QED
    BY <1>2, <2>4, <2>5, EntryStates
<1>9. [e \in Key |-> EntryState(e)]' = Outbox!Queued(d, voided)
  <2> DEFINE B == [e \in Key |-> EntryState(e)']
  <2>1. voided = [e \in Key |-> voided[e]] /\ B = [e \in Key |-> B[e]]
    OBVIOUS
  <2>2. B[d] = IF voided[d] = "none" THEN "waiting" ELSE voided[d]
    <3>1. voided[d] = "none" <=> status[d] = "absent"
      BY <1>2, <1>6
    <3>2. QED
      BY <1>2, <1>7, <1>8, <3>1
  <2>3. \A f \in Key \ {d} : B[f] = voided[f]
    BY <1>7
  <2> HIDE DEF B, voided
  <2>4. B = Outbox!Queued(d, voided)
    BY <1>2, <2>1, <2>2, <2>3, QueuedEntries
  <2>5. QED
    BY <2>4 DEF B
<1>10. QED
  BY <1>1, <1>5, <1>9 DEF Outbox!Delete

\* A step that moves one event between waiting, sent and stuck, or that is of an
\* event whose payload is gone.
LEMMA SettledEntry ==
    ASSUME IInv, UNCHANGED <<live, rev, redacted>>, NEW e \in Key,
           NEW st \in Statuses \ {"absent"}, status' = [status EXCEPT ![e] = st],
           status[e] # "absent"
    PROVE  /\ redacted[e] => UNCHANGED Outbox!memoryOutboxVars
           /\ ~redacted[e] => Outbox!Becomes(e, EntryState(e), EntryState(e)')
           /\ status'[e] = st
<1>1. status'[e] = st
  BY DEF IInv, Typing
<1>2. ASSUME NEW f \in Key \ {e}
      PROVE  EntryState(f)' = EntryState(f)
  <2>1. status'[f] = status[f] /\ redacted'[f] = redacted[f]
    BY DEF IInv, Typing
  <2>2. QED
    BY <2>1, EntryStates
<1>3. ASSUME redacted[e]
      PROVE  UNCHANGED Outbox!memoryOutboxVars
  <2>1. EntryState(e) = "void" /\ EntryState(e)' = "void"
    BY <1>1, <1>3, EntryStates
  <2>2. QED
    BY <1>2, <2>1, OutboxStutters
<1>4. Outbox!Becomes(e, EntryState(e), EntryState(e)')
  BY <1>2, EntryBecomes
<1>5. QED
  BY <1>1, <1>3, <1>4

\* A step that changes no event but by claiming or deferring it.
LEMMA WaitingStays ==
    ASSUME IInv, UNCHANGED <<live, rev, redacted>>,
           \A e \in Key : \/ status'[e] = status[e]
                          \/ /\ status[e] \in InDoubt \cup {"pending"}
                             /\ status'[e] \in InDoubt \cup {"pending"}
    PROVE  UNCHANGED Outbox!memoryOutboxVars
<1>1. ASSUME NEW e \in Key
      PROVE  EntryState(e)' = EntryState(e)
  <2>1. redacted'[e] = redacted[e]
    OBVIOUS
  <2>2. CASE status'[e] = status[e]
    BY <2>1, <2>2, EntryStates
  <2>3. CASE status[e] \in InDoubt \cup {"pending"} /\ status'[e] \in InDoubt \cup {"pending"}
    <3>1. status[e] # "absent" /\ status'[e] # "absent"
      BY <2>3 DEF InDoubt
    <3>2. CASE redacted[e]
      BY <2>1, <3>1, <3>2, EntryStates
    <3>3. CASE ~redacted[e]
      BY <2>1, <2>3, <3>3, EntryStates
    <3>4. QED
      BY <3>2, <3>3
  <2>4. QED
    BY <2>2, <2>3
<1>2. QED
  BY <1>1, OutboxStutters

\* An operator's replay puts an event back.
LEMMA ReplayIsPutBack ==
    ASSUME IInv, NEW e \in Key, Replay(e)
    PROVE  Outbox!PutBack(e) \/ UNCHANGED Outbox!memoryOutboxVars
<1>1. /\ status[e] = "dead_letter" /\ status' = [status EXCEPT ![e] = "pending"]
      /\ UNCHANGED <<live, rev, redacted>>
  BY DEF Replay, memoryVars
<1>2. /\ redacted[e] => UNCHANGED Outbox!memoryOutboxVars
      /\ ~redacted[e] => Outbox!Becomes(e, EntryState(e), EntryState(e)')
      /\ status'[e] = "pending"
  BY <1>1, SettledEntry DEF Statuses
<1>3. ~redacted[e] => EntryState(e) = "stuck" /\ EntryState(e)' = "waiting"
  BY <1>1, <1>2, EntryStates
<1>4. QED
  BY <1>2, <1>3 DEF Outbox!PutBack

\* Completing exports an event that waits, in turn; an event cancelled while the
\* transaction was under way is void.
LEMMA CompleteIsExport ==
    ASSUME IInv, NEW w \in Workers, CompleteWrite(w)
    PROVE  Outbox!Export(ev[w]) \/ UNCHANGED Outbox!memoryOutboxVars
<1>1. /\ pc[w] = "completing" /\ status' = [status EXCEPT ![ev[w]] = "completed"]
      /\ UNCHANGED <<live, rev, redacted>>
  BY DEF CompleteWrite, memoryVars
<1>2. PICK e \in Key : e = ev[w]
  BY <1>1 DEF IInv, ClaimsExist, Busy, Stages
<1>3. status[e] \in InDoubt
  BY <1>1, <1>2 DEF IInv, AloneInTx, InTx
<1>4. /\ redacted[e] => UNCHANGED Outbox!memoryOutboxVars
      /\ ~redacted[e] => Outbox!Becomes(e, EntryState(e), EntryState(e)')
      /\ status'[e] = "completed"
  BY <1>1, <1>2, <1>3, SettledEntry DEF Statuses, InDoubt
<1>5. ~redacted[e] => EntryState(e) = "waiting" /\ EntryState(e)' = "sent"
  BY <1>1, <1>3, <1>4, EntryStates
<1>6. ASSUME e.mem \notin Legacy, NEW f \in Key, f.mem = e.mem, f.ver < e.ver, ~f.del
      PROVE  EntryState(f) \in {"sent", "void"}
  <2>1. Clear(e)
    BY <1>1, <1>2, <1>6 DEF IInv, CheckedIsClear, Checked, Busy, Stages
  <2>2. status[f] = "completed" \/ redacted[f]
    BY <2>1, <1>6 DEF Clear, UpsertsBelow, Predecessors
  <2>3. status[f] # "absent"
    BY <1>2, <1>3, <1>6 DEF IInv, NoGaps, UpsertsBelow, Predecessors, InDoubt
  <2>4. QED
    BY <2>2, <2>3, EntryStates
<1>7. e.mem \notin Legacy => Outbox!InTurn(e)
  BY <1>6 DEF Outbox!InTurn, Outbox!Entries, Key
<1>8. QED
  BY <1>2, <1>4, <1>5, <1>7 DEF Outbox!Export

\* Failing leaves an event waiting, or gives it up.
LEMMA FailIsGiveUp ==
    ASSUME IInv, NEW w \in Workers, FailWrite(w)
    PROVE  Outbox!GiveUp(ev[w]) \/ UNCHANGED Outbox!memoryOutboxVars
<1>1. PICK st \in {"dead_letter", "retry"} : status' = [status EXCEPT ![ev[w]] = st]
  BY DEF FailWrite
<1>2. /\ pc[w] = "failing"
      /\ UNCHANGED <<live, rev, redacted>>
  BY DEF FailWrite, memoryVars
<1>3. PICK e \in Key : e = ev[w]
  BY <1>2 DEF IInv, ClaimsExist, Busy, Stages
<1>4. status[e] \in InDoubt
  BY <1>2, <1>3 DEF IInv, AloneInTx, InTx
<1>5. CASE st = "retry"
  <2>1. \A f \in Key : \/ status'[f] = status[f]
                       \/ status[f] \in InDoubt /\ status'[f] \in InDoubt
    BY <1>1, <1>3, <1>4, <1>5 DEF IInv, Typing, InDoubt
  <2>2. QED
    BY <1>2, <2>1, WaitingStays
<1>6. CASE st = "dead_letter"
  <2>1. /\ redacted[e] => UNCHANGED Outbox!memoryOutboxVars
        /\ ~redacted[e] => Outbox!Becomes(e, EntryState(e), EntryState(e)')
        /\ status'[e] = "dead_letter"
    BY <1>1, <1>2, <1>3, <1>4, <1>6, SettledEntry DEF Statuses, InDoubt
  <2>2. ~redacted[e] => EntryState(e) = "waiting" /\ EntryState(e)' = "stuck"
    BY <1>2, <1>4, <2>1, EntryStates
  <2>3. QED
    BY <1>3, <2>1, <2>2 DEF Outbox!GiveUp
<1>7. QED
  BY <1>5, <1>6

\* Every step is one of the outbox's, or leaves it alone, and keeps OutboxInv.
LEMMA OutboxStep ==
    IInv /\ OutboxInv /\ [Next]_vars =>
        OutboxInv' /\ (Outbox!MemoryOutboxNext \/ UNCHANGED Outbox!memoryOutboxVars)
<1> SUFFICES ASSUME IInv, OutboxInv, [Next]_vars
             PROVE  OutboxInv' /\ (Outbox!MemoryOutboxNext \/ UNCHANGED Outbox!memoryOutboxVars)
  OBVIOUS
<1>1. Monotone
  BY StepIInv
<1>2. UNCHANGED <<deleting, live, redacted>> => OutboxInv'
  BY <1>1 DEF OutboxInv, Monotone
<1> USE DEF Outbox!MemoryOutboxNext
<1>3. CASE \E m \in Memories : Persist(m)
  <2>1. PICK m \in Memories : Persist(m)
    BY <1>3
  <2>2. UNCHANGED <<deleting, redacted>> /\ live \subseteq live'
    BY <2>1 DEF Persist, deletionVars
  <2>3. OutboxInv'
    BY <2>2, <1>1 DEF OutboxInv, Monotone
  <2>4. QED
    BY <2>1, <2>3, PersistIsStore
<1>4. CASE \E m \in Memories : DeleteRead(m)
  <2>1. PICK m \in Memories : DeleteRead(m)
    BY <1>4
  <2>2. UNCHANGED <<live, rev, status, redacted>> /\ deleting' \subseteq live
    BY <2>1 DEF DeleteRead, memoryVars, outboxVars, OutboxInv
  <2>3. QED
    BY <2>2, WaitingStays DEF OutboxInv
<1>5. CASE \E m \in Memories : DeleteWrite(m)
  <2>1. PICK m \in Memories : DeleteWrite(m)
    BY <1>5
  <2>2. /\ deleting' = deleting \ {m} /\ live' = live \ {m}
        /\ \A e \in Key : redacted'[e] => redacted[e] \/ status[e] # "absent"
    BY <2>1 DEF DeleteWrite
  <2>3. OutboxInv'
    BY <2>2, <1>1 DEF OutboxInv, Monotone
  <2>4. QED
    BY <2>1, <2>3, DeleteIsDelete
<1>6. CASE \E e \in Key : Replay(e)
  <2>1. PICK e \in Key : Replay(e)
    BY <1>6
  <2>2. UNCHANGED <<deleting, live, redacted>>
    BY <2>1 DEF Replay, memoryVars, deletionVars
  <2>3. QED
    BY <2>1, <2>2, <1>2, ReplayIsPutBack DEF Outbox!Entries, Key
<1>7. CASE \E w \in Workers : ClaimAny(w)
  <2>1. PICK w \in Workers, batch \in SUBSET Eligible : Claim(w, batch)
    BY <1>7 DEF ClaimAny
  <2>2. /\ UNCHANGED <<deleting, live, rev, redacted>>
        /\ status' = [e \in Key |-> IF e \in batch THEN "processing" ELSE status[e]]
    BY <2>1 DEF Claim, memoryVars, deletionVars
  <2>3. \A e \in Key : \/ status'[e] = status[e]
                       \/ /\ status[e] \in InDoubt \cup {"pending"}
                          /\ status'[e] \in InDoubt \cup {"pending"}
    BY <2>1, <2>2 DEF Eligible, InDoubt
  <2>4. QED
    BY <2>2, <2>3, <1>2, WaitingStays
<1>8. CASE \E w \in Workers : \/ \E e \in queue[w] : Begin(w, e)
                              \/ QuietStep(w)
  <2>1. PICK w \in Workers : (\E e \in queue[w] : Begin(w, e)) \/ QuietStep(w)
    BY <1>8
  <2>2. UNCHANGED <<deleting, live, rev, status, redacted>>
    BY <2>1 DEF Begin, QuietStep, BatchDone, Checkpoint, SessionKey, OpenSession,
        RecordSession, LatestTask, AppendMessage, CommitSession, RecordSyncing, AwaitTask,
        ListSessions, DeleteSession, CompleteRead, FailRead, Crash,
        memoryVars, deletionVars, outboxVars
  <2>3. QED
    BY <2>2, <1>2, WaitingStays
<1>9. CASE \E w \in Workers : Defer(w)
  <2>1. PICK w \in Workers : Defer(w)
    BY <1>9
  <2>2. UNCHANGED <<deleting, live, rev, redacted>>
    BY <2>1 DEF Defer, memoryVars, deletionVars
  <2>3. \A e \in Key : status'[e] = status[e] \/ (status[e] \in InDoubt /\ status'[e] \in InDoubt)
    BY <2>1 DEF Defer, Holds, InDoubt, IInv, Typing
  <2>4. QED
    BY <2>2, <2>3, <1>2, WaitingStays
<1>10. CASE \E w \in Workers : CompleteWrite(w)
  <2>1. PICK w \in Workers : CompleteWrite(w)
    BY <1>10
  <2>2. UNCHANGED <<deleting, live, redacted>> /\ ev[w] \in Key
    BY <2>1 DEF CompleteWrite, memoryVars, deletionVars, IInv, ClaimsExist, Busy, Stages
  <2>3. QED
    BY <2>1, <2>2, <1>2, CompleteIsExport DEF Outbox!Entries, Key
<1>11. CASE \E w \in Workers : FailWrite(w)
  <2>1. PICK w \in Workers : FailWrite(w)
    BY <1>11
  <2>2. UNCHANGED <<deleting, live, redacted>> /\ ev[w] \in Key
    BY <2>1 DEF FailWrite, memoryVars, deletionVars, IInv, ClaimsExist, Busy, Stages
  <2>3. QED
    BY <2>1, <2>2, <1>2, FailIsGiveUp DEF Outbox!Entries, Key
<1>12. CASE (\E e \in Key : TaskEnds(e)) \/ UNCHANGED vars
  <2>1. UNCHANGED <<deleting, live, rev, status, redacted>>
    BY <1>12 DEF TaskEnds, TaskFinishes, vars, memoryVars, deletionVars, outboxVars
  <2>2. QED
    BY <2>1, <1>2, WaitingStays
<1>13. QED
  BY <1>3, <1>4, <1>5, <1>6, <1>7, <1>8, <1>9, <1>10, <1>11, <1>12
     DEF Next, Request, Step, QuietStep

\* The first state is the first of the outbox.
LEMMA OutboxStart == Init => OutboxInv /\ Outbox!MemoryOutboxInit
<1> SUFFICES ASSUME Init
             PROVE  OutboxInv /\ Outbox!MemoryOutboxInit
  OBVIOUS
<1>1. OutboxInv
  BY DEF Init, OutboxInv
<1>2. [e \in Key |-> EntryState(e)] = [e \in Outbox!Entries |-> "none"]
  <2>1. \A e \in Key : EntryState(e) = "none"
    BY EntryStates DEF Init
  <2>2. QED
    BY <2>1 DEF Outbox!Entries, Key
<1>3. QED
  BY <1>1, <1>2 DEF Init, Outbox!MemoryOutboxInit

\* Requests and workers implement the outbox, for any number of memories and
\* workers, whatever is lost, late, repeated or stored again.
THEOREM OutboxIsImplemented == Spec => IsMemoryOutbox
<1>1. Init => IInv /\ OutboxInv /\ Outbox!MemoryOutboxInit
  BY InitIInv, OutboxStart
<1>2. IInv /\ OutboxInv /\ [Next]_vars =>
        /\ IInv' /\ OutboxInv'
        /\ [UNCHANGED vars \/ Outbox!MemoryOutboxNext]_(Outbox!memoryOutboxVars)
  BY StepIInv, OutboxStep
<1>3. QED
  BY <1>1, <1>2, PTL DEF Spec, IsMemoryOutbox

(***************************************************************************)
(* The type invariant.                                                     *)
(***************************************************************************)

\* There are finitely many dedupe keys.
LEMMA KeyFinite == IsFiniteSet(Key)
<1> DEFINE Triples == (Memories \X (1..(MaxVersion + 1))) \X BOOLEAN
           f == [t \in Triples |-> [mem |-> t[1][1], ver |-> t[1][2], del |-> t[2]]]
<1>1. IsFiniteSet(Triples)
  <2>1. IsFiniteSet(1..(MaxVersion + 1))
    BY ConstantsAssumption, FS_Interval
  <2>2. IsFiniteSet(Memories \X (1..(MaxVersion + 1)))
    BY <2>1, ConstantsAssumption, FS_Product
  <2>3. IsFiniteSet(BOOLEAN)
    <3>1. BOOLEAN = ({} \cup {TRUE}) \cup {FALSE}
      OBVIOUS
    <3>2. IsFiniteSet({})
      BY FS_EmptySet
    <3>3. IsFiniteSet({} \cup {TRUE})
      BY <3>2, FS_AddElement
    <3>4. QED
      BY <3>1, <3>3, FS_AddElement
  <2>4. QED
    BY <2>2, <2>3, FS_Product
<1>2. f \in Surjection(Triples, Key)
  <2>1. f \in [Triples -> Key]
    BY DEF Key
  <2>2. ASSUME NEW k \in Key
        PROVE  \E t \in Triples : f[t] = k
    <3>1. /\ <<<<k.mem, k.ver>>, k.del>> \in Triples
          /\ k = [mem |-> k.mem, ver |-> k.ver, del |-> k.del]
      BY DEF Key
    <3>2. QED
      BY <3>1
  <2>3. QED
    BY <2>1, <2>2 DEF Surjection
<1>3. QED
  BY <1>1, <1>2, FS_Surjection

\* A place in creation order is a natural number.
LEMMA AgeType == Age \in Nat
<1>1. IsFiniteSet({e \in Key : status[e] # "absent"})
  BY KeyFinite, FS_Subset
<1>2. QED
  BY <1>1, FS_CardinalityType DEF Age

\* Replacing an element of a sequence keeps its type.
LEMMA ReplaceInSeq ==
    ASSUME NEW S, NEW s \in Seq(S), NEW i, NEW x, i \in 1..Len(s) => x \in S
    PROVE  [s EXCEPT ![i] = x] \in Seq(S)
<1>1. PICK n \in Nat : s \in [1..n -> S]
  <2>1. Len(s) \in Nat /\ s \in [1..Len(s) -> S]
    OBVIOUS
  <2>2. QED
    BY <2>1
<1>2. Len(s) = n
  BY <1>1
<1>3. [s EXCEPT ![i] = x] \in [1..n -> S]
  BY <1>1, <1>2
<1>4. QED
  BY <1>3

\* The session a worker uses again has a row, a new one comes after all of them.
LEMMA SessionIndexType ==
    ASSUME TypeOK, NEW e \in Key
    PROVE  SessionIndex(e) \in Nat /\ SessionIndex(e) <= Len(rows[e])
<1> DEFINE n == Len(rows[e])
           A == ActiveRows(e)
<1>1. n \in Nat /\ A \subseteq 0..(n - 1)
  BY DEF TypeOK, ActiveRows
<1>2. CASE A = {}
  BY <1>1, <1>2 DEF SessionIndex
<1>3. CASE A # {}
  <2> DEFINE T == {n - i : i \in A}
  <2>1. T \subseteq Nat /\ T # {}
    BY <1>1, <1>3
  <2>2. PICK t \in T : \A u \in T : ~(<<u, t>> \in OpToRel(<, Nat))
    BY <2>1, NatLessThanWellFounded, WFMin
  <2>3. PICK i \in A : t = n - i
    OBVIOUS
  <2>4. \A j \in A : j <= i
    <3> SUFFICES ASSUME NEW j \in A, j > i
                 PROVE  FALSE
      BY <1>1
    <3>1. n - j \in T /\ n - j \in Nat /\ t \in Nat
      BY <2>1
    <3>2. j \in Int /\ i \in Int /\ n \in Int
      BY <1>1
    <3>3. n - j < t
      BY <3>2, <2>3
    <3>4. <<n - j, t>> \in OpToRel(<, Nat)
      BY <3>1, <3>3 DEF OpToRel
    <3>5. QED
      BY <3>1, <3>4, <2>2
  <2>5. SessionIndex(e) \in A
    <3>1. SessionIndex(e) = CHOOSE k \in A : \A j \in A : j <= k
      BY <1>3, Zenon DEF SessionIndex
    <3>2. \E k \in A : \A j \in A : j <= k
      BY <2>4
    <3> HIDE DEF A
    <3>3. (CHOOSE k \in A : \A j \in A : j <= k) \in A
      BY <3>2, Zenon
    <3>4. QED
      BY <3>1, <3>3
  <2>6. QED
    BY <2>5, <1>1
<1>4. QED
  BY <1>2, <1>3

-----------------------------------------------------------------------------
\* A worker at work has an event, and one that uses a session has its number.
SessionStages == {"open", "record", "latest", "append", "commit", "syncing"}
Working ==
    \A w \in Workers :
        /\ pc[w] \notin {"idle", "next"} => ev[w] \in Key
        /\ pc[w] \in SessionStages => ctx[w].idx \in Nat

TInv == TypeOK /\ Working

\* Requests: the outbox and the synchronisation state keep their types.
LEMMA EnqueueTypes ==
    ASSUME TInv, NEW e \in Key, NEW st \in [Key -> Statuses]
    PROVE  /\ EnqueuedStatus(e, st) \in [Key -> Statuses]
           /\ Enqueued(e) \in [Key -> Nat]
BY AgeType DEF TInv, TypeOK, EnqueuedStatus, Enqueued, Statuses

\* Storing, deleting and replaying keep the types; revisions keep their bound.
LEMMA RequestTypes ==
    ASSUME TInv, Request
    PROVE  TInv'
<1> USE DEF TInv, memoryVars, deletionVars, outboxVars, workerVars
<1>1. ASSUME NEW m \in Memories, Persist(m)
      PROVE  TInv'
  <2>1. NextRevision(m) \in 1..MaxVersion
    BY <1>1, ConstantsAssumption DEF Persist, NextRevision, TypeOK
  <2>2. Upsert(m, NextRevision(m)) \in Key
    BY <2>1, ConstantsAssumption DEF Upsert, Key
  <2>3. status' \in [Key -> Statuses] /\ born' \in [Key -> Nat]
    BY <1>1, <2>2, EnqueueTypes DEF Persist, TypeOK
  <2>4. rev' \in [Memories -> 0..MaxVersion] /\ live' \subseteq Memories
    BY <1>1, <2>1, ConstantsAssumption DEF Persist, TypeOK
  <2>5. UNCHANGED <<deleting, doomed, attempts, token, redacted, sync, rows, store, pc, queue, stripped, ev, ctx>>
    BY <1>1 DEF Persist
  <2>6. QED
    BY <2>3, <2>4, <2>5 DEF TypeOK, Working
<1>2. ASSUME NEW m \in Memories, DeleteWrite(m)
      PROVE  TInv'
  <2> DEFINE previous == {e \in EventsOf(m) : status[e] # "absent"}
             st == [e \in Key |-> IF e \in doomed \cap EventsOf(m) THEN "cancelled"
                                 ELSE status[e]]
             d == Deletion(m, rev[m] + 1)
  <2>1. d \in Key
    BY ConstantsAssumption DEF Deletion, Key, TypeOK
  <2>2. st \in [Key -> Statuses]
    BY DEF TypeOK, Statuses
  <2>3. status' \in [Key -> Statuses] /\ born' \in [Key -> Nat]
    BY <1>2, <2>1, <2>2, EnqueueTypes DEF DeleteWrite
  <2>4. redacted' \in [Key -> BOOLEAN]
    BY <1>2 DEF DeleteWrite, TypeOK
  <2>5. /\ rev' \in [Memories -> 0..MaxVersion] /\ live' \subseteq Memories
        /\ deleting' \subseteq Memories /\ doomed' \subseteq Key
    BY <1>2, ConstantsAssumption DEF DeleteWrite, TypeOK
  <2>6. UNCHANGED <<attempts, token, sync, rows, store, pc, queue, stripped, ev, ctx>>
    BY <1>2 DEF DeleteWrite
  <2>7. QED
    BY <2>3, <2>4, <2>5, <2>6 DEF TypeOK, Working
<1>3. ASSUME NEW e \in Key, Replay(e)
      PROVE  TInv'
  <2>1. /\ status' \in [Key -> Statuses] /\ attempts' \in [Key -> Nat]
        /\ token' \in [Key -> Workers \cup {None}]
    BY <1>3 DEF Replay, TypeOK, Statuses
  <2>2. e.mem \in Memories
    BY DEF Key
  <2>3. sync' \in [Memories -> SyncState]
    <3> DEFINE r == [sync[e.mem] EXCEPT !.status = "pending", !.sess = None, !.task = None]
    <3>1. sync[e.mem] \in SyncState
      BY <2>2 DEF TypeOK
    <3>2. r \in SyncState
      BY <3>1 DEF SyncState, SyncStatuses
    <3>3. sync' = sync \/ sync' = [sync EXCEPT ![e.mem] = r]
      BY <1>3 DEF Replay
    <3> HIDE DEF r
    <3>4. QED
      BY <3>2, <3>3, <2>2 DEF TypeOK
  <2>4. rows' \in [Key -> Seq(RowStatuses)]
    <3>1. CASE rows' = rows
      BY <3>1 DEF TypeOK
    <3> DEFINE s == sync[e.mem].sess
    <3>2. CASE /\ s # None
               /\ rows' = [rows EXCEPT ![s.key] = [rows[s.key] EXCEPT ![s.idx + 1] = "failed"]]
      <4>1. s.key \in Key
        BY <3>2, <2>2 DEF TypeOK, SyncState, SessionId
      <4>2. [rows[s.key] EXCEPT ![s.idx + 1] = "failed"] \in Seq(RowStatuses)
        BY <4>1, ReplaceInSeq DEF TypeOK, RowStatuses
      <4>3. QED
        BY <3>2, <4>1, <4>2 DEF TypeOK
    <3>3. QED
      BY <1>3, <3>1, <3>2 DEF Replay
  <2>5. UNCHANGED <<live, rev, deleting, doomed, redacted, born, store, pc, queue, stripped, ev, ctx>>
    BY <1>3 DEF Replay
  <2>6. QED
    BY <2>1, <2>3, <2>4, <2>5 DEF TypeOK, Working
<1>4. ASSUME NEW m \in Memories, DeleteRead(m)
      PROVE  TInv'
  <2>1. deleting' \subseteq Memories /\ doomed' \subseteq Key
    BY <1>4 DEF DeleteRead, TypeOK, EventsOf
  <2>2. UNCHANGED <<live, rev, status, attempts, token, redacted, born, sync, rows, store,
                    pc, queue, stripped, ev, ctx>>
    BY <1>4 DEF DeleteRead
  <2>3. QED
    BY <2>1, <2>2 DEF TypeOK, Working
<1>5. QED
  BY <1>1, <1>2, <1>3, <1>4 DEF Request

-----------------------------------------------------------------------------
\* Calls to the store keep the type of its sessions.
LEMMA OpenedTypes ==
    ASSUME TInv, NEW e \in Key, NEW i \in Nat
    PROVE  Opened(e, i) \in [Key -> Seq(ProviderSession)]
<1> DEFINE s == store[e]
           x == [s[i + 1] EXCEPT !.exists = TRUE]
<1>1. s \in Seq(ProviderSession) /\ store \in [Key -> Seq(ProviderSession)]
  BY DEF TInv, TypeOK
<1>2. NewSession \in ProviderSession
  BY DEF NewSession, ProviderSession
<1>3. Append(s, NewSession) \in Seq(ProviderSession)
  BY <1>1, <1>2
<1>4. i + 1 \in 1..Len(s) => s[i + 1] \in ProviderSession
  BY <1>1
<1>5. i + 1 \in 1..Len(s) => x \in ProviderSession
  BY <1>4 DEF ProviderSession
<1>6. [s EXCEPT ![i + 1] = x] \in Seq(ProviderSession)
  BY <1>1, <1>5, ReplaceInSeq
<1>7. \/ Opened(e, i) = [store EXCEPT ![e] = Append(s, NewSession)]
      \/ Opened(e, i) = store
      \/ Opened(e, i) = [store EXCEPT ![e] = [s EXCEPT ![i + 1] = x]]
  BY DEF Opened
<1> HIDE DEF s, x
<1>8. QED
  BY <1>1, <1>3, <1>6, <1>7

\* Changing one session of an event in the store.
LEMMA StoreUpdateTypes ==
    ASSUME TInv, NEW e \in Key, NEW i,
           NEW x, i \in 1..Len(store[e]) => x \in ProviderSession
    PROVE  [store EXCEPT ![e] = [store[e] EXCEPT ![i] = x]] \in [Key -> Seq(ProviderSession)]
<1>1. store[e] \in Seq(ProviderSession) /\ store \in [Key -> Seq(ProviderSession)]
  BY DEF TInv, TypeOK
<1>2. [store[e] EXCEPT ![i] = x] \in Seq(ProviderSession)
  BY <1>1, ReplaceInSeq
<1>3. QED
  BY <1>1, <1>2

\* What a message and a commit make of a session.
LEMMA SessionUpdateTypes ==
    ASSUME NEW x \in ProviderSession
    PROVE  /\ [x EXCEPT !.msgs = x.msgs + 1] \in ProviderSession
           /\ [x EXCEPT !.commits = x.commits + 1, !.task = "pending"] \in ProviderSession
<1>1. x.msgs + 1 \in Nat /\ x.commits + 1 \in Nat
  BY DEF ProviderSession
<1>2. QED
  BY <1>1 DEF ProviderSession

\* The end of a commit's task.
LEMMA TaskTypes ==
    ASSUME TInv, NEW e \in Key, TaskEnds(e)
    PROVE  TInv'
<1>1. PICK i \in DOMAIN store[e], end \in {"done", "failed"} :
          store' = [store EXCEPT ![e] = [store[e] EXCEPT ![i] = [store[e][i] EXCEPT !.task = end]]]
  BY DEF TaskEnds, TaskFinishes
<1>2. store[e][i] \in ProviderSession
  BY <1>1 DEF TInv, TypeOK
<1>3. [store[e][i] EXCEPT !.task = end] \in ProviderSession
  BY <1>2 DEF ProviderSession
<1>4. store' \in [Key -> Seq(ProviderSession)]
  BY <1>1, <1>3, StoreUpdateTypes
<1>5. UNCHANGED <<memoryVars, deletionVars, outboxVars, sync, rows, workerVars>>
  BY DEF TaskEnds, TaskFinishes
<1>6. QED
  BY <1>4, <1>5 DEF TInv, TypeOK, Working, memoryVars, deletionVars, outboxVars, workerVars

-----------------------------------------------------------------------------
\* Claiming a batch.
LEMMA ClaimTypes ==
    ASSUME TInv, NEW w \in Workers, NEW batch \in SUBSET Eligible, Claim(w, batch)
    PROVE  TInv'
<1>1. batch \subseteq Key
  BY DEF Eligible
<1>2. {e \in batch : redacted[e]} \subseteq Key
  BY <1>1
<1>3. QED
  BY <1>1, <1>2 DEF Claim, TInv, TypeOK, Working, Statuses, Stages, SessionStages, memoryVars, deletionVars

\* A step of worker w that only moves it and writes its local variables.
LEMMA MoveTypes ==
    ASSUME TInv, NEW w \in Workers, NEW stage \in Stages, NEW c \in Context,
           NEW k \in Key \cup {None},
           stage \notin {"idle", "next"} => k \in Key,
           stage \in SessionStages => c.idx \in Nat,
           pc' = [pc EXCEPT ![w] = stage],
           ctx' = [ctx EXCEPT ![w] = c],
           ev' = [ev EXCEPT ![w] = k],
           queue' \in [Workers -> SUBSET Key],
           stripped' \in [Workers -> SUBSET Key],
           sync' \in [Memories -> SyncState],
           rows' \in [Key -> Seq(RowStatuses)],
           store' \in [Key -> Seq(ProviderSession)],
           status' \in [Key -> Statuses],
           attempts' \in [Key -> Nat],
           token' \in [Key -> Workers \cup {None}],
           UNCHANGED <<live, rev, deleting, doomed, redacted, born>>
    PROVE  TInv'
BY DEF TInv, TypeOK, Working

\* A worker without an event has an empty context.
LEMMA NoContextType == NoContext \in Context
BY DEF NoContext, Context, SessionId, NoIndex

\* What the steps of a worker do with its context.
LEMMA ContextTypes ==
    ASSUME TInv, NEW w \in Workers
    PROVE  /\ ctx[w] \in Context
           /\ \A t \in SessionId \cup {None} : [ctx[w] EXCEPT !.task = t] \in Context
           /\ \A i \in Nat : [ctx[w] EXCEPT !.idx = i] \in Context
           /\ \A u, c \in BOOLEAN : [ctx[w] EXCEPT !.used = u, !.committed = c] \in Context
           /\ \A x \in SUBSET SessionId : [ctx[w] EXCEPT !.todo = x] \in Context
<1>1. ctx[w] \in Context
  BY DEF TInv, TypeOK
<1>2. QED
  BY <1>1 DEF Context

\* Turning to the next event of the batch.
LEMMA BeginTypes ==
    ASSUME TInv, NEW w \in Workers, NEW e \in queue[w], Begin(w, e)
    PROVE  TInv'
<1>1. e \in Key
  BY DEF TInv, TypeOK
<1>2. PICK stage \in {"defer", "list", "fail", "checkpoint"} : pc' = [pc EXCEPT ![w] = stage]
  BY DEF Begin, Goto
<1>3. /\ ev' = [ev EXCEPT ![w] = e] /\ queue' = [queue EXCEPT ![w] = @ \ {e}]
      /\ UNCHANGED <<memoryVars, deletionVars, outboxVars, sync, rows, store, stripped, ctx>>
  BY DEF Begin
<1>4. QED
  BY <1>1, <1>2, <1>3
     DEF TInv, TypeOK, Working, Stages, SessionStages, memoryVars, deletionVars, outboxVars

\* The local steps that write nothing but the worker's own variables.
LEMMA LocalTypes ==
    ASSUME TInv, NEW w \in Workers,
           \/ BatchDone(w) \/ Checkpoint(w) \/ SessionKey(w) \/ LatestTask(w)
           \/ AwaitTask(w) \/ ListSessions(w) \/ CompleteRead(w) \/ FailRead(w) \/ Crash(w)
    PROVE  TInv'
<1> USE DEF TInv, TypeOK, Working, Stages, SessionStages, memoryVars, deletionVars, outboxVars, Goto, InProcess, Leave
<1>1. CASE BatchDone(w)
  BY <1>1 DEF BatchDone
<1>2. CASE Checkpoint(w)
  <2>1. ev[w] \in Key /\ ev[w].mem \in Memories /\ ctx[w] \in Context
    BY <1>2 DEF Checkpoint, Key
  <2>2. sync[ev[w].mem].task \in SessionId \cup {None}
    BY <2>1 DEF SyncState
  <2> DEFINE t == IF sync[ev[w].mem].ver = ev[w].ver THEN sync[ev[w].mem].task ELSE None
  <2>3. [ctx[w] EXCEPT !.task = t] \in Context
    BY <2>1, <2>2 DEF Context
  <2>4. ctx' = ctx \/ ctx' = [ctx EXCEPT ![w] = [ctx[w] EXCEPT !.task = t]]
    BY <1>2 DEF Checkpoint
  <2> HIDE DEF t
  <2>5. ctx' \in [Workers -> Context]
    BY <2>3, <2>4
  <2>6. pc[w] = "checkpoint" /\ (Goto(w, "complete") \/ Goto(w, "session_key"))
    BY <1>2 DEF Checkpoint
  <2>7. \A v \in Workers \ {w} : ctx'[v] = ctx[v]
    BY <2>4
  <2>8. InProcess(w) /\ UNCHANGED <<memoryVars, deletionVars, outboxVars, sync, rows, store>>
    BY <1>2 DEF Checkpoint
  <2>9. QED
    BY <2>1, <2>5, <2>6, <2>7, <2>8
<1>3. CASE SessionKey(w)
  <2>1. ev[w] \in Key /\ ctx[w] \in Context
    BY <1>3 DEF SessionKey
  <2> DEFINE i == SessionIndex(ev[w])
             c == [ctx[w] EXCEPT !.idx = i]
  <2>2. i \in Nat
    BY <2>1, SessionIndexType
  <2> HIDE DEF i
  <2>3. c \in Context /\ c.idx = i
    BY <2>1, <2>2 DEF Context
  <2>4. ctx' = [ctx EXCEPT ![w] = c]
    BY <1>3 DEF SessionKey, i
  <2> HIDE DEF c
  <2>5. QED
    BY <1>3, <2>1, <2>2, <2>3, <2>4 DEF SessionKey
<1>4. CASE LatestTask(w)
  <2>1. ev[w] \in Key /\ ctx[w] \in Context /\ ctx[w].idx \in Nat
    BY <1>4 DEF LatestTask
  <2> DEFINE c == [ctx[w] EXCEPT !.task = Session(ev[w], ctx[w].idx)]
  <2>2. c \in Context /\ c.idx = ctx[w].idx
    BY <2>1 DEF Context, Session, SessionId
  <2>3. ctx' = ctx \/ ctx' = [ctx EXCEPT ![w] = c]
    BY <1>4 DEF LatestTask, CallFails
  <2> HIDE DEF c
  <2>4. QED
    BY <1>4, <2>1, <2>2, <2>3 DEF LatestTask, CallFails
<1>5. CASE AwaitTask(w)
  BY <1>5 DEF AwaitTask
<1>6. CASE ListSessions(w)
  <2> DEFINE x == UNION {{Session(e, i) : i \in {j \in 0..(Len(rows[e]) - 1) :
                                                     rows[e][j + 1] # "deleted"}}
                            : e \in EventsOf(ev[w].mem)}
             c == [ctx[w] EXCEPT !.todo = x]
  <2>1. x \subseteq SessionId
    BY DEF Session, SessionId, EventsOf
  <2> HIDE DEF x
  <2>2. c \in Context
    BY <2>1 DEF Context
  <2>3. ctx' = [ctx EXCEPT ![w] = c]
    BY <1>6 DEF ListSessions, x
  <2> HIDE DEF c
  <2>4. QED
    BY <1>6, <2>2, <2>3 DEF ListSessions
<1>7. CASE CompleteRead(w)
  <2>1. CASE Leave(w)
    BY <1>7, <2>1, NoContextType DEF CompleteRead
  <2>2. CASE (Goto(w, "completing") \/ Goto(w, "fail")) /\ InProcess(w) /\ UNCHANGED ctx
    BY <1>7, <2>2 DEF CompleteRead
  <2>3. QED
    BY <1>7, <2>1, <2>2 DEF CompleteRead
<1>8. CASE FailRead(w)
  <2>1. CASE Leave(w)
    BY <1>8, <2>1, NoContextType DEF FailRead
  <2>2. CASE Goto(w, "failing") /\ InProcess(w) /\ UNCHANGED ctx
    BY <1>8, <2>2 DEF FailRead
  <2>3. QED
    BY <1>8, <2>1, <2>2 DEF FailRead
<1>9. CASE Crash(w)
  BY <1>9, NoContextType DEF Crash
<1>10. QED
  BY <1>1, <1>2, <1>3, <1>4, <1>5, <1>6, <1>7, <1>8, <1>9

\* The steps that write to the database or the store.
LEMMA WritingTypes ==
    ASSUME TInv, NEW w \in Workers,
           \/ OpenSession(w) \/ RecordSession(w) \/ AppendMessage(w) \/ CommitSession(w)
           \/ RecordSyncing(w) \/ DeleteSession(w)
    PROVE  TInv'
<1> DEFINE e == ev[w]
           i == ctx[w].idx
<1> USE DEF memoryVars, deletionVars, outboxVars, Goto, InProcess
<1>0. /\ e \in Key /\ e.mem \in Memories /\ ctx[w] \in Context
      /\ ~DeleteSession(w) => i \in Nat
      /\ store \in [Key -> Seq(ProviderSession)] /\ rows \in [Key -> Seq(RowStatuses)]
      /\ sync \in [Memories -> SyncState] /\ ctx \in [Workers -> Context]
  BY DEF TInv, TypeOK, Working, OpenSession, RecordSession, AppendMessage, CommitSession,
         RecordSyncing, DeleteSession, SessionStages, Key
<1> USE DEF TInv, TypeOK, Working, Stages, SessionStages
<1>1. CASE OpenSession(w)
  <2> DEFINE s == Opened(e, i)[e][i + 1]
             u == (s.msgs > 0 \/ s.commits > 0)
             k == (s.commits > 0)
             c == [ctx[w] EXCEPT !.used = u, !.committed = k]
  <2>1. i \in Nat /\ pc[w] = "open" /\ ~DeleteSession(w)
    BY <1>0, <1>1 DEF OpenSession, DeleteSession
  <2>2. store' \in [Key -> Seq(ProviderSession)]
    <3>1. store' = store \/ store' = Opened(e, i)
      BY <1>1 DEF OpenSession
    <3>2. Opened(e, i) \in [Key -> Seq(ProviderSession)]
      BY <1>0, <2>1, OpenedTypes
    <3>3. QED
      BY <1>0, <3>1, <3>2
  <2>3. u \in BOOLEAN /\ k \in BOOLEAN
    OBVIOUS
  <2>4. ctx' = ctx \/ ctx' = [ctx EXCEPT ![w] = c]
    BY <1>1 DEF OpenSession, CallFails
  <2> HIDE DEF u, k
  <2>5. c \in Context /\ c.idx = i
    BY <2>3, <1>0 DEF Context
  <2> HIDE DEF c
  <2>6. ctx' \in [Workers -> Context] /\ \A v \in Workers : ctx'[v].idx = ctx[v].idx
    BY <1>0, <2>4, <2>5
  <2>7. pc' = [pc EXCEPT ![w] = "record"] \/ pc' = [pc EXCEPT ![w] = "fail"]
    BY <1>1 DEF OpenSession, CallFails
  <2>8. UNCHANGED <<memoryVars, deletionVars, outboxVars, sync, rows, queue, stripped, ev>>
    BY <1>1 DEF OpenSession
  <2>9. QED
    BY <1>0, <2>1, <2>2, <2>6, <2>7, <2>8
<1>2. CASE RecordSession(w)
  <2>1. i \in Nat /\ pc[w] = "record" /\ ~DeleteSession(w)
    BY <1>0, <1>2 DEF RecordSession, DeleteSession
  <2>2. /\ "active" \in RowStatuses /\ rows[e] \in Seq(RowStatuses)
        /\ Append(rows[e], "active") \in Seq(RowStatuses)
    BY <1>0 DEF RowStatuses
  <2>3. [rows[e] EXCEPT ![i + 1] = "active"] \in Seq(RowStatuses)
    BY <2>2, ReplaceInSeq
  <2>4. \/ rows' = [rows EXCEPT ![e] = Append(rows[e], "active")]
        \/ rows' = [rows EXCEPT ![e] = [rows[e] EXCEPT ![i + 1] = "active"]]
    BY <1>2 DEF RecordSession
  <2>5. rows' \in [Key -> Seq(RowStatuses)]
    BY <1>0, <2>2, <2>3, <2>4
  <2>6. \E stage \in {"syncing", "latest", "append"} : pc' = [pc EXCEPT ![w] = stage]
    BY <1>2 DEF RecordSession
  <2>7. UNCHANGED <<memoryVars, deletionVars, outboxVars, sync, store, queue, stripped, ev, ctx>>
    BY <1>2 DEF RecordSession
  <2>8. QED
    BY <2>1, <2>5, <2>6, <2>7
<1>3. CASE AppendMessage(w)
  <2> DEFINE z == store[e][i + 1]
             x == [z EXCEPT !.msgs = z.msgs + 1]
  <2>1. i \in Nat /\ pc[w] = "append" /\ ~DeleteSession(w)
    BY <1>0, <1>3 DEF AppendMessage, DeleteSession
  <2>2. i + 1 \in 1..Len(store[e]) => store[e][i + 1] \in ProviderSession
    BY <1>0
  <2>3. i + 1 \in 1..Len(store[e]) => x \in ProviderSession
    <3> HIDE DEF z
    <3>1. z \in ProviderSession => x \in ProviderSession
      BY SessionUpdateTypes
    <3>2. QED
      BY <2>2, <3>1 DEF z
  <2>4. [store EXCEPT ![e] = [store[e] EXCEPT ![i + 1] = x]] \in [Key -> Seq(ProviderSession)]
    BY <1>0, <2>3, StoreUpdateTypes
  <2>5. \/ store' = store
        \/ store' = [store EXCEPT ![e] = [store[e] EXCEPT ![i + 1] = x]]
    BY <1>3 DEF AppendMessage
  <2> HIDE DEF x
  <2>6. pc' = [pc EXCEPT ![w] = "commit"] \/ pc' = [pc EXCEPT ![w] = "fail"]
    BY <1>3 DEF AppendMessage, CallFails
  <2>7. UNCHANGED <<memoryVars, deletionVars, outboxVars, sync, rows, queue, stripped, ev, ctx>>
    BY <1>3 DEF AppendMessage, CallFails
  <2>8. store' \in [Key -> Seq(ProviderSession)]
    BY <1>0, <2>4, <2>5
  <2>9. pc' \in [Workers -> Stages] /\ \A v \in Workers \ {w} : pc'[v] = pc[v]
    BY <1>0, <2>6
  <2>10. QED
    BY <1>0, <2>1, <2>6, <2>7, <2>8, <2>9
<1>4. CASE CommitSession(w)
  <2> DEFINE z == store[e][i + 1]
             x == [z EXCEPT !.commits = z.commits + 1, !.task = "pending"]
             y == [store EXCEPT ![e] = [store[e] EXCEPT ![i + 1] = x]]
             c == [ctx[w] EXCEPT !.task = Session(e, i)]
  <2>1. i \in Nat /\ pc[w] = "commit" /\ ~DeleteSession(w)
    BY <1>0, <1>4 DEF CommitSession, DeleteSession
  <2>2. i + 1 \in 1..Len(store[e]) => store[e][i + 1] \in ProviderSession
    BY <1>0
  <2>3. i + 1 \in 1..Len(store[e]) => x \in ProviderSession
    <3> HIDE DEF z
    <3>1. z \in ProviderSession => x \in ProviderSession
      BY SessionUpdateTypes
    <3>2. QED
      BY <2>2, <3>1 DEF z
  <2>4. y \in [Key -> Seq(ProviderSession)]
    BY <1>0, <2>3, StoreUpdateTypes
  <2>5. store' = store \/ store' = y
    BY <1>4, <1>0 DEF CommitSession
  <2>6. ctx' = ctx \/ ctx' = [ctx EXCEPT ![w] = c]
    BY <1>4 DEF CommitSession, CallFails
  <2>7. c \in Context /\ c.idx = i
    BY <1>0, <2>1 DEF Context, Session, SessionId
  <2> HIDE DEF x, y, c
  <2>8. ctx' \in [Workers -> Context] /\ \A v \in Workers : ctx'[v].idx = ctx[v].idx
    BY <1>0, <2>6, <2>7
  <2>9. pc' = [pc EXCEPT ![w] = "syncing"] \/ pc' = [pc EXCEPT ![w] = "fail"]
    BY <1>4 DEF CommitSession, CallFails
  <2>10. UNCHANGED <<memoryVars, deletionVars, outboxVars, sync, rows, queue, stripped, ev>>
    BY <1>4 DEF CommitSession
  <2>11. QED
    BY <1>0, <2>1, <2>4, <2>5, <2>8, <2>9, <2>10
<1>5. CASE RecordSyncing(w)
  <2> DEFINE r == [ver |-> e.ver, status |-> "syncing", task |-> ctx[w].task,
                   sess |-> Session(e, i), key |-> e]
  <2>1. i \in Nat /\ pc[w] = "syncing" /\ ~DeleteSession(w)
    BY <1>0, <1>5 DEF RecordSyncing, DeleteSession
  <2>2. r \in SyncState
    <3>1. e.ver \in Nat /\ ctx[w].task \in SessionId \cup {None} /\ Session(e, i) \in SessionId
      BY <1>0, <2>1, ConstantsAssumption DEF Key, Context, Session, SessionId
    <3>2. QED
      BY <3>1, <1>0 DEF SyncState, SyncStatuses
  <2>3. sync' = [sync EXCEPT ![e.mem] = r]
    BY <1>5 DEF RecordSyncing
  <2> HIDE DEF r
  <2>4. sync' \in [Memories -> SyncState]
    BY <1>0, <2>2, <2>3
  <2>5. /\ pc' = [pc EXCEPT ![w] = "await"]
        /\ UNCHANGED <<memoryVars, deletionVars, outboxVars, rows, store, queue, stripped, ev, ctx>>
    BY <1>5 DEF RecordSyncing
  <2>6. QED
    BY <1>0, <2>1, <2>4, <2>5
<1>6. CASE DeleteSession(w)
  <2>1. pc[w] = "delete" /\ ctx[w].todo \subseteq SessionId
    BY <1>0, <1>6 DEF DeleteSession, Context
  <2>2. UNCHANGED <<memoryVars, deletionVars, outboxVars, sync, rows, queue, stripped, ev>>
    BY <1>6 DEF DeleteSession
  <2>3. CASE Goto(w, "complete") /\ UNCHANGED <<store, ctx>>
    BY <2>1, <2>2, <2>3, <1>0
  <2>4. ASSUME NEW s \in ctx[w].todo,
               LET gone == [store EXCEPT ![s.key][s.idx + 1] =
                              [@ EXCEPT !.exists = FALSE, !.msgs = 0, !.commits = 0]]
               IN  \/ /\ store' = gone
                      /\ ctx' = [ctx EXCEPT ![w].todo = @ \ {s}]
                      /\ UNCHANGED pc
                   \/ CallFails(w) /\ store' \in {store, gone}
        PROVE  TInv'
    <3> DEFINE x == [store[s.key][s.idx + 1] EXCEPT !.exists = FALSE, !.msgs = 0, !.commits = 0]
               y == [store EXCEPT ![s.key] = [store[s.key] EXCEPT ![s.idx + 1] = x]]
               c == [ctx[w] EXCEPT !.todo = ctx[w].todo \ {s}]
    <3>1. s.key \in Key /\ s.idx \in Nat
      BY <2>1 DEF SessionId
    <3>2. s.idx + 1 \in 1..Len(store[s.key]) => store[s.key][s.idx + 1] \in ProviderSession
      BY <1>0, <3>1
    <3>3. s.idx + 1 \in 1..Len(store[s.key]) => x \in ProviderSession
      BY <3>2 DEF ProviderSession
    <3>4. y \in [Key -> Seq(ProviderSession)]
      BY <1>0, <3>1, <3>3, StoreUpdateTypes
    <3>5. store' = store \/ store' = y
      BY <2>4
    <3>6. /\ ctx' = ctx \/ ctx' = [ctx EXCEPT ![w] = c]
          /\ pc' = pc \/ pc' = [pc EXCEPT ![w] = "fail"]
      BY <2>4 DEF CallFails
    <3>7. c \in Context
      BY <1>0 DEF Context
    <3> HIDE DEF x, y, c
    <3>8. ctx' \in [Workers -> Context] /\ \A v \in Workers \ {w} : ctx'[v] = ctx[v]
      BY <1>0, <3>6, <3>7
    <3>9. QED
      BY <1>0, <2>1, <2>2, <3>4, <3>5, <3>6, <3>8
  <2>5. QED
    BY <1>6, <2>3, <2>4 DEF DeleteSession
<1>7. QED
  BY <1>1, <1>2, <1>3, <1>4, <1>5, <1>6

\* The steps that settle a claim.
LEMMA SettlingTypes ==
    ASSUME TInv, NEW w \in Workers, Defer(w) \/ CompleteWrite(w) \/ FailWrite(w)
    PROVE  TInv'
<1> DEFINE e == ev[w]
           s == sync[e.mem]
<1> USE DEF TInv, TypeOK, Working, Stages, SessionStages, memoryVars, deletionVars, Goto, Leave
<1>0. /\ e \in Key /\ e.mem \in Memories /\ e.ver \in Nat /\ e.del \in BOOLEAN
      /\ ctx[w] \in Context /\ s \in SyncState
  <2>1. pc[w] \in {"defer", "completing", "failing"}
    BY DEF Defer, CompleteWrite, FailWrite
  <2>2. e \in Key
    BY <2>1
  <2>3. e.mem \in Memories /\ e.ver \in Nat /\ e.del \in BOOLEAN
    BY <2>2, ConstantsAssumption DEF Key
  <2>4. QED
    BY <2>2, <2>3
<1>1. CASE Defer(w)
  <2>1. status' \in [Key -> Statuses] /\ token' \in [Key -> Workers \cup {None}]
    BY <1>1 DEF Defer, Statuses
  <2>2. QED
    BY <1>1, <2>1, NoContextType DEF Defer
<1>2. CASE CompleteWrite(w)
  <2>1. CompletedSync(w) \in SyncState
    <3>1. ctx[w].idx # NoIndex => Session(e, ctx[w].idx) \in SessionId
      BY <1>0 DEF Session, SessionId, Context
    <3>2. CASE e.del
      BY <3>2, <1>0 DEF CompletedSync, SyncState, SyncStatuses
    <3>3. CASE ~e.del
      BY <3>1, <3>3, <1>0 DEF CompletedSync, SyncState, SyncStatuses, Context
    <3>4. QED
      BY <3>2, <3>3
  <2>2. sync' \in [Memories -> SyncState]
    BY <1>0, <1>2, <2>1 DEF CompleteWrite
  <2>3. rows' \in [Key -> Seq(RowStatuses)]
    <3>1. \A f \in Key : [i \in 1..Len(rows[f]) |-> "deleted"] \in Seq(RowStatuses)
      BY DEF RowStatuses
    <3>2. QED
      BY <1>2, <3>1 DEF CompleteWrite
  <2>4. status' \in [Key -> Statuses] /\ token' \in [Key -> Workers \cup {None}]
    BY <1>2 DEF CompleteWrite, Statuses
  <2>5. QED
    BY <1>2, <2>2, <2>3, <2>4, NoContextType DEF CompleteWrite
<1>3. CASE FailWrite(w)
  <2>1. /\ status' \in [Key -> Statuses] /\ token' \in [Key -> Workers \cup {None}]
        /\ attempts' \in [Key -> Nat]
    BY <1>0, <1>3 DEF FailWrite, Statuses
  <2>2. sync' \in [Memories -> SyncState]
    <3>1. CASE sync' = sync
      BY <3>1
    <3>2. ASSUME NEW st \in {"dead_letter", "failed"}, NEW x \in {Session(e, 0), s.sess},
                 sync' = [sync EXCEPT ![e.mem] =
                            [ver |-> e.ver, key |-> e, task |-> s.task, status |-> st, sess |-> x]]
          PROVE  sync' \in [Memories -> SyncState]
      <4>1. x \in SessionId \cup {None}
        <5>1. Session(e, 0) \in SessionId
          BY <1>0 DEF Session, SessionId
        <5>2. s.sess \in SessionId \cup {None}
          BY <1>0 DEF SyncState
        <5>3. QED
          BY <5>1, <5>2
      <4>2. [ver |-> e.ver, key |-> e, task |-> s.task, status |-> st, sess |-> x] \in SyncState
        BY <1>0, <4>1 DEF SyncState, SyncStatuses
      <4>3. QED
        BY <3>2, <4>2, <1>0
    <3>3. QED
      BY <1>3, <3>1, <3>2 DEF FailWrite
  <2>3. QED
    BY <1>3, <2>1, <2>2, NoContextType DEF FailWrite
<1>4. QED
  BY <1>1, <1>2, <1>3

\* The initial state has the types.
LEMMA InitTypes == Init => TInv
<1> SUFFICES ASSUME Init
             PROVE  TInv
  OBVIOUS
<1>1. 0 \in 0..MaxVersion /\ Legacy \subseteq Memories
  BY ConstantsAssumption
<1>2. NoSync \in SyncState
  BY DEF NoSync, SyncState, SyncStatuses
<1>3. QED
  BY <1>1, <1>2, NoContextType
     DEF Init, TInv, TypeOK, Working, Statuses, Stages, SessionStages

\* Every step keeps the types.
LEMMA StepTypes == TInv /\ [Next]_vars => TInv'
<1> SUFFICES ASSUME TInv, [Next]_vars
             PROVE  TInv'
  OBVIOUS
<1>1. CASE Request
  BY <1>1, RequestTypes
<1>2. CASE \E w \in Workers : ClaimAny(w)
  BY <1>2, ClaimTypes DEF ClaimAny
<1>3. CASE \E w \in Workers : \E e \in queue[w] : Begin(w, e)
  BY <1>3, BeginTypes
<1>4. CASE \E w \in Workers :
               \/ BatchDone(w) \/ Checkpoint(w) \/ SessionKey(w) \/ LatestTask(w)
               \/ AwaitTask(w) \/ ListSessions(w) \/ CompleteRead(w) \/ FailRead(w) \/ Crash(w)
  BY <1>4, LocalTypes
<1>5. CASE \E w \in Workers :
               \/ OpenSession(w) \/ RecordSession(w) \/ AppendMessage(w) \/ CommitSession(w)
               \/ RecordSyncing(w) \/ DeleteSession(w)
  BY <1>5, WritingTypes
<1>6. CASE \E w \in Workers : Defer(w) \/ CompleteWrite(w) \/ FailWrite(w)
  BY <1>6, SettlingTypes
<1>7. CASE \E e \in Key : TaskEnds(e)
  BY <1>7, TaskTypes
<1>8. CASE UNCHANGED vars
  BY <1>8 DEF vars, memoryVars, deletionVars, outboxVars, workerVars, TInv, TypeOK, Working
<1>9. QED
  BY <1>1, <1>2, <1>3, <1>4, <1>5, <1>6, <1>7, <1>8 DEF Next, Step

\* Every variable keeps its type, for any memories, workers and bounds.
THEOREM TypeCorrect == Spec => []TypeOK
<1>1. Init => TInv
  BY InitTypes
<1>2. TInv /\ [Next]_vars => TInv'
  BY StepTypes
<1>3. TInv => TypeOK
  BY DEF TInv
<1>4. QED
  BY <1>1, <1>2, <1>3, PTL DEF Spec

-----------------------------------------------------------------------------
(* What is shown as synchronised, for any number of workers.                *)

LEMMA KeyFields == \A e \in Key : e.mem \in Memories /\ e.ver \in Nat /\ e.del \in BOOLEAN
BY ConstantsAssumption DEF Key

\* What a replay leaves of the synchronisation state.
LEMMA ResetState ==
    ASSUME NEW s \in SyncState, NEW t,
           t = [s EXCEPT !.status = "pending", !.sess = None, !.task = None]
    PROVE  /\ t.ver = s.ver /\ t.key = s.key
           /\ t.status = "pending" /\ t.sess = None /\ t.task = None
<1>1. s = [ver |-> s.ver, status |-> s.status, sess |-> s.sess, task |-> s.task, key |-> s.key]
  BY DEF SyncState
<1>2. t = [ver |-> s.ver, status |-> "pending", sess |-> None, task |-> None, key |-> s.key]
  BY <1>1
<1>3. QED
  BY <1>2

\* The state of a memory that is shown as synchronised names the event that made it so.
SyncedIsItsKey ==
    \A m \in Memories : sync[m].status \in {"completed", "deleted"} =>
        /\ sync[m].key \in EventsOf(m)
        /\ status[sync[m].key] = "completed" \/ CancelledByDeletion(sync[m].key)
        /\ sync[m].key.ver = sync[m].ver

\* A settled event stays so but for the one that is written now, and where that is shown
\* the state moves on with it.
LEMMA SyncedStays ==
    ASSUME SyncedIsItsKey, Monotone, NEW e,
           \A k \in Key \ {e} : status[k] = "cancelled" => status'[k] = "cancelled",
           \A m \in Memories : sync'[m].status \in {"completed", "deleted"} =>
               \/ sync'[m] = sync[m] /\ sync[m].key # e
               \/ /\ sync'[m].key \in EventsOf(m) /\ status'[sync'[m].key] = "completed"
                  /\ sync'[m].key.ver = sync'[m].ver
    PROVE  SyncedIsItsKey'
<1> SUFFICES ASSUME NEW m \in Memories, sync'[m].status \in {"completed", "deleted"},
                    sync'[m] = sync[m], sync[m].key # e
             PROVE  /\ sync'[m].key \in EventsOf(m)
                    /\ \/ status'[sync'[m].key] = "completed"
                       \/ status'[sync'[m].key] = "cancelled" /\ redacted'[sync'[m].key]
                    /\ sync'[m].key.ver = sync'[m].ver
  BY DEF SyncedIsItsKey, CancelledByDeletion, EventsOf
<1>1. /\ sync[m].key \in EventsOf(m) /\ sync[m].key.ver = sync[m].ver
      /\ status[sync[m].key] = "completed" \/ CancelledByDeletion(sync[m].key)
  BY DEF SyncedIsItsKey
<1>2. PICK k \in Key : k = sync[m].key /\ k # e
  BY <1>1 DEF EventsOf
<1>3. status'[k] = "completed" \/ (status'[k] = "cancelled" /\ redacted'[k])
  BY <1>1, <1>2 DEF CancelledByDeletion, Monotone
<1>4. QED
  BY <1>1, <1>2, <1>3

LEMMA CompleteSynced ==
    ASSUME TInv, IInv, SyncedIsItsKey, Monotone, NEW w \in Workers, CompleteWrite(w)
    PROVE  SyncedIsItsKey'
<1>1. PICK e \in Key : e = ev[w]
  BY DEF CompleteWrite, IInv, ClaimsExist, Busy, Stages
<1>2. /\ status' = [status EXCEPT ![e] = "completed"]
      /\ sync' = [sync EXCEPT ![e.mem] = CompletedSync(w)]
  BY <1>1 DEF CompleteWrite
<1>3. /\ \A k \in Key \ {e} : status'[k] = status[k]
      /\ status'[e] = "completed" /\ e.mem \in Memories
      /\ sync'[e.mem] = CompletedSync(w)
      /\ \A m \in Memories \ {e.mem} : sync'[m] = sync[m]
  BY <1>2, KeyFields DEF TInv, TypeOK
<1>4. ASSUME NEW m \in Memories, sync'[m].status \in {"completed", "deleted"}
      PROVE  \/ sync'[m] = sync[m] /\ sync[m].key # e
             \/ /\ sync'[m].key \in EventsOf(m) /\ status'[sync'[m].key] = "completed"
                /\ sync'[m].key.ver = sync'[m].ver
  <2>1. CASE m # e.mem
    <3>1. sync'[m] = sync[m] /\ sync[m].key \in EventsOf(m)
      BY <2>1, <1>3, <1>4 DEF SyncedIsItsKey
    <3>2. QED
      BY <2>1, <3>1 DEF EventsOf
  <2>2. CASE m = e.mem /\ (e.del \/ sync[m].ver <= e.ver)
    <3>1. CompletedSync(w).key = e /\ CompletedSync(w).ver = e.ver
      BY <2>2, <1>1 DEF CompletedSync
    <3>2. QED
      BY <2>2, <3>1, <1>3 DEF EventsOf
  <2>3. CASE m = e.mem /\ ~(e.del \/ sync[m].ver <= e.ver)
    <3>1. sync'[m] = sync[m]
      BY <2>3, <1>1, <1>3 DEF CompletedSync
    <3>2. sync[m].key.ver = sync[m].ver /\ sync[m].ver \in Nat
      BY <3>1, <1>4 DEF SyncedIsItsKey, TInv, TypeOK, SyncState
    <3>3. sync[m].key # e
      BY <2>3, <3>2, KeyFields
    <3>4. QED
      BY <3>1, <3>3
  <2>4. QED
    BY <2>1, <2>2, <2>3
<1>5. QED
  BY <1>3, <1>4, SyncedStays

LEMMA FailSynced ==
    ASSUME TInv, IInv, SyncedIsItsKey, Monotone, NEW w \in Workers, FailWrite(w)
    PROVE  SyncedIsItsKey'
<1>1. PICK e \in Key : e = ev[w]
  BY DEF FailWrite, IInv, ClaimsExist, Busy, Stages
<1>2. PICK st : status' = [status EXCEPT ![e] = st]
  BY <1>1 DEF FailWrite
<1>3. \A k \in Key \ {e} : status'[k] = status[k]
  BY <1>2 DEF TInv, TypeOK
<1>4. \/ sync[e.mem].ver > e.ver /\ sync' = sync
      \/ \E x : sync' = [sync EXCEPT ![e.mem] = x] /\ x.status \notin {"completed", "deleted"}
  <2> DEFINE s == sync[e.mem]
             last == attempts[e] + 1 >= MaxAttempts
             x == [ver |-> e.ver, key |-> e, task |-> s.task,
                   status |-> IF last THEN "dead_letter" ELSE "failed",
                   sess |-> IF s.status = "none" /\ Len(rows[e]) > 0 THEN Session(e, 0) ELSE s.sess]
  <2>1. sync' = IF s.ver > e.ver THEN sync ELSE [sync EXCEPT ![e.mem] = x]
    BY <1>1 DEF FailWrite
  <2>2. x.status \notin {"completed", "deleted"}
    OBVIOUS
  <2> HIDE DEF x
  <2>3. QED
    BY <2>1, <2>2
<1>5. ASSUME NEW m \in Memories, sync'[m].status \in {"completed", "deleted"}
      PROVE  sync'[m] = sync[m] /\ sync[m].key # e
  <2>1. CASE m # e.mem
    <3>1. sync'[m] = sync[m]
      BY <2>1, <1>4 DEF TInv, TypeOK
    <3>2. sync[m].key \in EventsOf(m)
      BY <3>1, <1>5 DEF SyncedIsItsKey
    <3>3. QED
      BY <2>1, <3>1, <3>2 DEF EventsOf
  <2>2. CASE m = e.mem
    <3>1. sync[m].ver > e.ver /\ sync'[m] = sync[m]
      BY <2>2, <1>4, <1>5 DEF TInv, TypeOK
    <3>2. sync[m].key.ver = sync[m].ver /\ sync[m].ver \in Nat
      BY <3>1, <1>5 DEF SyncedIsItsKey, TInv, TypeOK, SyncState
    <3>3. sync[m].key # e
      BY <3>1, <3>2, KeyFields
    <3>4. QED
      BY <3>1, <3>3
  <2>3. QED
    BY <2>1, <2>2
<1>6. QED
  BY <1>3, <1>5, SyncedStays

LEMMA StepSynced == TInv /\ IInv /\ SyncedIsItsKey /\ [Next]_vars => SyncedIsItsKey'
<1> SUFFICES ASSUME TInv, IInv, SyncedIsItsKey, [Next]_vars PROVE SyncedIsItsKey'
  OBVIOUS
<1>1. Monotone
  BY StepIInv
\* All other steps leave cancelled events alone, and show no memory as synchronised.
<1>2. ASSUME \A k \in Key : status[k] = "cancelled" => status'[k] = "cancelled",
             \A m \in Memories : sync'[m] = sync[m] \/ sync'[m].status \notin {"completed", "deleted"}
      PROVE  SyncedIsItsKey'
  <2>1. \A m \in Memories : sync[m].status \in {"completed", "deleted"} => sync[m].key # None
    BY ConstantsAssumption DEF SyncedIsItsKey, EventsOf
  <2>2. QED
    BY <1>1, <1>2, <2>1, SyncedStays, ConstantsAssumption
<1>3. ASSUME NEW m \in Memories, Persist(m) PROVE SyncedIsItsKey'
  <2>1. UNCHANGED sync /\ status' = EnqueuedStatus(Upsert(m, NextRevision(m)), status)
    BY <1>3 DEF Persist
  <2>2. \A k \in Key : status[k] = "cancelled" => status'[k] = "cancelled"
    BY <2>1 DEF EnqueuedStatus, TInv, TypeOK
  <2>3. QED
    BY <1>2, <2>1, <2>2
<1>4. ASSUME NEW m \in Memories, DeleteRead(m) PROVE SyncedIsItsKey'
  BY <1>2, <1>4 DEF DeleteRead, outboxVars
<1>5. ASSUME NEW m \in Memories, DeleteWrite(m) PROVE SyncedIsItsKey'
  <2> DEFINE st == [k \in Key |-> IF k \in doomed \cap EventsOf(m) THEN "cancelled" ELSE status[k]]
             d == Deletion(m, rev[m] + 1)
  <2>1. UNCHANGED sync /\ status' = EnqueuedStatus(d, st)
    BY <1>5 DEF DeleteWrite
  <2>2. status' = st \/ (status[d] = "absent" /\ status' = [st EXCEPT ![d] = "pending"])
    BY <2>1 DEF EnqueuedStatus
  <2> HIDE DEF d
  <2>3. \A k \in Key : status[k] = "cancelled" => status'[k] = "cancelled"
    BY <2>2
  <2>4. QED
    BY <1>2, <2>1, <2>3
<1>6. ASSUME NEW e \in Key, Replay(e) PROVE SyncedIsItsKey'
  <2>1. /\ status[e] = "dead_letter" /\ status' = [status EXCEPT ![e] = "pending"]
        /\ sync' = sync \/ sync' = [sync EXCEPT ![e.mem] =
                              [@ EXCEPT !.status = "pending", !.sess = None, !.task = None]]
    BY <1>6 DEF Replay
  <2>2. PICK s \in SyncState : s = sync[e.mem]
    BY KeyFields DEF TInv, TypeOK
  <2>3. PICK t : t = [s EXCEPT !.status = "pending", !.sess = None, !.task = None] /\ t.status = "pending"
    BY ResetState
  <2>4. \A m \in Memories : sync'[m] = sync[m] \/ sync'[m].status \notin {"completed", "deleted"}
    BY <2>1, <2>2, <2>3 DEF TInv, TypeOK
  <2>5. \A k \in Key : status[k] = "cancelled" => status'[k] = "cancelled"
    BY <2>1 DEF TInv, TypeOK
  <2>6. QED
    BY <1>2, <2>4, <2>5
<1>7. CASE (\E e \in Key : TaskEnds(e)) \/ UNCHANGED vars
  <2>1. UNCHANGED <<sync, status>>
    BY <1>7 DEF TaskEnds, TaskFinishes, vars, outboxVars
  <2>2. QED
    BY <1>2, <2>1
<1>8. ASSUME NEW w \in Workers, NEW batch \in SUBSET Eligible, Claim(w, batch) PROVE SyncedIsItsKey'
  <2>1. UNCHANGED sync /\ status' = [e \in Key |-> IF e \in batch THEN "processing" ELSE status[e]]
    BY <1>8 DEF Claim
  <2>2. \A k \in Key : status[k] = "cancelled" => status'[k] = "cancelled"
    BY <2>1 DEF Eligible
  <2>3. QED
    BY <1>2, <2>1, <2>2
<1>9. ASSUME NEW w \in Workers, Defer(w) PROVE SyncedIsItsKey'
  <2>1. /\ UNCHANGED sync
        /\ status' = status \/ (status[ev[w]] = "processing" /\ status' = [status EXCEPT ![ev[w]] = "retry"])
    BY <1>9 DEF Defer, Holds
  <2>2. \A k \in Key : status[k] = "cancelled" => status'[k] = "cancelled"
    BY <2>1 DEF TInv, TypeOK
  <2>3. QED
    BY <1>2, <2>1, <2>2
<1>10. ASSUME NEW w \in Workers, QuietStep(w) \/ \E e \in queue[w] : Begin(w, e) PROVE SyncedIsItsKey'
  <2>1. UNCHANGED status
    BY <1>10 DEF QuietStep, BatchDone, Checkpoint, SessionKey, OpenSession, RecordSession, LatestTask,
       AppendMessage, CommitSession, RecordSyncing, AwaitTask, ListSessions, DeleteSession,
       CompleteRead, FailRead, Crash, Begin, outboxVars
  <2>2. ~RecordSyncing(w) => sync' = sync
    BY <1>10 DEF QuietStep, BatchDone, Checkpoint, SessionKey, OpenSession, RecordSession, LatestTask,
       AppendMessage, CommitSession, AwaitTask, ListSessions, DeleteSession,
       CompleteRead, FailRead, Crash, Begin
  <2>3. \A m \in Memories : sync'[m] = sync[m] \/ sync'[m].status \notin {"completed", "deleted"}
    BY <2>2 DEF RecordSyncing, TInv, TypeOK
  <2>4. QED
    BY <1>2, <2>1, <2>3
<1>11. ASSUME NEW w \in Workers, CompleteWrite(w) \/ FailWrite(w) PROVE SyncedIsItsKey'
  BY <1>1, <1>11, CompleteSynced, FailSynced
<1>12. QED
  BY <1>3, <1>4, <1>5, <1>6, <1>7, <1>8, <1>9, <1>10, <1>11 DEF Next, Request, Step, QuietStep, ClaimAny

LEMMA TypeInvariance == Spec => []TInv
<1>1. TInv /\ [Next]_vars => TInv'
  BY StepTypes
<1>2. QED
  BY <1>1, InitTypes, PTL DEF Spec

\* Whatever workers do after their leases ran out, a memory that is shown as synchronised
\* shows the version of an event that is completed, or that a deletion has cancelled.
THEOREM SyncedNamesSettled == Spec => []SyncedIsItsKey
<1>1. Init => SyncedIsItsKey
  BY DEF Init, SyncedIsItsKey, NoSync
<1>2. TInv /\ IInv /\ SyncedIsItsKey /\ [Next]_vars => SyncedIsItsKey'
  BY StepSynced
<1>3. QED
  BY <1>1, <1>2, TypeInvariance, Invariance, PTL DEF Spec

-----------------------------------------------------------------------------
(* The life of a memory's events, when its id is not stored again.  A live  *)
(* memory has upserts only, a deletion is the last event of its memory, and *)
(* events were queued in the order of their versions.                       *)

Known(e) == status[e] # "absent"

LiveHasUpserts ==
    \A e \in Key : Known(e) /\ e.mem \in live => ~e.del /\ e.ver <= rev[e.mem]

GoneIsRedacted ==
    \A e \in Key : Known(e) /\ e.mem \notin live /\ ~e.del => redacted[e]

DeletionIsLast ==
    \A d, e \in Key : Known(d) /\ d.del /\ Known(e) /\ e.mem = d.mem => e = d \/ e.ver < d.ver

BornInOrder ==
    /\ \A e \in Key : Known(e) => born[e] < Age
    /\ \A e, f \in Key : Known(e) /\ Known(f) /\ e.mem = f.mem /\ e.ver < f.ver
                        => born[e] < born[f]

LifeInv == /\ deleting \subseteq live
           /\ LiveHasUpserts
           /\ GoneIsRedacted
           /\ DeletionIsLast
           /\ BornInOrder

\* What a step that queues no event and touches no memory leaves as it is.
LEMMA LifeStays ==
    ASSUME LifeInv, UNCHANGED <<live, rev, redacted, born>>, deleting' \subseteq live,
           \A e \in Key : Known(e)' <=> Known(e)
    PROVE  LifeInv'
<1>1. Age' = Age
  <2>1. {e \in Key : status'[e] # "absent"} = {e \in Key : status[e] # "absent"}
    BY DEF Known
  <2>2. QED
    BY <2>1 DEF Age
<1>2. LiveHasUpserts' /\ GoneIsRedacted' /\ DeletionIsLast'
  BY DEF LifeInv, LiveHasUpserts, GoneIsRedacted, DeletionIsLast, Known
<1>3. BornInOrder'
  BY <1>1 DEF LifeInv, BornInOrder, Known
<1>4. QED
  BY <1>2, <1>3 DEF LifeInv

\* A new event is the youngest.
LEMMA NewIsYoungest ==
    ASSUME TInv, BornInOrder, NEW u \in Key, ~Known(u), born' = [born EXCEPT ![u] = Age],
           \A e \in Key : Known(e)' <=> Known(e) \/ e = u,
           \A e \in Key : Known(e) /\ e.mem = u.mem => e.ver < u.ver
    PROVE  BornInOrder'
<1> DEFINE S == {e \in Key : status[e] # "absent"}
           T == {e \in Key : status'[e] # "absent"}
<1>1. T = S \cup {u} /\ u \notin S
  BY DEF Known
<1>2. IsFiniteSet(S) /\ Cardinality(S) \in Nat
  <2>1. IsFiniteSet(Key)
    BY KeyFinite
  <2>2. QED
    BY <2>1, FS_Subset, FS_CardinalityType
<1>3. Cardinality(T) = Cardinality(S) + 1
  BY <1>1, <1>2, FS_AddElement
<1>4. Age' = Age + 1 /\ Age \in Nat
  <2>1. Age' = Cardinality(T) + 1 /\ Age = Cardinality(S) + 1
    BY DEF Age
  <2> HIDE DEF S, T
  <2>2. QED
    BY <2>1, <1>2, <1>3
<1> HIDE DEF S, T
<1>5. /\ born \in [Key -> Nat] /\ born'[u] = Age
      /\ \A e \in Key : e # u => born'[e] = born[e]
  BY DEF TInv, TypeOK
<1>6. \A e \in Key : Known(e) => born[e] < Age
  BY DEF BornInOrder
<1>7. \A e \in Key : e.ver \in Nat
  BY ConstantsAssumption DEF Key
<1>8. \A e \in Key : Known(e)' => born'[e] < Age'
  BY <1>4, <1>5, <1>6
<1>9. ASSUME NEW e \in Key, NEW f \in Key, Known(e)', Known(f)', e.mem = f.mem, e.ver < f.ver
      PROVE  born'[e] < born'[f]
  <2>1. CASE e = u
    BY <2>1, <1>9, <1>7
  <2>2. CASE f = u
    <3>1. e # u /\ Known(e)
      BY <2>2, <1>9, <1>7
    <3>2. QED
      BY <3>1, <2>2, <1>5, <1>6
  <2>3. CASE e # u /\ f # u
    <3>1. Known(e) /\ Known(f)
      BY <2>3, <1>9
    <3>2. QED
      BY <3>1, <2>3, <1>5, <1>9 DEF BornInOrder
  <2>4. QED
    BY <2>1, <2>2, <2>3
<1>10. QED
  BY <1>8, <1>9 DEF BornInOrder

\* The event of storing a memory, or of deleting it, is new and the last of its memory.
NewEvent(u) ==
    /\ ~Known(u) /\ born' = [born EXCEPT ![u] = Age]
    /\ status'[u] = "pending"
    /\ \A e \in Key : Known(e)' <=> Known(e) \/ e = u
    /\ \A e \in Key : Known(e) /\ e.mem = u.mem => e.ver < u.ver

LEMMA PersistNew ==
    ASSUME ~MayRecreate, TInv, IInv, LifeInv, NEW m \in Memories, Persist(m)
    PROVE  /\ Upsert(m, NextRevision(m)) \in Key /\ NewEvent(Upsert(m, NextRevision(m)))
           /\ status' = [status EXCEPT ![Upsert(m, NextRevision(m))] = "pending"]
<1> DEFINE n == NextRevision(m)
           u == Upsert(m, n)
<1>1. /\ rev[m] \in 0..MaxVersion /\ MaxVersion \in Nat /\ n <= MaxVersion
      /\ n = 2 \/ n = rev[m] + 1
      /\ n = 2 /\ n # rev[m] + 1 => rev[m] = 0
  BY EventKeys DEF Persist, NextRevision, TInv, TypeOK
<1>2. u \in Key /\ u.mem = m /\ u.ver = n
  <2>1. n \in 1..MaxVersion
    BY <1>1
  <2>2. QED
    BY <2>1, EventKeys
<1>3. \A e \in Key : Known(e) /\ e.mem = m => e.ver <= rev[m]
  <2>1. m \in live \/ \A e \in EventsOf(m) : status[e] = "absent"
    BY DEF Persist
  <2>2. QED
    BY <2>1 DEF LifeInv, LiveHasUpserts, EventsOf, Known
<1>4. \A e \in Key : Known(e) /\ e.mem = m => e.ver < n
  <2>1. \A e \in Key : e.ver \in Nat
    BY <1>1 DEF Key
  <2>2. rev[m] < n
    BY <1>1
  <2> HIDE DEF n
  <2>3. QED
    BY <1>1, <1>3, <2>1, <2>2
<1>5. status' = EnqueuedStatus(u, status) /\ born' = Enqueued(u)
  BY DEF Persist
<1> HIDE DEF u
<1>6. ~Known(u)
  <2>1. n \in Nat
    BY <1>1
  <2> HIDE DEF n
  <2>2. QED
    BY <2>1, <1>2, <1>4
<1>7. status' = [status EXCEPT ![u] = "pending"] /\ born' = [born EXCEPT ![u] = Age]
  BY <1>5, <1>6 DEF EnqueuedStatus, Enqueued, Known
<1>8. \A e \in Key : Known(e)' <=> Known(e) \/ e = u
  BY <1>2, <1>7 DEF TInv, TypeOK, Known
<1>9. status'[u] = "pending"
  BY <1>2, <1>7 DEF TInv, TypeOK
<1>10. NewEvent(u)
  BY <1>2, <1>4, <1>6, <1>7, <1>8, <1>9 DEF NewEvent
<1>11. QED
  BY <1>2, <1>7, <1>10 DEF u

LEMMA PersistLife ==
    ASSUME ~MayRecreate, TInv, IInv, LifeInv, NEW m \in Memories, Persist(m)
    PROVE  LifeInv'
<1>1. PICK u \in Key : u = Upsert(m, NextRevision(m)) /\ NewEvent(u)
  BY PersistNew
<1>2. /\ u.mem = m /\ u.ver = NextRevision(m) /\ ~u.del
      /\ live' = live \cup {m} /\ rev' = [rev EXCEPT ![m] = u.ver]
      /\ UNCHANGED <<deleting, redacted>>
  BY <1>1 DEF Upsert, Persist, deletionVars
<1>3. /\ rev \in [Memories -> 0..MaxVersion] /\ rev'[m] = u.ver /\ u.ver \in Nat
      /\ \A k \in Memories : k # m => rev'[k] = rev[k]
      /\ \A e \in Key : e.mem \in Memories /\ e.ver \in Nat
  BY <1>2, ConstantsAssumption DEF TInv, TypeOK, Key
<1>4. \A e \in Key : Known(e)' <=> Known(e) \/ e = u
  BY <1>1 DEF NewEvent
<1>5. \A e \in Key : Known(e) /\ e.mem = m => e.ver < u.ver /\ e # u
  BY <1>1, <1>2 DEF NewEvent
<1>6. \A e \in Key : Known(e) /\ e.mem = m => m \in live
  <2>1. m \in live \/ \A e \in EventsOf(m) : status[e] = "absent"
    BY DEF Persist
  <2>2. QED
    BY <2>1 DEF EventsOf, Known
<1>7. LiveHasUpserts'
  <2> SUFFICES ASSUME NEW e \in Key, Known(e)', e.mem \in live'
               PROVE  ~e.del /\ e.ver <= rev'[e.mem]
    BY DEF LiveHasUpserts
  <2>1. CASE e = u
    BY <2>1, <1>2, <1>3
  <2>2. CASE e # u
    <3>1. Known(e) /\ e.mem \in live
      BY <2>2, <1>2, <1>4, <1>6
    <3>2. ~e.del /\ e.ver <= rev[e.mem]
      BY <3>1 DEF LifeInv, LiveHasUpserts
    <3>3. QED
      BY <3>1, <3>2, <1>3, <1>5
  <2>3. QED
    BY <2>1, <2>2
<1>8. GoneIsRedacted'
  BY <1>2, <1>4 DEF LifeInv, GoneIsRedacted
<1>9. DeletionIsLast'
  <2> SUFFICES ASSUME NEW d \in Key, NEW e \in Key, Known(d)', d.del, Known(e)', e.mem = d.mem
               PROVE  e = d \/ e.ver < d.ver
    BY DEF DeletionIsLast
  <2>1. d # u /\ Known(d)
    BY <1>2, <1>4
  <2>2. d.mem # m
    BY <2>1, <1>6 DEF LifeInv, LiveHasUpserts
  <2>3. Known(e)
    BY <2>2, <1>2, <1>4
  <2>4. QED
    BY <2>1, <2>3 DEF LifeInv, DeletionIsLast
<1>10. BornInOrder'
  BY <1>1, NewIsYoungest DEF NewEvent, LifeInv
<1>11. QED
  BY <1>2, <1>7, <1>8, <1>9, <1>10 DEF LifeInv


LEMMA DeleteNew ==
    ASSUME TInv, IInv, LifeInv, NEW m \in Memories, DeleteWrite(m)
    PROVE  LET d == Deletion(m, rev[m] + 1)
           IN  /\ d \in Key /\ NewEvent(d) /\ m \in live
               /\ \A e \in Key : /\ Known(e) /\ e.mem = m => redacted'[e]
                                 /\ redacted'[e] => redacted[e] \/ e.mem = m
                                 /\ e # d => status'[e] \in {status[e], "cancelled"}
                                 /\ redacted[e] => redacted'[e]
<1> DEFINE d == Deletion(m, rev[m] + 1)
           previous == {e \in EventsOf(m) : status[e] # "absent"}
           st == [e \in Key |-> IF e \in doomed \cap EventsOf(m) THEN "cancelled" ELSE status[e]]
<1>1. /\ status' = EnqueuedStatus(d, st) /\ born' = Enqueued(d) /\ m \in live
      /\ redacted' = [e \in Key |-> redacted[e] \/ e \in previous]
  BY DEF DeleteWrite, LifeInv
<1>2. rev[m] \in 0..MaxVersion /\ MaxVersion \in Nat
  BY EventKeys DEF TInv, TypeOK
<1>3. d \in Key /\ d.mem = m /\ d.ver = rev[m] + 1 /\ d.del
  <2>1. rev[m] + 1 \in 1..(MaxVersion + 1)
    BY <1>2
  <2>2. QED
    BY <2>1, EventKeys
<1>4. \A e \in Key : Known(e) /\ e.mem = m => ~e.del /\ e.ver < rev[m] + 1
  <2>1. \A e \in Key : e.ver \in Nat
    BY <1>2 DEF Key
  <2>2. QED
    BY <1>1, <1>2, <2>1 DEF LifeInv, LiveHasUpserts
<1> HIDE DEF d
<1>5. ~Known(d)
  BY <1>3, <1>4
<1>6. /\ \A e \in Key : e \in doomed => Known(e)
      /\ status \in [Key -> Statuses] /\ born \in [Key -> Nat]
  BY DEF IInv, DoomedExist, Known, TInv, TypeOK
<1>7. status' = [st EXCEPT ![d] = "pending"] /\ born' = [born EXCEPT ![d] = Age]
  BY <1>1, <1>5 DEF EnqueuedStatus, Enqueued, Known
<1>8. /\ status'[d] = "pending"
      /\ \A e \in Key : e # d => status'[e] = st[e]
  BY <1>3, <1>7
<1>9. /\ \A e \in Key : e # d => status'[e] \in {status[e], "cancelled"}
      /\ \A e \in Key : Known(e)' <=> Known(e) \/ e = d
  BY <1>6, <1>8 DEF Known
<1>10. NewEvent(d)
  BY <1>3, <1>4, <1>5, <1>7, <1>8, <1>9 DEF NewEvent
<1>11. \A e \in Key : /\ Known(e) /\ e.mem = m => redacted'[e]
                      /\ redacted'[e] => redacted[e] \/ e.mem = m
                      /\ redacted[e] => redacted'[e]
  BY <1>1 DEF EventsOf, Known
<1>12. QED
  BY <1>1, <1>3, <1>9, <1>10, <1>11 DEF d

LEMMA DeleteLife ==
    ASSUME TInv, IInv, LifeInv, NEW m \in Memories, DeleteWrite(m)
    PROVE  LifeInv'
<1>1. PICK d \in Key : d = Deletion(m, rev[m] + 1)
  BY DeleteNew
<1>2. /\ NewEvent(d) /\ m \in live
      /\ \A e \in Key : /\ Known(e) /\ e.mem = m => redacted'[e]
                        /\ redacted[e] => redacted'[e]
  BY <1>1, DeleteNew
<1>3. /\ d.mem = m /\ d.del /\ deleting' = deleting \ {m} /\ live' = live \ {m}
      /\ rev' = [rev EXCEPT ![m] = 0]
  BY <1>1 DEF Deletion, DeleteWrite
<1>4. /\ rev \in [Memories -> 0..MaxVersion]
      /\ \A k \in Memories : k # m => rev'[k] = rev[k]
      /\ \A e \in Key : e.mem \in Memories
  BY <1>3 DEF TInv, TypeOK, Key
<1>5. \A e \in Key : Known(e)' <=> Known(e) \/ e = d
  BY <1>2 DEF NewEvent
<1>6. LiveHasUpserts'
  BY <1>3, <1>4, <1>5 DEF LifeInv, LiveHasUpserts
<1>7. GoneIsRedacted'
  BY <1>2, <1>3, <1>5 DEF LifeInv, GoneIsRedacted
<1>8. DeletionIsLast'
  <2> SUFFICES ASSUME NEW c \in Key, NEW e \in Key, Known(c)', c.del, Known(e)', e.mem = c.mem
               PROVE  e = c \/ e.ver < c.ver
    BY DEF DeletionIsLast
  <2>1. \A f \in Key : Known(f) /\ f.mem = m => ~f.del /\ f.ver < d.ver
    BY <1>2, <1>3 DEF LifeInv, LiveHasUpserts, NewEvent
  <2>2. CASE c = d
    BY <2>1, <2>2, <1>3, <1>5
  <2>3. CASE c # d
    <3>1. Known(c) /\ c.mem # m
      BY <2>1, <2>3, <1>5
    <3>2. Known(e)
      BY <3>1, <1>3, <1>5
    <3>3. QED
      BY <3>1, <3>2 DEF LifeInv, DeletionIsLast
  <2>4. QED
    BY <2>2, <2>3
<1>9. BornInOrder'
  BY <1>2, NewIsYoungest DEF NewEvent, LifeInv
<1>10. deleting' \subseteq live'
  BY <1>3 DEF LifeInv
<1>11. QED
  BY <1>6, <1>7, <1>8, <1>9, <1>10 DEF LifeInv

\* No other step queues an event.
LEMMA WorkerLife ==
    ASSUME TInv, IInv, LifeInv,
           \/ \E e \in Key : Replay(e) \/ TaskEnds(e)
           \/ \E w \in Workers : ClaimAny(w) \/ Step(w) \/ Crash(w)
    PROVE  /\ UNCHANGED <<live, rev, redacted, born, deleting, doomed>>
           /\ \A e \in Key : Known(e)' <=> Known(e)
<1> USE DEF memoryVars, deletionVars, outboxVars, Known
<1>1. ASSUME NEW e \in Key, Replay(e)
      PROVE  /\ UNCHANGED <<live, rev, redacted, born, deleting, doomed>>
             /\ \A f \in Key : Known(f)' <=> Known(f)
  BY <1>1 DEF Replay, TInv, TypeOK
<1>2. ASSUME NEW e \in Key, TaskEnds(e)
      PROVE  UNCHANGED <<live, rev, redacted, born, deleting, doomed, status>>
  BY <1>2 DEF TaskEnds, TaskFinishes
<1>3. ASSUME NEW w \in Workers, ClaimAny(w)
      PROVE  /\ UNCHANGED <<live, rev, redacted, born, deleting, doomed>>
             /\ \A f \in Key : Known(f)' <=> Known(f)
  <2>1. PICK batch \in SUBSET Eligible : Claim(w, batch)
    BY <1>3 DEF ClaimAny
  <2>2. /\ UNCHANGED <<live, rev, redacted, born, deleting, doomed>>
        /\ status' = [e \in Key |-> IF e \in batch THEN "processing" ELSE status[e]]
    BY <2>1 DEF Claim
  <2>3. \A e \in batch : Known(e)
    BY DEF Eligible
  <2>4. QED
    BY <2>2, <2>3
<1>4. ASSUME NEW w \in Workers, Defer(w) \/ CompleteWrite(w) \/ FailWrite(w)
      PROVE  /\ UNCHANGED <<live, rev, redacted, born, deleting, doomed>>
             /\ \A f \in Key : Known(f)' <=> Known(f)
  <2>1. /\ UNCHANGED <<live, rev, redacted, born, deleting, doomed>>
        /\ pc[w] \in Busy
    BY <1>4 DEF Defer, CompleteWrite, FailWrite, Busy, Stages
  <2>2. ev[w] \in Key /\ Known(ev[w])
    BY <2>1 DEF IInv, ClaimsExist
  <2>3. \/ status' = status
        \/ \E st \in {"retry", "completed", "dead_letter"} : status' = [status EXCEPT ![ev[w]] = st]
    BY <1>4 DEF Defer, CompleteWrite, FailWrite
  <2>4. \A f \in Key : Known(f)' <=> Known(f)
    BY <2>2, <2>3 DEF TInv, TypeOK
  <2>5. QED
    BY <2>1, <2>4
<1>5. ASSUME NEW w \in Workers, QuietStep(w) \/ \E e \in queue[w] : Begin(w, e)
      PROVE  UNCHANGED <<live, rev, redacted, born, deleting, doomed, status>>
  BY <1>5 DEF QuietStep, Begin, BatchDone, Checkpoint, SessionKey, OpenSession, RecordSession,
       LatestTask, AppendMessage, CommitSession, RecordSyncing, AwaitTask, ListSessions,
       DeleteSession, CompleteRead, FailRead, Crash
<1>6. QED
  BY <1>1, <1>2, <1>3, <1>4, <1>5 DEF Step, QuietStep

LEMMA InitLife == Init => LifeInv
<1> SUFFICES ASSUME Init PROVE LifeInv
  OBVIOUS
<1>1. \A e \in Key : ~Known(e)
  BY DEF Init, Known
<1>2. QED
  BY <1>1 DEF Init, LifeInv, LiveHasUpserts, GoneIsRedacted, DeletionIsLast, BornInOrder

LEMMA StepLife == ~MayRecreate /\ TInv /\ IInv /\ LifeInv /\ [Next]_vars => LifeInv'
<1> SUFFICES ASSUME ~MayRecreate, TInv, IInv, LifeInv, [Next]_vars PROVE LifeInv'
  OBVIOUS
<1>1. ASSUME NEW m \in Memories, Persist(m) PROVE LifeInv'
  BY <1>1, PersistLife
<1>2. ASSUME NEW m \in Memories, DeleteRead(m) PROVE LifeInv'
  BY <1>2, LifeStays DEF DeleteRead, memoryVars, outboxVars, LifeInv, Known
<1>3. ASSUME NEW m \in Memories, DeleteWrite(m) PROVE LifeInv'
  BY <1>3, DeleteLife
<1>4. CASE \/ \E e \in Key : Replay(e) \/ TaskEnds(e)
           \/ \E w \in Workers : ClaimAny(w) \/ Step(w) \/ Crash(w)
  BY <1>4, WorkerLife, LifeStays DEF LifeInv
<1>5. CASE UNCHANGED vars
  BY <1>5, LifeStays DEF vars, memoryVars, deletionVars, outboxVars, LifeInv, Known
<1>6. QED
  BY <1>1, <1>2, <1>3, <1>4, <1>5 DEF Next, Request

-----------------------------------------------------------------------------
(* The order in which workers that do not overtake each other take the      *)
(* events of a memory.                                                      *)

\* The worker has the event before it, or in hand; it handles the one it does not put off.
Takes(w, e) == e \in queue[w] \/ (pc[w] \in Busy /\ ev[w] = e)
Handles(w) == pc[w] \in Busy \ {"defer"}

\* Nobody else has the event that a worker handles, nor an earlier one of its memory.  So it is
\* while leases outlast the calls they cover (lease_seconds of claim_events) and a deletion
\* waits for the worker whose event it has cancelled.
Turns ==
    \A v, w \in Workers : \A e \in Key :
        v # w /\ Takes(v, e) /\ Handles(w) /\ e.mem = ev[w].mem => ev[w].ver < e.ver

\* The one agent-memory:worker of package.json is always in turn.
SingleWorker == \A v, w \in Workers : v = w

LEMMA OneWorkerTurns == SingleWorker => Turns
  BY DEF SingleWorker, Turns

LEMMA HandledApart ==
    ASSUME TInv, IInv, Turns, NEW v \in Workers, NEW w \in Workers, v # w, Handles(v), Handles(w)
    PROVE  ev[v].mem # ev[w].mem
<1>1. ev[v] \in Key /\ ev[w] \in Key /\ Takes(v, ev[v]) /\ Takes(w, ev[w])
  BY DEF IInv, ClaimsExist, Takes, Handles
<1>2. ev[v].ver \in Nat /\ ev[w].ver \in Nat
  BY <1>1, KeyFields
<1>3. QED
  BY <1>1, <1>2 DEF Turns

\* A worker's step leaves the other workers where they are.
Stays(v) == pc'[v] = pc[v] /\ ev'[v] = ev[v] /\ queue'[v] = queue[v] /\ ctx'[v] = ctx[v]

LEMMA OthersStay ==
    ASSUME TInv, NEW w \in Workers, NEW v \in Workers \ {w}, ClaimAny(w) \/ Step(w) \/ Crash(w)
    PROVE  Stays(v)
<1> USE DEF TInv, TypeOK, Stays, Goto, InProcess, Leave
<1>1. CASE BatchDone(w) \/ (\E e \in queue[w] : Begin(w, e)) \/ Defer(w)
  BY <1>1 DEF BatchDone, Begin, Defer
<1>2. CASE Checkpoint(w) \/ SessionKey(w) \/ OpenSession(w) \/ RecordSession(w)
  BY <1>2 DEF Checkpoint, SessionKey, OpenSession, RecordSession, CallFails
<1>3. CASE LatestTask(w) \/ AppendMessage(w) \/ CommitSession(w)
  BY <1>3 DEF LatestTask, AppendMessage, CommitSession, CallFails
<1>4. CASE RecordSyncing(w) \/ AwaitTask(w) \/ ListSessions(w) \/ DeleteSession(w)
  BY <1>4 DEF RecordSyncing, AwaitTask, ListSessions, DeleteSession, CallFails
<1>5. CASE CompleteRead(w) \/ CompleteWrite(w) \/ FailRead(w) \/ FailWrite(w)
  BY <1>5 DEF CompleteRead, CompleteWrite, FailRead, FailWrite
<1>6. CASE ClaimAny(w) \/ Crash(w)
  BY <1>6 DEF ClaimAny, Claim, Crash
<1>7. QED
  BY <1>1, <1>2, <1>3, <1>4, <1>5, <1>6 DEF Step

Gone(e) == status[e] \in Settled \cup {"absent"}
Later(e) == {f \in Key : f.mem = e.mem /\ f.ver > e.ver}

\* Nothing unsettled is passed by a completed event, or by the synchronisation state.
NonePassed ==
    \A e \in Key : ~Gone(e) =>
        /\ \A f \in Later(e) : status[f] # "completed"
        /\ sync[e.mem].ver <= e.ver

\* Nor is what the worker takes, which may have been cancelled since.
TakenIsNext ==
    \A w \in Workers : \A e \in Key : Takes(w, e) =>
        /\ status[e] # "completed"
        /\ \A f \in Later(e) : status[f] # "completed"
        /\ sync[e.mem].ver <= e.ver

\* The event in hand is older than what is queued; once checked, all before it is gone.
InHand ==
    \A w \in Workers : pc[w] \in Busy =>
        /\ \A e \in queue[w] : e # ev[w] /\ born[ev[w]] <= born[e]
        /\ pc[w] # "defer" => \A f \in Predecessors(ev[w]) : Gone(f)

\* The synchronisation state is not behind what is completed.
HighWater == \A e \in Key : status[e] = "completed" => e.ver <= sync[e.mem].ver

\* The synchronisation state has its version from an event of the memory.
SyncNamesEvent ==
    \A m \in Memories : sync[m].ver # 0 =>
        sync[m].key \in EventsOf(m) /\ Known(sync[m].key) /\ sync[m].key.ver = sync[m].ver

OrderInv == NonePassed /\ TakenIsNext /\ InHand /\ HighWater /\ SyncNamesEvent

\* What a step may do that goes on with the event in hand, or is done with it: one event is
\* settled, retried or deferred, and the synchronisation state moves to it.
WorkerMoves(w) ==
    /\ UNCHANGED born
    /\ queue'[w] \subseteq queue[w]
    /\ pc'[w] \in Busy => /\ pc[w] \in Busy /\ ev'[w] = ev[w]
                          /\ pc'[w] # "defer" => pc[w] # "defer"
    /\ \A f \in Key : \/ status'[f] = status[f]
                      \/ /\ pc[w] \in Busy /\ pc'[w] \notin Busy /\ f = ev[w]
                         /\ status'[f] # "absent"
                         /\ status'[f] = "completed" =>
                               pc[w] # "defer" /\ sync'[f.mem].ver = f.ver
    /\ \A m \in Memories :
          \/ sync'[m].ver = sync[m].ver /\ sync'[m].key = sync[m].key
          \/ /\ pc[w] \in Busy \ {"defer"} /\ m = ev[w].mem
             /\ sync'[m].ver = ev[w].ver /\ sync'[m].key = ev[w]

LEMMA WorkerOrder ==
    ASSUME Turns, TInv, IInv, LifeInv, OrderInv, NEW w \in Workers, WorkerMoves(w),
           \A v \in Workers \ {w} : Stays(v)
    PROVE  OrderInv'
<1> DEFINE e == ev[w]
\* What another worker takes comes later than what this one handles.
<1>1. ASSUME NEW v \in Workers, v # w, NEW g \in Key, Takes(v, g), pc[w] \in Busy, pc[w] # "defer",
             g.mem = e.mem
      PROVE  e.ver < g.ver
  BY <1>1 DEF Turns, Handles
<1>2. /\ \A g \in Key : g.mem \in Memories /\ g.ver \in Nat
      /\ \A m \in Memories : sync[m].ver \in Nat
  BY KeyFields DEF TInv, TypeOK, SyncState
<1>3. pc[w] \in Busy => e \in Key /\ Known(e) /\ Takes(w, e)
  BY DEF IInv, ClaimsExist, Known, Takes
<1>4. \A g \in Key : Takes(w, g) => Known(g)
  BY DEF IInv, ClaimsExist, Known, Takes
\* What is queued behind the event in hand is not before it.
<1>5. ASSUME NEW g \in queue[w], pc[w] \in Busy, g.mem = e.mem
      PROVE  e.ver <= g.ver /\ g # e
  <2>1. g \in Key /\ Known(g) /\ e \in Key /\ Known(e)
    BY <1>3, <1>4, <1>5 DEF Takes, TInv, TypeOK
  <2>2. born[e] <= born[g] /\ g # e
    BY <1>5 DEF OrderInv, InHand
  <2>3. born[e] \in Nat /\ born[g] \in Nat
    BY <2>1 DEF TInv, TypeOK
  <2>4. ~(g.ver < e.ver)
    BY <2>1, <2>2, <2>3, <1>5 DEF LifeInv, BornInOrder
  <2>5. QED
    BY <2>1, <2>2, <2>4, <1>2
<1>6. ASSUME NEW g \in Key, pc[w] \in Busy, pc[w] # "defer", g.mem = e.mem, g.ver < e.ver
      PROVE  Gone(g)
  BY <1>6 DEF OrderInv, InHand, Predecessors
<1>7. ASSUME NEW g \in Key, ~Gone(g) \/ Takes(w, g)
      PROVE  /\ \A f \in Later(g) : status[f] # "completed"
             /\ sync[g.mem].ver <= g.ver
  BY <1>7 DEF OrderInv, NonePassed, TakenIsNext
<1>8. NonePassed'
  <2> SUFFICES ASSUME NEW g \in Key, ~Gone(g)'
               PROVE  /\ \A f \in Later(g) : status'[f] # "completed"
                      /\ sync'[g.mem].ver <= g.ver
    BY DEF NonePassed, Later
  <2>1. ~Gone(g) \/ (pc[w] \in Busy /\ g = e)
    BY DEF WorkerMoves, Gone
  <2>2. /\ \A f \in Later(g) : status[f] # "completed"
        /\ sync[g.mem].ver <= g.ver
    BY <2>1, <1>3, <1>7
  <2>3. ASSUME pc[w] \in Busy, pc[w] # "defer", g.mem = e.mem
        PROVE  e.ver <= g.ver
    <3>1. CASE g = e
      BY <3>1, <1>2
    <3>2. CASE g # e
      <4>1. ~Gone(g)
        BY <2>1, <3>2
      <4>2. ~(g.ver < e.ver)
        BY <2>3, <4>1, <1>6
      <4>3. QED
        BY <4>2, <2>3, <1>2, <1>3
    <3>3. QED
      BY <3>1, <3>2
  <2>4. ASSUME NEW f \in Later(g), status'[f] = "completed"
        PROVE  FALSE
    <3>1. f \in Key /\ f.mem = g.mem /\ g.ver < f.ver
      BY DEF Later
    <3>2. status'[f] # status[f]
      BY <2>2, <2>4
    <3>3. f = e /\ pc[w] \in Busy /\ pc[w] # "defer"
      BY <2>4, <3>1, <3>2 DEF WorkerMoves
    <3>4. QED
      BY <3>1, <3>3, <2>3, <1>2
  <2>5. sync'[g.mem].ver <= g.ver
    BY <2>2, <2>3, <1>2 DEF WorkerMoves
  <2>6. QED
    BY <2>4, <2>5
<1>9. ASSUME NEW g \in Key, Takes(w, g)'
      PROVE  /\ status'[g] # "completed"
             /\ \A f \in Later(g) : status'[f] # "completed"
             /\ sync'[g.mem].ver <= g.ver
  <2>1. Takes(w, g) /\ (pc'[w] \notin Busy => g \in queue[w])
    BY <1>9 DEF Takes, WorkerMoves
  <2>2. status[g] # "completed"
    BY <2>1 DEF OrderInv, TakenIsNext
  <2>3. pc[w] \in Busy /\ g.mem = e.mem => e.ver <= g.ver
    BY <2>1, <1>2, <1>3, <1>5 DEF Takes
  <2>4. status'[g] = status[g]
    BY <2>1, <1>5 DEF WorkerMoves
  <2>5. ASSUME NEW f \in Later(g), status'[f] = "completed"
        PROVE  FALSE
    <3>1. f \in Key /\ f.mem = g.mem /\ g.ver < f.ver
      BY DEF Later
    <3>2. status'[f] # status[f]
      BY <2>1, <2>5, <1>7
    <3>3. f = e /\ pc[w] \in Busy
      BY <3>1, <3>2 DEF WorkerMoves
    <3>4. QED
      BY <3>1, <3>3, <2>3, <1>2
  <2>6. sync'[g.mem].ver <= g.ver
    BY <2>1, <2>3, <1>2, <1>7 DEF WorkerMoves
  <2>7. QED
    BY <2>2, <2>4, <2>5, <2>6
\* What another worker takes is of a memory whose last word is not this worker's, or later.
<1>10. ASSUME NEW v \in Workers, v # w, NEW g \in Key, Takes(v, g)'
       PROVE  /\ status'[g] # "completed"
              /\ \A f \in Later(g) : status'[f] # "completed"
              /\ sync'[g.mem].ver <= g.ver
  <2>1. Takes(v, g)
    BY <1>10 DEF Takes, Stays
  <2>2. /\ status[g] # "completed" /\ \A f \in Later(g) : status[f] # "completed"
        /\ sync[g.mem].ver <= g.ver
    BY <2>1 DEF OrderInv, TakenIsNext
  <2>3. pc[w] \in Busy /\ pc[w] # "defer" /\ g.mem = e.mem => e.ver < g.ver
    BY <2>1, <1>1, <1>10
  <2>4. ASSUME NEW f \in Key, status'[f] = "completed", status[f] # "completed"
        PROVE  pc[w] \in Busy /\ pc[w] # "defer" /\ f = e
    BY <2>4 DEF WorkerMoves
  <2>5. status'[g] # "completed"
    BY <2>2, <2>3, <2>4, <1>2
  <2>6. ASSUME NEW f \in Later(g) PROVE status'[f] # "completed"
    <3>1. f \in Key /\ f.mem = g.mem /\ g.ver < f.ver /\ status[f] # "completed"
      BY <2>2 DEF Later
    <3>2. QED
      BY <3>1, <2>3, <2>4, <1>2
  <2>7. sync'[g.mem].ver <= g.ver
    <3>1. g.mem \in Memories
      BY <1>2
    <3>2. CASE sync'[g.mem].ver = sync[g.mem].ver
      BY <3>2, <2>2
    <3>3. CASE pc[w] \in Busy \ {"defer"} /\ g.mem = e.mem /\ sync'[g.mem].ver = e.ver
      BY <3>3, <2>3, <1>2, <1>3
    <3>4. QED
      BY <3>1, <3>2, <3>3 DEF WorkerMoves
  <2>8. QED
    BY <2>5, <2>6, <2>7
<1>11. TakenIsNext'
  <2>1. \A g \in Key : \A f \in Later(g) : f \in Key
    BY DEF Later
  <2>2. QED
    BY <2>1, <1>9, <1>10 DEF TakenIsNext, Later
<1>12. ASSUME pc'[w] \in Busy
       PROVE  /\ \A g \in queue'[w] : g # ev'[w] /\ born'[ev'[w]] <= born'[g]
              /\ pc'[w] # "defer" => \A f \in Predecessors(ev'[w]) : Gone(f)'
  <2>1. /\ pc[w] \in Busy /\ ev'[w] = e /\ born' = born /\ queue'[w] \subseteq queue[w]
        /\ pc'[w] # "defer" => pc[w] # "defer"
        /\ \A f \in Key : status'[f] = status[f]
    BY <1>12 DEF WorkerMoves
  <2>2. \A f \in Predecessors(e) : f \in Key
    BY DEF Predecessors
  <2>3. QED
    BY <2>1, <2>2 DEF OrderInv, InHand, Gone
<1>13. ASSUME NEW v \in Workers, v # w, pc'[v] \in Busy
       PROVE  /\ \A g \in queue'[v] : g # ev'[v] /\ born'[ev'[v]] <= born'[g]
              /\ pc'[v] # "defer" => \A f \in Predecessors(ev'[v]) : Gone(f)'
  <2>1. pc[v] \in Busy /\ pc'[v] = pc[v] /\ ev'[v] = ev[v] /\ queue'[v] = queue[v] /\ born' = born
    BY <1>13 DEF Stays, WorkerMoves
  <2>2. ASSUME pc[v] # "defer", NEW f \in Predecessors(ev[v]) PROVE Gone(f)'
    <3>1. f \in Key /\ f.mem = ev[v].mem /\ f.ver < ev[v].ver /\ Gone(f)
      BY <2>1, <2>2 DEF Predecessors, OrderInv, InHand
    <3>2. ~(pc[w] \in Busy /\ f = e)
      <4>1. SUFFICES ASSUME pc[w] \in Busy, f = e PROVE FALSE
        OBVIOUS
      <4>2. ev[v].ver < f.ver
        BY <4>1, <3>1, <2>1, <2>2, <1>3, <1>13 DEF Turns, Handles
      <4>3. ev[v] \in Key
        BY <2>1 DEF IInv, ClaimsExist
      <4>4. QED
        BY <4>2, <4>3, <3>1, <1>2
    <3>3. QED
      BY <3>1, <3>2 DEF WorkerMoves, Gone
  <2>3. QED
    BY <2>1, <2>2 DEF OrderInv, InHand
<1>14. InHand'
  BY <1>12, <1>13 DEF InHand, Predecessors, Gone
<1>15. HighWater'
  <2> SUFFICES ASSUME NEW g \in Key, status'[g] = "completed"
               PROVE  g.ver <= sync'[g.mem].ver
    BY DEF HighWater
  <2>1. CASE status'[g] # status[g]
    BY <2>1, <1>2 DEF WorkerMoves
  <2>2. CASE status[g] = "completed"
    <3>1. g.ver <= sync[g.mem].ver
      BY <2>2 DEF OrderInv, HighWater
    <3>2. ASSUME pc[w] \in Busy, g.mem = e.mem
          PROVE  g.ver <= e.ver
      <4>1. g \notin Later(e)
        BY <2>2, <3>2, <1>3, <1>7
      <4>2. QED
        BY <4>1, <3>2, <1>2, <1>3 DEF Later
    <3>3. QED
      BY <3>1, <3>2, <1>2 DEF WorkerMoves
  <2>3. QED
    BY <2>1, <2>2
<1>16. SyncNamesEvent'
  <2>1. \A f \in Key : Known(f) => Known(f)'
    BY DEF WorkerMoves, Known
  <2>2. \A m \in Memories : EventsOf(m) \subseteq Key
    BY DEF EventsOf
  <2> SUFFICES ASSUME NEW m \in Memories, sync'[m].ver # 0
               PROVE  /\ sync'[m].key \in EventsOf(m) /\ status'[sync'[m].key] # "absent"
                      /\ sync'[m].key.ver = sync'[m].ver
    BY DEF SyncNamesEvent, EventsOf, Known
  <2>3. CASE sync'[m].ver = sync[m].ver /\ sync'[m].key = sync[m].key
    <3>1. sync[m].key \in EventsOf(m) /\ Known(sync[m].key) /\ sync[m].key.ver = sync[m].ver
      BY <2>3 DEF OrderInv, SyncNamesEvent
    <3>2. PICK k \in Key : k = sync[m].key
      BY <3>1, <2>2
    <3>3. QED
      BY <3>1, <3>2, <2>1, <2>3 DEF Known
  <2>4. CASE /\ pc[w] \in Busy /\ m = ev[w].mem
             /\ sync'[m].ver = ev[w].ver /\ sync'[m].key = ev[w]
    BY <2>1, <2>4, <1>3 DEF EventsOf, Known
  <2>5. QED
    BY <2>3, <2>4 DEF WorkerMoves
<1>17. QED
  BY <1>8, <1>11, <1>14, <1>15, <1>16 DEF OrderInv

\* What the requests may do: they queue an event that is the last of its memory, cancel
\* events, and put dead letters back.
LEMMA RequestOrder ==
    ASSUME TInv, IInv, OrderInv, UNCHANGED <<pc, queue, ev>>,
           \A m \in Memories : sync'[m].ver = sync[m].ver /\ sync'[m].key = sync[m].key,
           \A f \in Key : /\ Known(f) => Known(f)' /\ born'[f] = born[f]
                          /\ status'[f] = "completed" => status[f] = "completed"
                          /\ Gone(f) /\ ~Gone(f)' =>
                                /\ ~Known(f)
                                /\ \A g \in Key : Known(g) /\ g.mem = f.mem => g.ver < f.ver
    PROVE  OrderInv'
<1>1. /\ \A g \in Key : g.mem \in Memories /\ g.ver \in Nat
      /\ \A m \in Memories : sync[m].ver \in Nat
  BY KeyFields DEF TInv, TypeOK, SyncState
<1>2. \A w \in Workers : \A g \in Key : Takes(w, g) => Known(g)
  BY DEF IInv, ClaimsExist, Known, Takes
<1>3. NonePassed'
  <2> SUFFICES ASSUME NEW g \in Key, ~Gone(g)'
               PROVE  /\ \A f \in Later(g) : status'[f] # "completed"
                      /\ sync'[g.mem].ver <= g.ver
    BY DEF NonePassed, Later
  <2>1. CASE ~Gone(g)
    BY <2>1, <1>1 DEF OrderInv, NonePassed, Later
  <2>2. CASE Gone(g)
    <3>1. \A f \in Key : Known(f) /\ f.mem = g.mem => f.ver < g.ver
      BY <2>2
    <3>2. \A f \in Later(g) : status[f] # "completed"
      BY <3>1, <1>1 DEF Later, Known
    <3>3. sync[g.mem].ver <= g.ver
      <4>1. CASE sync[g.mem].ver = 0
        BY <4>1, <1>1
      <4>2. CASE sync[g.mem].ver # 0
        BY <4>2, <3>1, <1>1 DEF OrderInv, SyncNamesEvent, EventsOf
      <4>3. QED
        BY <4>1, <4>2
    <3>4. QED
      BY <3>2, <3>3, <1>1 DEF Later
  <2>3. QED
    BY <2>1, <2>2
<1>4. TakenIsNext'
  <2>1. \A w \in Workers : \A g \in Key : Takes(w, g)' => Takes(w, g)
    BY DEF Takes
  <2>2. \A g \in Key : sync'[g.mem].ver = sync[g.mem].ver
    BY <1>1
  <2>3. \A g \in Key : \A f \in Later(g) : f \in Key
    BY DEF Later
  <2>4. QED
    BY <2>1, <2>2, <2>3 DEF OrderInv, TakenIsNext, Later
<1>5. InHand'
  <2> SUFFICES ASSUME NEW w \in Workers, pc[w] \in Busy
               PROVE  /\ \A g \in queue[w] : g # ev[w] /\ born'[ev[w]] <= born'[g]
                      /\ pc[w] # "defer" => \A f \in Predecessors(ev[w]) : Gone(f)'
    BY DEF InHand, Predecessors, Gone
  <2>1. ev[w] \in Key /\ Known(ev[w])
    BY DEF IInv, ClaimsExist, Known
  <2>2. \A g \in queue[w] : g \in Key /\ Known(g)
    BY DEF IInv, ClaimsExist, Known, TInv, TypeOK
  <2>3. \A g \in queue[w] : g # ev[w] /\ born'[ev[w]] <= born'[g]
    BY <2>1, <2>2 DEF OrderInv, InHand
  <2>4. ASSUME pc[w] # "defer", NEW f \in Predecessors(ev[w])
        PROVE  Gone(f)'
    <3>1. f \in Key /\ f.mem = ev[w].mem /\ f.ver < ev[w].ver /\ Gone(f)
      BY <2>4 DEF Predecessors, OrderInv, InHand
    <3>2. ~(ev[w].ver < f.ver)
      BY <3>1, <2>1, <1>1
    <3>3. QED
      BY <3>1, <3>2, <2>1
  <2>5. QED
    BY <2>3, <2>4
<1>6. HighWater'
  BY <1>1 DEF OrderInv, HighWater
<1>7. SyncNamesEvent'
  <2> SUFFICES ASSUME NEW m \in Memories, sync'[m].ver # 0
               PROVE  /\ sync'[m].key \in EventsOf(m) /\ status'[sync'[m].key] # "absent"
                      /\ sync'[m].key.ver = sync'[m].ver
    BY DEF SyncNamesEvent, EventsOf, Known
  <2>1. sync[m].key \in EventsOf(m) /\ Known(sync[m].key) /\ sync[m].key.ver = sync[m].ver
    BY DEF OrderInv, SyncNamesEvent
  <2>2. PICK k \in Key : k = sync[m].key
    BY <2>1 DEF EventsOf
  <2>3. Known(k)'
    BY <2>1, <2>2
  <2>4. QED
    BY <2>1, <2>2, <2>3 DEF Known
<1>8. QED
  BY <1>3, <1>4, <1>5, <1>6, <1>7 DEF OrderInv

LEMMA QuietMoves ==
    ASSUME TInv, IInv, NEW w \in Workers, QuietStep(w)
    PROVE  WorkerMoves(w)
<1>1. Quiet(w)
  BY QuietSteps DEF IInv
<1>2. UNCHANGED born /\ queue'[w] \subseteq queue[w] /\ (pc'[w] # "defer" /\ pc'[w] \in Busy => pc[w] # "defer")
  BY DEF QuietStep, BatchDone, Checkpoint, SessionKey, OpenSession, RecordSession, LatestTask,
     AppendMessage, CommitSession, RecordSyncing, AwaitTask, ListSessions, DeleteSession,
     CompleteRead, FailRead, Crash, memoryVars, deletionVars, outboxVars, TInv, TypeOK, Quiet,
     Busy, InProcess, Goto, Leave, CallFails
<1>3. \A m \in Memories :
          \/ sync'[m].ver = sync[m].ver /\ sync'[m].key = sync[m].key
          \/ /\ pc[w] \in Busy \ {"defer"} /\ m = ev[w].mem
             /\ sync'[m].ver = ev[w].ver /\ sync'[m].key = ev[w]
  <2>1. CASE RecordSyncing(w)
    <3>1. pc[w] \in Busy \ {"defer"}
      BY <2>1 DEF RecordSyncing, Busy, Stages
    <3>2. sync' = [sync EXCEPT ![ev[w].mem] =
                      [ver |-> ev[w].ver, status |-> "syncing", task |-> ctx[w].task,
                       sess |-> Session(ev[w], ctx[w].idx), key |-> ev[w]]]
      BY <2>1 DEF RecordSyncing
    <3>3. QED
      BY <3>1, <3>2 DEF TInv, TypeOK
  <2>2. CASE ~RecordSyncing(w)
    <3>1. UNCHANGED sync
      BY <2>2 DEF QuietStep, BatchDone, Checkpoint, SessionKey, OpenSession, RecordSession,
         LatestTask, AppendMessage, CommitSession, AwaitTask, ListSessions, DeleteSession,
         CompleteRead, FailRead, Crash
    <3>2. QED
      BY <3>1
  <2>3. QED
    BY <2>1, <2>2
<1>4. QED
  BY <1>1, <1>2, <1>3 DEF WorkerMoves, Quiet

LEMMA SettleMoves ==
    ASSUME TInv, IInv, OrderInv, NEW w \in Workers, Defer(w) \/ CompleteWrite(w) \/ FailWrite(w)
    PROVE  WorkerMoves(w)
<1> DEFINE e == ev[w]
           s == sync[e.mem]
<1>1. /\ pc[w] \in Busy /\ pc' = [pc EXCEPT ![w] = "next"] /\ UNCHANGED <<born, queue>>
      /\ ~Defer(w) => pc[w] # "defer"
  BY DEF Defer, CompleteWrite, FailWrite, Busy, Stages, Leave, Goto
<1>2. e \in Key /\ e.mem \in Memories /\ e.ver \in Nat /\ Takes(w, e)
  BY <1>1, KeyFields DEF IInv, ClaimsExist, Takes
<1>3. s.ver <= e.ver /\ s.ver \in Nat
  BY <1>2 DEF OrderInv, TakenIsNext, TInv, TypeOK, SyncState
<1>4. pc'[w] \notin Busy
  BY <1>1 DEF Busy, TInv, TypeOK
<1>5. ASSUME NEW st \in {"retry", "completed", "dead_letter"}, NEW x,
             status' = [status EXCEPT ![e] = st], sync' = [sync EXCEPT ![e.mem] = x],
             x.ver = e.ver, x.key = e, pc[w] # "defer"
      PROVE  WorkerMoves(w)
  <2>1. \A m \in Memories : \/ sync'[m] = sync[m]
                            \/ m = e.mem /\ sync'[m].ver = e.ver /\ sync'[m].key = e
    BY <1>5, <1>2 DEF TInv, TypeOK
  <2>2. \A f \in Key : status'[f] = status[f] \/ (f = e /\ status'[f] # "absent")
    BY <1>5, <1>2 DEF TInv, TypeOK
  <2>3. sync'[e.mem].ver = e.ver
    BY <1>5, <1>2 DEF TInv, TypeOK
  <2>4. QED
    BY <1>1, <1>4, <1>5, <2>1, <2>2, <2>3 DEF WorkerMoves
<1>6. CASE Defer(w)
  <2>1. UNCHANGED sync /\ (status' = status \/ status' = [status EXCEPT ![e] = "retry"])
    BY <1>6 DEF Defer
  <2>2. \A f \in Key : status'[f] = status[f] \/ (f = e /\ status'[f] = "retry")
    BY <2>1, <1>2 DEF TInv, TypeOK
  <2>3. QED
    BY <1>1, <1>4, <2>1, <2>2 DEF WorkerMoves
<1>7. CASE CompleteWrite(w)
  <2>1. status' = [status EXCEPT ![e] = "completed"] /\ sync' = [sync EXCEPT ![e.mem] = CompletedSync(w)]
    BY <1>7 DEF CompleteWrite
  <2>2. CompletedSync(w).ver = e.ver /\ CompletedSync(w).key = e
    BY <1>3 DEF CompletedSync
  <2>3. pc[w] # "defer"
    BY <1>7 DEF CompleteWrite
  <2>4. QED
    BY <2>1, <2>2, <2>3, <1>5
<1>8. CASE FailWrite(w)
  <2> DEFINE last == attempts[e] + 1 >= MaxAttempts
             x == [ver |-> e.ver, key |-> e, task |-> s.task,
                   status |-> IF last THEN "dead_letter" ELSE "failed",
                   sess |-> IF s.status = "none" /\ Len(rows[e]) > 0 THEN Session(e, 0) ELSE s.sess]
             st == IF last THEN "dead_letter" ELSE "retry"
  <2>1. ~(s.ver > e.ver)
    BY <1>2, <1>3
  <2>2. status' = [status EXCEPT ![e] = st] /\ sync' = [sync EXCEPT ![e.mem] = x] /\ pc[w] # "defer"
    BY <1>8, <2>1 DEF FailWrite
  <2>3. x.ver = e.ver /\ x.key = e
    OBVIOUS
  <2>4. st \in {"retry", "completed", "dead_letter"}
    OBVIOUS
  <2> HIDE DEF st, x
  <2>5. QED
    BY <2>2, <2>3, <2>4, <1>5
<1>9. QED
  BY <1>6, <1>7, <1>8

\* The claim takes events nothing has passed.
LEMMA ClaimOrder ==
    ASSUME TInv, IInv, OrderInv, NEW w \in Workers,
           NEW batch \in SUBSET Eligible, Claim(w, batch)
    PROVE  OrderInv'
<1>1. /\ status' = [e \in Key |-> IF e \in batch THEN "processing" ELSE status[e]]
      /\ queue' = [queue EXCEPT ![w] = batch] /\ pc' = [pc EXCEPT ![w] = "next"]
      /\ UNCHANGED <<born, sync>>
  BY DEF Claim
<1>2. /\ \A v \in Workers \ {w} : Stays(v)
      /\ pc'[w] \notin Busy /\ queue'[w] = batch
      /\ \A e \in batch : e \in Key /\ status[e] \in {"pending", "retry", "processing"}
  BY <1>1 DEF Claim, Stays, Busy, Stages, TInv, TypeOK, Eligible
<1>3. \A e \in Key : /\ status'[e] = IF e \in batch THEN "processing" ELSE status[e]
                     /\ Gone(e)' <=> Gone(e)
                     /\ status'[e] = "completed" <=> status[e] = "completed"
                     /\ status'[e] = "absent" <=> status[e] = "absent"
  BY <1>1, <1>2 DEF Gone, Settled
<1>4. \A e \in batch : ~Gone(e)
  BY <1>2 DEF Gone, Settled
<1>5. \A g \in Key : \A f \in Later(g) : f \in Key
  BY DEF Later
<1>6. NonePassed'
  BY <1>1, <1>3, <1>5 DEF OrderInv, NonePassed, Later
<1>7. TakenIsNext'
  <2> SUFFICES ASSUME NEW v \in Workers, NEW g \in Key, Takes(v, g)'
               PROVE  /\ status'[g] # "completed"
                      /\ \A f \in Later(g) : status'[f] # "completed"
                      /\ sync'[g.mem].ver <= g.ver
    BY DEF TakenIsNext, Later
  <2>1. CASE v = w
    <3>1. g \in batch
      BY <2>1, <1>2 DEF Takes
    <3>2. QED
      BY <3>1, <1>1, <1>3, <1>4, <1>5 DEF OrderInv, NonePassed
  <2>2. CASE v # w
    <3>1. Takes(v, g)
      BY <2>2, <1>2 DEF Takes, Stays
    <3>2. QED
      BY <3>1, <1>1, <1>3, <1>5 DEF OrderInv, TakenIsNext
  <2>3. QED
    BY <2>1, <2>2
<1>8. InHand'
  <2> SUFFICES ASSUME NEW v \in Workers, pc'[v] \in Busy
               PROVE  /\ \A g \in queue'[v] : g # ev'[v] /\ born'[ev'[v]] <= born'[g]
                      /\ pc'[v] # "defer" => \A f \in Predecessors(ev'[v]) : Gone(f)'
    BY DEF InHand, Predecessors, Gone
  <2>1. pc[v] \in Busy /\ Stays(v)
    BY <1>2 DEF Stays
  <2>2. \A f \in Predecessors(ev[v]) : f \in Key
    BY DEF Predecessors
  <2>3. QED
    BY <2>1, <2>2, <1>1, <1>3 DEF OrderInv, InHand, Stays
<1>9. HighWater'
  BY <1>1, <1>3 DEF OrderInv, HighWater
<1>10. SyncNamesEvent'
  BY <1>1, <1>3 DEF OrderInv, SyncNamesEvent, EventsOf, Known
<1>11. QED
  BY <1>6, <1>7, <1>8, <1>9, <1>10 DEF OrderInv

\* The worker begins with the oldest event, and looks at those before it.
LEMMA BeginOrder ==
    ASSUME TInv, IInv, OrderInv, NEW w \in Workers, NEW e \in queue[w], Begin(w, e)
    PROVE  OrderInv'
<1>1. /\ queue' = [queue EXCEPT ![w] = @ \ {e}] /\ ev' = [ev EXCEPT ![w] = e]
      /\ \A f \in queue[w] : born[e] <= born[f]
      /\ UNCHANGED <<born, sync, status>>
      /\ \E stage \in Stages :
            /\ pc' = [pc EXCEPT ![w] = stage]
            /\ stage # "defer" => \A f \in Predecessors(e) : status[f] \in Settled \cup {"absent"}
  BY DEF Begin, Goto, Stages, outboxVars
<1>2. /\ \A v \in Workers \ {w} : pc'[v] = pc[v] /\ ev'[v] = ev[v] /\ queue'[v] = queue[v]
      /\ queue'[w] = queue[w] \ {e} /\ ev'[w] = e /\ e \in Key
      /\ pc'[w] # "defer" => \A f \in Predecessors(e) : Gone(f)
  BY <1>1 DEF TInv, TypeOK, Gone
<1>3. TakenIsNext'
  <2>1. \A v \in Workers : \A g \in Key : Takes(v, g)' => Takes(v, g)
    BY <1>2 DEF Takes
  <2>2. QED
    BY <2>1, <1>1 DEF OrderInv, TakenIsNext, Later
<1>4. InHand'
  <2> SUFFICES ASSUME NEW v \in Workers, pc'[v] \in Busy
               PROVE  /\ \A g \in queue'[v] : g # ev'[v] /\ born'[ev'[v]] <= born'[g]
                      /\ pc'[v] # "defer" => \A f \in Predecessors(ev'[v]) : Gone(f)'
    BY DEF InHand, Predecessors, Gone
  <2>1. CASE v = w
    BY <2>1, <1>1, <1>2 DEF Gone
  <2>2. CASE v # w
    BY <2>2, <1>1, <1>2 DEF OrderInv, InHand, Gone
  <2>3. QED
    BY <2>1, <2>2
<1>5. NonePassed' /\ HighWater' /\ SyncNamesEvent'
  BY <1>1 DEF OrderInv, NonePassed, HighWater, SyncNamesEvent, Gone, Later, Known, EventsOf
<1>6. QED
  BY <1>3, <1>4, <1>5 DEF OrderInv

LEMMA InitOrder == Init => OrderInv
<1> SUFFICES ASSUME Init PROVE OrderInv
  OBVIOUS
<1>1. \A e \in Key : ~Known(e) /\ Gone(e) /\ status[e] # "completed"
  BY DEF Init, Known, Gone, Settled
<1>2. \A w \in Workers : pc[w] \notin Busy /\ queue[w] = {}
  BY DEF Init, Busy
<1>3. \A m \in Memories : sync[m].ver = 0
  BY DEF Init, NoSync
<1>4. QED
  BY <1>1, <1>2, <1>3 DEF OrderInv, NonePassed, TakenIsNext, InHand, HighWater, SyncNamesEvent, Takes

LEMMA StepOrder ==
    Turns /\ ~MayRecreate /\ TInv /\ IInv /\ LifeInv /\ OrderInv /\ [Next]_vars => OrderInv'
<1> SUFFICES ASSUME Turns, ~MayRecreate, TInv, IInv, LifeInv, OrderInv, [Next]_vars
             PROVE  OrderInv'
  OBVIOUS
<1>1. ASSUME NEW m \in Memories, Persist(m) PROVE OrderInv'
  <2>1. PICK u \in Key : NewEvent(u) /\ status' = [status EXCEPT ![u] = "pending"]
    BY <1>1, PersistNew
  <2>2. UNCHANGED <<pc, queue, ev, sync>>
    BY <1>1 DEF Persist, workerVars
  <2>3. \A f \in Key : f # u => status'[f] = status[f] /\ born'[f] = born[f]
    BY <2>1 DEF NewEvent, TInv, TypeOK
  <2>4. \A f \in Key : /\ Known(f) => Known(f)' /\ born'[f] = born[f]
                       /\ status'[f] = "completed" => status[f] = "completed"
                       /\ Gone(f) /\ ~Gone(f)' => f = u
    BY <2>1, <2>3 DEF NewEvent, Known, Gone
  <2>5. QED
    BY <2>1, <2>2, <2>4, RequestOrder DEF NewEvent
<1>2. ASSUME NEW m \in Memories, DeleteRead(m) PROVE OrderInv'
  <2>1. UNCHANGED <<pc, queue, ev, sync, status, born>>
    BY <1>2 DEF DeleteRead, outboxVars, workerVars
  <2>2. QED
    BY <2>1, RequestOrder DEF Known, Gone
<1>3. ASSUME NEW m \in Memories, DeleteWrite(m) PROVE OrderInv'
  <2>1. PICK d \in Key : /\ NewEvent(d)
                         /\ \A e \in Key : e # d => status'[e] \in {status[e], "cancelled"}
    BY <1>3, DeleteNew
  <2>2. UNCHANGED <<pc, queue, ev, sync>>
    BY <1>3 DEF DeleteWrite, workerVars
  <2>3. \A f \in Key : f # d => born'[f] = born[f]
    BY <2>1 DEF NewEvent, TInv, TypeOK
  <2>4. \A f \in Key : /\ Known(f) => Known(f)' /\ born'[f] = born[f]
                       /\ status'[f] = "completed" => status[f] = "completed"
                       /\ Gone(f) /\ ~Gone(f)' => f = d
    BY <2>1, <2>3 DEF NewEvent, Known, Gone, Settled
  <2>5. QED
    BY <2>1, <2>2, <2>4, RequestOrder DEF NewEvent
<1>4. ASSUME NEW e \in Key, Replay(e) PROVE OrderInv'
  <2>1. /\ status[e] = "dead_letter" /\ status' = [status EXCEPT ![e] = "pending"]
        /\ UNCHANGED <<pc, queue, ev, born>>
        /\ sync' = sync \/ sync' = [sync EXCEPT ![e.mem] =
                              [@ EXCEPT !.status = "pending", !.sess = None, !.task = None]]
    BY <1>4 DEF Replay, workerVars
  <2>2. \A f \in Key : /\ Known(f) => Known(f)'
                       /\ status'[f] = "completed" => status[f] = "completed"
                       /\ Gone(f) => Gone(f)'
    BY <2>1 DEF Known, Gone, Settled, TInv, TypeOK
  <2>3. \A m \in Memories : sync'[m].ver = sync[m].ver /\ sync'[m].key = sync[m].key
    <3>1. PICK s \in SyncState : s = sync[e.mem]
      BY KeyFields DEF TInv, TypeOK
    <3>2. PICK t : /\ t = [s EXCEPT !.status = "pending", !.sess = None, !.task = None]
                   /\ t.ver = s.ver /\ t.key = s.key
      BY ResetState
    <3>3. sync' = sync \/ sync' = [sync EXCEPT ![e.mem] = t]
      BY <2>1, <3>1, <3>2
    <3>4. QED
      BY <3>1, <3>2, <3>3 DEF TInv, TypeOK
  <2>4. QED
    BY <2>1, <2>2, <2>3, RequestOrder
<1>5. CASE (\E e \in Key : TaskEnds(e)) \/ UNCHANGED vars
  <2>1. UNCHANGED <<pc, queue, ev, sync, status, born>>
    BY <1>5 DEF TaskEnds, TaskFinishes, vars, outboxVars, workerVars
  <2>2. QED
    BY <2>1, RequestOrder DEF Known, Gone
<1>6. ASSUME NEW w \in Workers, ClaimAny(w) PROVE OrderInv'
  BY <1>6, ClaimOrder DEF ClaimAny
<1>7. ASSUME NEW w \in Workers, NEW e \in queue[w], Begin(w, e) PROVE OrderInv'
  BY <1>7, BeginOrder
<1>8. ASSUME NEW w \in Workers, QuietStep(w) \/ Defer(w) \/ CompleteWrite(w) \/ FailWrite(w)
      PROVE  OrderInv'
  <2>1. \A v \in Workers \ {w} : Stays(v)
    BY <1>8, OthersStay DEF QuietStep, Step
  <2>2. QED
    BY <1>8, <2>1, QuietMoves, SettleMoves, WorkerOrder
<1>9. QED
  BY <1>1, <1>2, <1>3, <1>4, <1>5, <1>6, <1>7, <1>8 DEF Next, Request, Step, QuietStep

\* Memory ids are never stored again, and workers do not overtake each other: the invariants hold.
LEMMA LifeInvariance == ~MayRecreate => (Spec => []LifeInv)
<1> SUFFICES ASSUME ~MayRecreate PROVE Spec => []LifeInv
  OBVIOUS
<1>1. TInv /\ IInv /\ LifeInv /\ [Next]_vars => LifeInv'
  BY StepLife
<1>2. QED
  BY <1>1, InitLife, TypeInvariance, Invariance, PTL DEF Spec

LEMMA OrderInvariance == ~MayRecreate => (Spec /\ []Turns => []OrderInv)
<1> SUFFICES ASSUME ~MayRecreate PROVE Spec /\ []Turns => []OrderInv
  OBVIOUS
<1>1. Turns /\ TInv /\ IInv /\ LifeInv /\ OrderInv /\ [Next]_vars => OrderInv'
  BY StepOrder
<1>2. Spec => []LifeInv
  BY LifeInvariance
<1>3. QED
  BY <1>1, <1>2, InitOrder, TypeInvariance, Invariance, PTL DEF Spec

\* While workers do not overtake each other, what a memory shows is the last thing that
\* happened to it: no event of a later version is completed (_complete_upsert, _fail_claim,
\* replay_dead_letter).
THEOREM SyncedStateIsTrue == ~MayRecreate => (Spec /\ []Turns => []SyncedIsSettled)
<1> SUFFICES ASSUME ~MayRecreate PROVE Spec /\ []Turns => []SyncedIsSettled
  OBVIOUS
<1>1. SyncedIsItsKey /\ OrderInv => SyncedIsSettled
  BY DEF SyncedIsItsKey, OrderInv, HighWater, SyncedIsSettled, EventsOf
<1>2. Spec /\ []Turns => []OrderInv
  BY OrderInvariance
<1>3. QED
  BY <1>1, <1>2, SyncedNamesSettled, PTL

-----------------------------------------------------------------------------
(* The sessions of workers that do not handle one event at a time.          *)

\* No event is handled by two workers: leases outlast the calls they cover.
OneHandler == \A v, w \in Workers : v # w /\ Handles(v) /\ Handles(w) => ev[v] # ev[w]

LEMMA TurnsHandle == TInv /\ IInv /\ Turns => OneHandler
  BY HandledApart DEF OneHandler

Recorded == {"latest", "append", "commit", "syncing"}
Talking == SessionStages \cup {"checkpoint", "session_key", "await"}

\* Every session but the last has its row.
RowsFollow ==
    \A e \in Key : /\ Len(rows[e]) <= Len(store[e]) /\ Len(store[e]) <= Len(rows[e]) + 1
                   /\ Len(store[e]) > 0 => Known(e)

\* Where the worker is with its session.
AtSession ==
    \A w \in Workers :
        /\ pc[w] \in Talking => ~ev[w].del
        /\ pc[w] \in SessionStages => ctx[w].idx <= Len(rows[ev[w]])
        /\ pc[w] \in SessionStages \ {"open"} => ctx[w].idx < Len(store[ev[w]])
        /\ pc[w] \in Recorded => ctx[w].idx < Len(rows[ev[w]])

\* The session in hand, and its messages.
Messages(w) == store[ev[w]][ctx[w].idx + 1].msgs

\* A session seen without messages has none until the message is sent.
SentOnce ==
    \A w \in Workers : pc[w] \in {"record", "latest", "append"} /\ ~ctx[w].used => Messages(w) = 0

SendInv == RowsFollow /\ AtSession /\ SentOnce /\ AppendedOnce

\* Messages are in sessions that have a row, which a deletion will list.
Covered ==
    \A e \in Key : \A i \in DOMAIN store[e] :
        store[e][i].msgs > 0 => i \in DOMAIN rows[e] /\ rows[e][i] # "deleted"

\* The row of the session in hand is not deleted.
RowsLive == \A w \in Workers : pc[w] \in Recorded => rows[ev[w]][ctx[w].idx + 1] # "deleted"

\* What is left to delete.
EmptyMemory(m) == \A e \in EventsOf(m) : \A i \in DOMAIN store[e] : ~(store[e][i].msgs > 0)
ListedIsAll ==
    \A w \in Workers :
        /\ pc[w] \in {"list", "delete"} => ev[w].del
        /\ pc[w] = "delete" =>
              \A e \in EventsOf(ev[w].mem) : \A i \in DOMAIN store[e] :
                    store[e][i].msgs > 0 => Session(e, i - 1) \in ctx[w].todo
        /\ pc[w] \in {"complete", "completing"} /\ ev[w].del => EmptyMemory(ev[w].mem)

DeletedIsEmpty == \A d \in Key : d.del /\ status[d] = "completed" => EmptyMemory(d.mem)

ClearInv == Covered /\ RowsLive /\ ListedIsAll /\ DeletedIsEmpty

\* What most steps leave of the sessions: no session more, and in none more messages; every
\* row, and none deleted.
Shrinks ==
    \A e \in Key : /\ Len(store'[e]) = Len(store[e])
                   /\ \A i \in 1..Len(store[e]) : store'[e][i].msgs <= store[e][i].msgs
RowsKept ==
    \A e \in Key : /\ Len(rows'[e]) = Len(rows[e])
                   /\ \A i \in 1..Len(rows[e]) : rows[e][i] # "deleted" => rows'[e][i] # "deleted"

LEMMA SequenceTypes ==
    ASSUME TInv
    PROVE  \A e \in Key :
              /\ Len(store[e]) \in Nat /\ DOMAIN store[e] = 1..Len(store[e])
              /\ Len(rows[e]) \in Nat /\ DOMAIN rows[e] = 1..Len(rows[e])
              /\ \A i \in 1..Len(store[e]) : store[e][i] \in ProviderSession
BY DEF TInv, TypeOK

LEMMA SessionFields ==
    \A x \in ProviderSession :
        /\ x.msgs \in Nat /\ x.commits \in Nat /\ x.exists \in BOOLEAN
        /\ x.task \in {"none", "pending", "done", "failed"}
BY DEF ProviderSession

\* Writing one session of an event.
LEMMA WriteAt ==
    ASSUME TInv, NEW e \in Key, NEW i \in Nat \ {0}, NEW x,
           store' = [store EXCEPT ![e] = [store[e] EXCEPT ![i] = x]]
    PROVE  /\ \A f \in Key : Len(store'[f]) = Len(store[f])
           /\ i <= Len(store[e]) => store'[e][i] = x
           /\ \A f \in Key : \A j \in 1..Len(store[f]) : f # e \/ j # i => store'[f][j] = store[f][j]
<1>1. PICK s \in Seq(ProviderSession) : s = store[e]
  BY DEF TInv, TypeOK
<1>2. Len([s EXCEPT ![i] = x]) = Len(s) /\ Len(s) \in Nat
  BY <1>1
<1>3. /\ i <= Len(s) => [s EXCEPT ![i] = x][i] = x
      /\ \A j \in 1..Len(s) : j # i => [s EXCEPT ![i] = x][j] = s[j]
  BY <1>1, <1>2
<1>4. store'[e] = [s EXCEPT ![i] = x] /\ \A f \in Key : f # e => store'[f] = store[f]
  BY <1>1 DEF TInv, TypeOK
<1>5. QED
  BY <1>1, <1>2, <1>3, <1>4

LEMMA WriteElsewhere ==
    ASSUME TInv, NEW e \in Key, NEW y, UNCHANGED store \/ store' = [store EXCEPT ![e] = y]
    PROVE  \A f \in Key : f # e => store'[f] = store[f]
BY DEF TInv, TypeOK

LEMMA WriteShrinks ==
    ASSUME TInv, NEW e \in Key, NEW i \in Nat \ {0}, NEW x,
           store' = [store EXCEPT ![e] = [store[e] EXCEPT ![i] = x]],
           i <= Len(store[e]) => x.msgs <= store[e][i].msgs
    PROVE  Shrinks
<1>1. \A f \in Key : \A j \in 1..Len(store[f]) : store[f][j].msgs \in Nat
  BY SequenceTypes, SessionFields
<1>2. QED
  BY <1>1, WriteAt DEF Shrinks

\* What the calls to the store make of a session.
LEMMA SessionCalls ==
    ASSUME NEW x \in ProviderSession
    PROVE  /\ LET y == [x EXCEPT !.commits = @ + 1, !.task = "pending"]
              IN  y.msgs = x.msgs /\ y.exists = x.exists /\ y.commits = x.commits + 1 /\ y.task = "pending"
           /\ LET y == [x EXCEPT !.exists = FALSE, !.msgs = 0, !.commits = 0]
              IN  y.msgs = 0
           /\ LET y == [x EXCEPT !.msgs = @ + 1]
              IN  y.msgs = x.msgs + 1 /\ y.exists = x.exists /\ y.commits = x.commits /\ y.task = x.task
           /\ LET y == [x EXCEPT !.exists = TRUE]
              IN  y.msgs = x.msgs /\ y.exists = TRUE /\ y.commits = x.commits /\ y.task = x.task
           /\ \A end : LET y == [x EXCEPT !.task = end]
                       IN  y.msgs = x.msgs /\ y.exists = x.exists /\ y.commits = x.commits /\ y.task = end
<1>1. x = [exists |-> x.exists, msgs |-> x.msgs, commits |-> x.commits, task |-> x.task]
  BY DEF ProviderSession
<1>2. QED
  BY <1>1

LEMMA CallsShrink ==
    ASSUME TInv, NEW w \in Workers, CommitSession(w) \/ DeleteSession(w)
    PROVE  Shrinks
<1>1. ASSUME UNCHANGED store PROVE Shrinks
  BY <1>1, SequenceTypes, SessionFields DEF Shrinks
<1>2. CASE CommitSession(w)
  <2> DEFINE i == ctx[w].idx + 1
             x == [store[ev[w]][i] EXCEPT !.commits = @ + 1, !.task = "pending"]
  <2>1. UNCHANGED store \/ store' = [store EXCEPT ![ev[w]] = [store[ev[w]] EXCEPT ![i] = x]]
    BY <1>2 DEF CommitSession
  <2>2. PICK e \in Key : e = ev[w]
    BY <1>2 DEF CommitSession, TInv, Working
  <2>3. i \in Nat \ {0}
    BY <1>2 DEF CommitSession, TInv, Working, SessionStages
  <2>4. ASSUME i <= Len(store[e]) PROVE x.msgs <= store[e][i].msgs
    <3>1. store[e][i] \in ProviderSession
      BY <2>3, <2>4, SequenceTypes
    <3>2. x.msgs = store[e][i].msgs /\ x.msgs \in Nat
      BY <2>2, <3>1, SessionCalls, SessionFields
    <3>3. QED
      BY <3>2
  <2> HIDE DEF x, i
  <2>5. QED
    BY <1>1, <2>1, <2>2, <2>3, <2>4, WriteShrinks
<1>3. CASE DeleteSession(w)
  <2>1. CASE UNCHANGED store
    BY <1>1, <2>1
  <2>2. ASSUME NEW s \in ctx[w].todo,
               store' = [store EXCEPT ![s.key][s.idx + 1] =
                           [@ EXCEPT !.exists = FALSE, !.msgs = 0, !.commits = 0]]
        PROVE  Shrinks
    <3>1. PICK e \in Key, i \in Nat \ {0} : e = s.key /\ i = s.idx + 1
      <4>1. s \in SessionId
        BY ContextTypes DEF Context
      <4>2. s.key \in Key /\ s.idx \in Nat
        BY <4>1 DEF SessionId
      <4>3. QED
        BY <4>2
    <3> DEFINE x == [store[e][i] EXCEPT !.exists = FALSE, !.msgs = 0, !.commits = 0]
    <3>2. store' = [store EXCEPT ![e] = [store[e] EXCEPT ![i] = x]]
      BY <2>2, <3>1
    <3>3. ASSUME i <= Len(store[e]) PROVE x.msgs <= store[e][i].msgs
      <4>1. store[e][i] \in ProviderSession
        BY <3>3, SequenceTypes
      <4>2. x.msgs = 0 /\ store[e][i].msgs \in Nat
        BY <4>1, SessionCalls, SessionFields
      <4>3. QED
        BY <4>2
    <3> HIDE DEF x
    <3>4. QED
      BY <3>2, <3>3, WriteShrinks
  <2>3. QED
    BY <1>3, <2>1, <2>2 DEF DeleteSession
<1>4. QED
  BY <1>2, <1>3

LEMMA TaskShrinks ==
    ASSUME TInv, NEW e \in Key, TaskEnds(e)
    PROVE  Shrinks
<1>1. PICK i \in DOMAIN store[e], end \in {"done", "failed"} :
          store' = [store EXCEPT ![e] = [store[e] EXCEPT ![i] = [store[e][i] EXCEPT !.task = end]]]
  BY DEF TaskEnds, TaskFinishes
<1>2. i \in 1..Len(store[e]) /\ store[e][i] \in ProviderSession
  BY SequenceTypes
<1> DEFINE x == [store[e][i] EXCEPT !.task = end]
<1>3. x.msgs = store[e][i].msgs /\ x.msgs \in Nat
  BY <1>2, SessionCalls, SessionFields
<1>4. i \in Nat \ {0} /\ x.msgs <= store[e][i].msgs
  BY <1>2, <1>3
<1>5. store' = [store EXCEPT ![e] = [store[e] EXCEPT ![i] = x]]
  BY <1>1
<1> HIDE DEF x
<1>6. QED
  BY <1>4, <1>5, WriteShrinks

\* Requests, and the worker's steps but opening a session and sending its message.
LEMMA ShrinkSteps ==
    ASSUME TInv,
           \/ Request \/ (\E e \in Key : TaskEnds(e)) \/ UNCHANGED vars
           \/ \E w \in Workers : \/ ClaimAny(w) \/ Crash(w)
                                 \/ Step(w) /\ ~OpenSession(w) /\ ~AppendMessage(w)
    PROVE  Shrinks
<1>1. ASSUME UNCHANGED store PROVE Shrinks
  BY <1>1, SequenceTypes, SessionFields DEF Shrinks
<1>2. CASE Request \/ UNCHANGED vars
  BY <1>1, <1>2 DEF Request, Persist, DeleteRead, DeleteWrite, Replay, vars
<1>3. CASE \E e \in Key : TaskEnds(e)
  BY <1>3, TaskShrinks
<1>4. ASSUME NEW w \in Workers, CommitSession(w) \/ DeleteSession(w) PROVE Shrinks
  BY <1>4, CallsShrink
<1>5. ASSUME NEW w \in Workers,
             \/ ClaimAny(w) \/ Crash(w)
             \/ /\ Step(w) /\ ~OpenSession(w) /\ ~AppendMessage(w)
                /\ ~CommitSession(w) /\ ~DeleteSession(w)
      PROVE  Shrinks
  BY <1>1, <1>5 DEF ClaimAny, Claim, Crash, Step, BatchDone, Begin, Defer, Checkpoint, SessionKey,
     RecordSession, LatestTask, RecordSyncing, AwaitTask, ListSessions, CompleteRead,
     CompleteWrite, FailRead, FailWrite
<1>6. QED
  BY <1>2, <1>3, <1>4, <1>5

\* A replay marks a row failed; recording a session and deleting them are the other steps that
\* write rows.
LEMMA ReplayKeeps ==
    ASSUME TInv, NEW e \in Key, Replay(e)
    PROVE  RowsKept
<1>1. CASE UNCHANGED rows
  BY <1>1, SequenceTypes DEF RowsKept
<1>2. CASE rows' # rows
  <2> DEFINE s == sync[e.mem].sess
  <2>1. s # None /\ rows' = [rows EXCEPT ![s.key][s.idx + 1] = "failed"]
    BY <1>2 DEF Replay
  <2>2. s \in SessionId
    BY <2>1, KeyFields DEF TInv, TypeOK, SyncState
  <2>3. PICK f \in Key, i \in Nat : f = s.key /\ i = s.idx + 1
    BY <2>2 DEF SessionId
  <2>4. rows' = [rows EXCEPT ![f] = [rows[f] EXCEPT ![i] = "failed"]]
    BY <2>1, <2>3
  <2>5. PICK r \in Seq(RowStatuses) : r = rows[f]
    BY DEF TInv, TypeOK
  <2>6. /\ Len([r EXCEPT ![i] = "failed"]) = Len(r)
        /\ \A j \in 1..Len(r) : [r EXCEPT ![i] = "failed"][j] \in {r[j], "failed"}
    BY <2>5
  <2>7. rows'[f] = [r EXCEPT ![i] = "failed"] /\ \A k \in Key : k # f => rows'[k] = rows[k]
    BY <2>4, <2>5 DEF TInv, TypeOK
  <2>8. QED
    BY <2>5, <2>6, <2>7 DEF RowsKept
<1>3. QED
  BY <1>1, <1>2

LEMMA KeepSteps ==
    ASSUME TInv,
           \/ Request \/ (\E e \in Key : TaskEnds(e)) \/ UNCHANGED vars
           \/ \E w \in Workers : \/ ClaimAny(w) \/ Crash(w)
                                 \/ Step(w) /\ ~RecordSession(w) /\ ~CompleteWrite(w)
    PROVE  RowsKept
<1>1. ASSUME UNCHANGED rows PROVE RowsKept
  BY <1>1 DEF RowsKept
<1>2. ASSUME NEW e \in Key, Replay(e) PROVE RowsKept
  BY <1>2, ReplayKeeps
<1>3. ASSUME NEW m \in Memories, Persist(m) \/ DeleteRead(m) \/ DeleteWrite(m) PROVE RowsKept
  BY <1>1, <1>3 DEF Persist, DeleteRead, DeleteWrite
<1>4. CASE (\E e \in Key : TaskEnds(e)) \/ UNCHANGED vars
  BY <1>1, <1>4 DEF TaskEnds, TaskFinishes, vars
<1>5. ASSUME NEW w \in Workers,
             \/ ClaimAny(w) \/ Crash(w)
             \/ Step(w) /\ ~RecordSession(w) /\ ~CompleteWrite(w)
      PROVE  RowsKept
  BY <1>1, <1>5 DEF ClaimAny, Claim, Crash, Step, BatchDone, Begin, Defer, Checkpoint, SessionKey,
     OpenSession, LatestTask, AppendMessage, CommitSession, RecordSyncing, AwaitTask,
     ListSessions, DeleteSession, CompleteRead, FailRead, FailWrite
<1>6. QED
  BY <1>2, <1>3, <1>4, <1>5 DEF Request

\* Where a step may leave a worker, for what it knows of its session.
SendStage(w) ==
    \/ pc'[w] = pc[w] /\ ev'[w] = ev[w] /\ ctx'[w] = ctx[w]
    \/ pc'[w] \notin Talking
    \/ pc'[w] \in {"checkpoint", "session_key"} /\ ~ev'[w].del
    \/ pc'[w] = "open" /\ ~ev'[w].del /\ ctx'[w].idx <= Len(rows[ev'[w]])
    \/ /\ pc[w] \in Recorded /\ pc'[w] \in {"append", "syncing", "await"}
       /\ pc'[w] = "append" => pc[w] = "latest"
       /\ ev'[w] = ev[w] /\ ctx'[w].idx = ctx[w].idx /\ ctx'[w].used = ctx[w].used

LEMMA SendMoves ==
    ASSUME TInv, TInv', SendInv, Shrinks, \A e \in Key : Known(e) => Known(e)',
           \A e \in Key : Len(rows'[e]) = Len(rows[e]),
           \A v \in Workers : SendStage(v)
    PROVE  SendInv'
<1>1. \A e \in Key : /\ Len(store[e]) \in Nat /\ DOMAIN store[e] = 1..Len(store[e])
                     /\ Len(rows[e]) \in Nat
                     /\ \A i \in 1..Len(store[e]) : store[e][i].msgs \in Nat
  BY SequenceTypes, SessionFields
<1>2. \A e \in Key : /\ DOMAIN store'[e] = 1..Len(store[e]) /\ Len(store'[e]) = Len(store[e])
                     /\ \A i \in 1..Len(store[e]) : /\ store'[e][i].msgs <= store[e][i].msgs
                                                    /\ store'[e][i].msgs \in Nat
  <2>1. \A e \in Key : /\ DOMAIN store'[e] = 1..Len(store'[e])
                       /\ \A i \in 1..Len(store'[e]) : store'[e][i] \in ProviderSession
    BY DEF TInv, TypeOK
  <2>2. QED
    BY <2>1, SessionFields DEF Shrinks
<1>3. RowsFollow'
  BY <1>2 DEF SendInv, RowsFollow
<1>4. AppendedOnce'
  <2>1. \A e \in Key : \A i \in 1..Len(store[e]) : store[e][i].msgs <= 1
    BY <1>1 DEF SendInv, AppendedOnce
  <2>2. \A e \in Key : \A i \in 1..Len(store[e]) : store'[e][i].msgs <= 1
    BY <1>1, <1>2, <2>1
  <2>3. QED
    BY <1>2, <2>2 DEF AppendedOnce
<1>5. ASSUME NEW v \in Workers, pc'[v] \in Talking
      PROVE  ev'[v] \in Key /\ (pc'[v] \in SessionStages => ctx'[v].idx \in Nat)
  <2>1. pc'[v] \notin {"idle", "next"}
    BY <1>5 DEF Talking, SessionStages
  <2>2. QED
    BY <2>1 DEF TInv, Working
<1>6. AtSession'
  <2> SUFFICES ASSUME NEW v \in Workers, pc'[v] \in Talking
               PROVE  /\ ~ev'[v].del
                      /\ pc'[v] \in SessionStages => ctx'[v].idx <= Len(rows'[ev'[v]])
                      /\ pc'[v] \in SessionStages \ {"open"} => ctx'[v].idx < Len(store'[ev'[v]])
                      /\ pc'[v] \in Recorded => ctx'[v].idx < Len(rows'[ev'[v]])
    BY DEF AtSession, Talking, Recorded, SessionStages
  <2>1. PICK e \in Key : e = ev'[v]
    BY <1>5
  <2>2. SendStage(v)
    OBVIOUS
  <2>3. CASE pc'[v] \in {"checkpoint", "session_key"} /\ ~ev'[v].del
    BY <2>3 DEF SessionStages, Recorded
  <2>4. CASE pc'[v] = "open" /\ ~ev'[v].del /\ ctx'[v].idx <= Len(rows[ev'[v]])
    BY <2>1, <2>4 DEF SessionStages, Recorded
  <2>5. ASSUME pc[v] \in Talking, ev'[v] = ev[v], ctx'[v].idx = ctx[v].idx,
               pc'[v] \in SessionStages => pc[v] \in SessionStages,
               pc'[v] \in SessionStages \ {"open"} => pc[v] \in SessionStages \ {"open"},
               pc'[v] \in Recorded => pc[v] \in Recorded
        PROVE  /\ ~ev'[v].del
               /\ pc'[v] \in SessionStages => ctx'[v].idx <= Len(rows'[ev'[v]])
               /\ pc'[v] \in SessionStages \ {"open"} => ctx'[v].idx < Len(store'[ev'[v]])
               /\ pc'[v] \in Recorded => ctx'[v].idx < Len(rows'[ev'[v]])
    <3>1. /\ ~e.del
          /\ pc[v] \in SessionStages => ctx[v].idx <= Len(rows[e])
          /\ pc[v] \in SessionStages \ {"open"} => ctx[v].idx < Len(store[e])
          /\ pc[v] \in Recorded => ctx[v].idx < Len(rows[e])
      BY <2>1, <2>5 DEF SendInv, AtSession
    <3>2. QED
      BY <2>1, <2>5, <3>1, <1>2
  <2>6. QED
    BY <2>2, <2>3, <2>4, <2>5 DEF SendStage, Talking, Recorded, SessionStages
<1>7. SentOnce'
  <2> SUFFICES ASSUME NEW v \in Workers, pc'[v] \in {"record", "latest", "append"}, ~ctx'[v].used
               PROVE  store'[ev'[v]][ctx'[v].idx + 1].msgs = 0
    BY DEF SentOnce, Messages
  <2>1. /\ ev'[v] = ev[v] /\ ctx'[v].idx = ctx[v].idx /\ ctx'[v].used = ctx[v].used
        /\ pc[v] \in {"record", "latest", "append"}
    BY DEF SendStage, Talking, SessionStages, Recorded
  <2>2. PICK e \in Key, i \in Nat : e = ev[v] /\ i = ctx[v].idx + 1 /\ i \in 1..Len(store[e])
    <3>1. ev[v] \in Key /\ ctx[v].idx \in Nat
      BY <2>1 DEF TInv, Working, SessionStages
    <3>2. ctx[v].idx < Len(store[ev[v]])
      BY <2>1 DEF SendInv, AtSession, SessionStages
    <3>3. ctx[v].idx + 1 \in 1..Len(store[ev[v]])
      BY <3>1, <3>2, <1>1
    <3>4. QED
      BY <3>1, <3>3
  <2>3. store[e][i].msgs = 0
    BY <2>1, <2>2 DEF SendInv, SentOnce, Messages
  <2>4. store'[e][i].msgs = 0
    BY <2>2, <2>3, <1>1, <1>2
  <2>5. QED
    BY <2>1, <2>2, <2>4
<1>8. QED
  BY <1>3, <1>4, <1>6, <1>7 DEF SendInv


\* Opening a session: a new one is empty, and one that was deleted exists again.
LEMMA OpenedAt ==
    ASSUME TInv, NEW e \in Key, NEW i \in Nat, i <= Len(store[e]), store' = Opened(e, i)
    PROVE  /\ \A f \in Key : f # e => store'[f] = store[f]
           /\ Len(store'[e]) = IF i = Len(store[e]) THEN i + 1 ELSE Len(store[e])
           /\ \A j \in 1..Len(store[e]) : /\ store'[e][j].msgs = store[e][j].msgs
                                          /\ store'[e][j].commits = store[e][j].commits
                                          /\ store'[e][j].task = store[e][j].task
                                          /\ store[e][j].exists => store'[e][j].exists
           /\ i = Len(store[e]) => store'[e][i + 1] = NewSession
           /\ store'[e][i + 1].exists
<1>1. PICK s \in Seq(ProviderSession) : s = store[e]
  BY DEF TInv, TypeOK
<1>2. store \in [Key -> Seq(ProviderSession)] /\ Len(s) \in Nat
  BY <1>1 DEF TInv, TypeOK
<1>3. CASE i = Len(s)
  <2>1. store' = [store EXCEPT ![e] = Append(s, NewSession)]
    BY <1>1, <1>3 DEF Opened
  <2>2. store'[e] = Append(s, NewSession) /\ \A f \in Key : f # e => store'[f] = store[f]
    BY <2>1, <1>2
  <2>3. /\ Len(Append(s, NewSession)) = Len(s) + 1
        /\ Append(s, NewSession)[Len(s) + 1] = NewSession
        /\ \A j \in 1..Len(s) : Append(s, NewSession)[j] = s[j]
    BY <1>1
  <2>4. NewSession.exists
    BY DEF NewSession
  <2>5. QED
    BY <1>1, <1>3, <2>2, <2>3, <2>4
<1>4. CASE i # Len(s) /\ s[i + 1].exists
  BY <1>1, <1>4 DEF Opened
<1>5. CASE i # Len(s) /\ ~s[i + 1].exists
  <2> DEFINE x == [s[i + 1] EXCEPT !.exists = TRUE]
  <2>1. store' = [store EXCEPT ![e] = [s EXCEPT ![i + 1] = x]]
    BY <1>1, <1>5 DEF Opened
  <2>2. i + 1 \in 1..Len(s)
    BY <1>1, <1>2, <1>5
  <2>3. s[i + 1] \in ProviderSession
    BY <1>1, <2>2
  <2>4. /\ x.msgs = s[i + 1].msgs /\ x.commits = s[i + 1].commits /\ x.task = s[i + 1].task
        /\ x.exists
    BY <2>3, SessionCalls
  <2> HIDE DEF x
  <2>5. /\ Len([s EXCEPT ![i + 1] = x]) = Len(s) /\ [s EXCEPT ![i + 1] = x][i + 1] = x
        /\ \A j \in 1..Len(s) : j # i + 1 => [s EXCEPT ![i + 1] = x][j] = s[j]
    BY <1>1, <2>2
  <2>6. store'[e] = [s EXCEPT ![i + 1] = x] /\ \A f \in Key : f # e => store'[f] = store[f]
    BY <2>1, <1>2
  <2>7. QED
    BY <1>1, <1>5, <2>4, <2>5, <2>6
<1>6. QED
  BY <1>1, <1>3, <1>4, <1>5

\* What another worker knows of its session stays true while this one writes its own event's.
LEMMA OthersSessions ==
    ASSUME TInv, OneHandler, SendInv, NEW w \in Workers, Handles(w), NEW v \in Workers \ {w}, Stays(v),
           \A f \in Key : f # ev[w] => store'[f] = store[f] /\ rows'[f] = rows[f]
    PROVE  /\ pc'[v] \in Talking => ~ev'[v].del
           /\ pc'[v] \in SessionStages => ctx'[v].idx <= Len(rows'[ev'[v]])
           /\ pc'[v] \in SessionStages \ {"open"} => ctx'[v].idx < Len(store'[ev'[v]])
           /\ pc'[v] \in Recorded => ctx'[v].idx < Len(rows'[ev'[v]])
           /\ pc'[v] \in {"record", "latest", "append"} /\ ~ctx'[v].used =>
                 store'[ev'[v]][ctx'[v].idx + 1].msgs = 0
<1>1. /\ pc[v] \in Talking => ev[v] \in Key /\ ev[v] # ev[w]
      /\ SessionStages \subseteq Talking /\ Recorded \subseteq Talking
      /\ {"record", "latest", "append"} \subseteq Talking
  BY DEF OneHandler, Handles, Talking, Recorded, SessionStages, Busy, Stages, TInv, Working
<1>2. /\ pc[v] \in Talking => ~ev[v].del
      /\ pc[v] \in SessionStages => ctx[v].idx <= Len(rows[ev[v]])
      /\ pc[v] \in SessionStages \ {"open"} => ctx[v].idx < Len(store[ev[v]])
      /\ pc[v] \in Recorded => ctx[v].idx < Len(rows[ev[v]])
      /\ pc[v] \in {"record", "latest", "append"} /\ ~ctx[v].used =>
            store[ev[v]][ctx[v].idx + 1].msgs = 0
  BY DEF SendInv, AtSession, SentOnce, Messages
<1>3. QED
  BY <1>1, <1>2 DEF Stays

\* What opening a session leaves of the invariant's counts.
LEMMA OpenSend ==
    ASSUME OneHandler, TInv, IInv, TInv', SendInv, NEW w \in Workers, OpenSession(w)
    PROVE  SendInv'
<1>1. PICK e \in Key, i \in Nat : e = ev[w] /\ i = ctx[w].idx
  BY DEF OpenSession, TInv, Working, SessionStages
<1>2. Handles(w) /\ \A v \in Workers \ {w} : Stays(v)
  BY OthersStay DEF Step, OpenSession, Handles, Busy, Stages
<1>3. /\ Len(store[e]) \in Nat /\ Len(rows[e]) \in Nat /\ Len(rows[e]) <= Len(store[e])
      /\ Len(store[e]) <= Len(rows[e]) + 1 /\ i <= Len(rows[e]) /\ ~e.del /\ pc[w] = "open"
  BY <1>1, SequenceTypes DEF OpenSession, SendInv, RowsFollow, AtSession, Talking, SessionStages
<1>4. i <= Len(store[e])
  BY <1>3
<1>5. UNCHANGED <<rows, status>> /\ ev' = ev
  BY DEF OpenSession, InProcess, outboxVars
<1>6. CASE UNCHANGED store /\ pc'[w] = "fail"
  <2>1. Shrinks
    BY <1>6, SequenceTypes, SessionFields DEF Shrinks
  <2>2. \A v \in Workers : SendStage(v)
    BY <1>2, <1>6 DEF Stays, SendStage, Talking, SessionStages
  <2>3. QED
    BY <1>5, <2>1, <2>2, SendMoves DEF Known
<1>7. CASE store' = Opened(e, i) /\ pc'[w] \in {"record", "fail"}
  <2> DEFINE s == Opened(e, i)[e][i + 1]
  <2>1. /\ \A f \in Key : f # e => store'[f] = store[f]
        /\ Len(store'[e]) = IF i = Len(store[e]) THEN i + 1 ELSE Len(store[e])
        /\ \A j \in 1..Len(store[e]) : store'[e][j].msgs = store[e][j].msgs
        /\ i = Len(store[e]) => store'[e][i + 1] = NewSession
    BY <1>4, <1>7, OpenedAt
  <2>2. NewSession.msgs = 0
    BY DEF NewSession
  <2>3. i < Len(store'[e]) /\ Len(rows[e]) <= Len(store'[e]) /\ Len(store'[e]) <= Len(rows[e]) + 1
    BY <1>3, <1>4, <2>1
  <2>4. RowsFollow'
    <3>1. Known(e)
      BY <1>1, <1>3 DEF IInv, ClaimsExist, Busy, Stages, Known
    <3>2. QED
      BY <1>5, <2>1, <2>3, <3>1 DEF SendInv, RowsFollow, Known
  <2>5. ASSUME NEW v \in Workers \ {w}
        PROVE  /\ pc'[v] \in Talking => ~ev'[v].del
               /\ pc'[v] \in SessionStages => ctx'[v].idx <= Len(rows'[ev'[v]])
               /\ pc'[v] \in SessionStages \ {"open"} => ctx'[v].idx < Len(store'[ev'[v]])
               /\ pc'[v] \in Recorded => ctx'[v].idx < Len(rows'[ev'[v]])
               /\ pc'[v] \in {"record", "latest", "append"} /\ ~ctx'[v].used =>
                     store'[ev'[v]][ctx'[v].idx + 1].msgs = 0
    <3>1. \A f \in Key : f # ev[w] => store'[f] = store[f] /\ rows'[f] = rows[f]
      BY <1>1, <1>5, <2>1
    <3>2. QED
      BY <1>2, <3>1, OthersSessions
  <2>6. AtSession'
    <3> SUFFICES /\ pc'[w] \in Talking => ~ev'[w].del
                 /\ pc'[w] \in SessionStages => ctx'[w].idx <= Len(rows'[ev'[w]])
                 /\ pc'[w] \in SessionStages \ {"open"} => ctx'[w].idx < Len(store'[ev'[w]])
                 /\ pc'[w] \notin Recorded
      BY <2>5 DEF AtSession
    <3>1. ctx'[w].idx = i
      BY <1>1 DEF OpenSession, TInv, TypeOK, Context, CallFails
    <3>2. QED
      BY <1>1, <1>3, <1>5, <1>7, <2>3, <3>1 DEF Talking, SessionStages, Recorded
  <2>7. AppendedOnce'
    <3>1. \A f \in Key : \A j \in DOMAIN store[f] : store[f][j].msgs <= 1
      BY DEF SendInv, AppendedOnce
    <3>2. \A f \in Key : DOMAIN store[f] = 1..Len(store[f]) /\ DOMAIN store'[f] = 1..Len(store'[f])
      BY SequenceTypes DEF TInv, TypeOK
    <3>3. ASSUME NEW j \in 1..Len(store'[e]) PROVE store'[e][j].msgs <= 1
      <4>1. j \in 1..Len(store[e]) \/ (i = Len(store[e]) /\ j = i + 1)
        BY <1>3, <2>1
      <4>2. CASE j \in 1..Len(store[e])
        BY <2>1, <3>1, <3>2, <4>2
      <4>3. CASE i = Len(store[e]) /\ j = i + 1
        <5>1. store'[e][j].msgs = 0
          BY <2>1, <2>2, <4>3
        <5>2. QED
          BY <5>1
      <4>4. QED
        BY <4>1, <4>2, <4>3
    <3>4. QED
      BY <2>1, <3>1, <3>2, <3>3 DEF AppendedOnce
  <2>8. SentOnce'
    <3> SUFFICES ASSUME pc'[w] = "record", ~ctx'[w].used
                 PROVE  store'[ev'[w]][ctx'[w].idx + 1].msgs = 0
      BY <1>7, <2>5 DEF SentOnce, Messages
    <3>1. /\ ctx' = [ctx EXCEPT ![w].used = s.msgs > 0 \/ s.commits > 0,
                                ![w].committed = s.commits > 0]
          /\ store'[e][i + 1] = s
      BY <1>1, <1>7 DEF OpenSession, CallFails, Goto, TInv, TypeOK
    <3>2. ctx'[w].idx = i /\ (ctx'[w].used <=> s.msgs > 0 \/ s.commits > 0)
      BY <1>1, <3>1 DEF TInv, TypeOK, Context
    <3>3. s \in ProviderSession
      <4>1. i + 1 \in 1..Len(store'[e]) /\ store'[e] \in Seq(ProviderSession)
        BY <1>3, <2>1, <2>3 DEF TInv, TypeOK
      <4>2. QED
        BY <3>1, <4>1
    <3>4. s.msgs = 0
      BY <3>2, <3>3, SessionFields
    <3>5. QED
      BY <1>1, <1>5, <3>1, <3>2, <3>4
  <2>9. QED
    BY <2>4, <2>6, <2>7, <2>8 DEF SendInv
<1>8. QED
  <2>1. pc'[w] \in {"record", "fail"} /\ (pc'[w] = "record" => store' = Opened(e, i))
    BY <1>1 DEF OpenSession, CallFails, Goto, TInv, TypeOK
  <2>2. store' \in {store, Opened(e, i)}
    BY <1>1 DEF OpenSession
  <2>3. QED
    BY <2>1, <2>2, <1>6, <1>7

\* Recording a session: a new row, or its row is active again.
LEMMA RecordedAt ==
    ASSUME TInv, NEW e \in Key, NEW i \in Nat, i <= Len(rows[e]),
           rows' = IF i = Len(rows[e]) THEN [rows EXCEPT ![e] = Append(@, "active")]
                   ELSE [rows EXCEPT ![e][i + 1] = "active"]
    PROVE  /\ \A f \in Key : f # e => rows'[f] = rows[f]
           /\ Len(rows'[e]) = IF i = Len(rows[e]) THEN i + 1 ELSE Len(rows[e])
           /\ \A j \in 1..Len(rows[e]) : rows[e][j] # "deleted" => rows'[e][j] # "deleted"
           /\ rows'[e][i + 1] = "active"
<1>1. PICK r \in Seq(RowStatuses) : r = rows[e]
  BY DEF TInv, TypeOK
<1>2. rows \in [Key -> Seq(RowStatuses)] /\ Len(r) \in Nat
  BY <1>1 DEF TInv, TypeOK
<1>3. CASE i = Len(r)
  <2>1. rows'[e] = Append(r, "active") /\ \A f \in Key : f # e => rows'[f] = rows[f]
    BY <1>1, <1>2, <1>3
  <2>2. /\ Len(Append(r, "active")) = Len(r) + 1
        /\ Append(r, "active")[Len(r) + 1] = "active"
        /\ \A j \in 1..Len(r) : Append(r, "active")[j] = r[j]
    BY <1>1
  <2>3. QED
    BY <1>1, <1>3, <2>1, <2>2
<1>4. CASE i # Len(r)
  <2>1. rows'[e] = [r EXCEPT ![i + 1] = "active"] /\ \A f \in Key : f # e => rows'[f] = rows[f]
    BY <1>1, <1>2, <1>4
  <2>2. i + 1 \in 1..Len(r)
    BY <1>1, <1>2, <1>4
  <2>3. /\ Len([r EXCEPT ![i + 1] = "active"]) = Len(r)
        /\ [r EXCEPT ![i + 1] = "active"][i + 1] = "active"
        /\ \A j \in 1..Len(r) : [r EXCEPT ![i + 1] = "active"][j] \in {r[j], "active"}
    BY <1>1, <2>2
  <2>4. QED
    BY <1>1, <1>4, <2>1, <2>3
<1>5. QED
  BY <1>3, <1>4

LEMMA RecordSend ==
    ASSUME OneHandler, TInv, SendInv, NEW w \in Workers, RecordSession(w)
    PROVE  SendInv'
<1>1. PICK e \in Key, i \in Nat : e = ev[w] /\ i = ctx[w].idx
  BY DEF RecordSession, TInv, Working, SessionStages
<1>2. /\ pc[w] = "record" /\ pc'[w] \in {"syncing", "latest", "append"}
      /\ UNCHANGED <<ev, ctx, store, status>>
  BY DEF RecordSession, Goto, InProcess, outboxVars, TInv, TypeOK
<1>3. /\ Len(store[e]) \in Nat /\ Len(rows[e]) \in Nat /\ Len(rows[e]) <= Len(store[e])
      /\ Len(store[e]) <= Len(rows[e]) + 1 /\ i <= Len(rows[e]) /\ i < Len(store[e]) /\ ~e.del
  BY <1>1, <1>2, SequenceTypes DEF SendInv, RowsFollow, AtSession, Talking, SessionStages
<1>4. /\ \A f \in Key : f # e => rows'[f] = rows[f]
      /\ Len(rows'[e]) = IF i = Len(rows[e]) THEN i + 1 ELSE Len(rows[e])
      /\ rows'[e][i + 1] = "active"
  BY <1>1, <1>3, RecordedAt DEF RecordSession
<1>5. Len(rows'[e]) <= Len(store[e]) /\ Len(store[e]) <= Len(rows'[e]) + 1 /\ i < Len(rows'[e])
  BY <1>3, <1>4
<1>6. RowsFollow'
  BY <1>2, <1>4, <1>5 DEF SendInv, RowsFollow, Known
<1>7. ASSUME NEW v \in Workers \ {w}
      PROVE  /\ pc'[v] \in Talking => ~ev'[v].del
             /\ pc'[v] \in SessionStages => ctx'[v].idx <= Len(rows'[ev'[v]])
             /\ pc'[v] \in SessionStages \ {"open"} => ctx'[v].idx < Len(store'[ev'[v]])
             /\ pc'[v] \in Recorded => ctx'[v].idx < Len(rows'[ev'[v]])
             /\ pc'[v] \in {"record", "latest", "append"} /\ ~ctx'[v].used =>
                   store'[ev'[v]][ctx'[v].idx + 1].msgs = 0
  <2>1. Handles(w) /\ Stays(v)
    BY <1>2, OthersStay DEF Step, Handles, Busy, Stages
  <2>2. \A f \in Key : f # ev[w] => store'[f] = store[f] /\ rows'[f] = rows[f]
    BY <1>1, <1>2, <1>4
  <2>3. QED
    BY <2>1, <2>2, OthersSessions
<1>8. AtSession'
  <2>1. /\ ~ev'[w].del /\ ctx'[w].idx <= Len(rows'[ev'[w]])
        /\ ctx'[w].idx < Len(store'[ev'[w]]) /\ ctx'[w].idx < Len(rows'[ev'[w]])
    BY <1>1, <1>2, <1>3, <1>4, <1>5
  <2> SUFFICES ASSUME NEW v \in Workers
               PROVE  /\ pc'[v] \in Talking => ~ev'[v].del
                      /\ pc'[v] \in SessionStages => ctx'[v].idx <= Len(rows'[ev'[v]])
                      /\ pc'[v] \in SessionStages \ {"open"} => ctx'[v].idx < Len(store'[ev'[v]])
                      /\ pc'[v] \in Recorded => ctx'[v].idx < Len(rows'[ev'[v]])
    BY DEF AtSession
  <2>2. CASE v = w
    BY <2>1, <2>2
  <2>3. CASE v # w
    BY <1>7, <2>3
  <2>4. QED
    BY <2>2, <2>3
<1>9. SentOnce'
  <2>1. ~ctx'[w].used => store'[ev'[w]][ctx'[w].idx + 1].msgs = 0
    BY <1>2 DEF SendInv, SentOnce, Messages
  <2>2. QED
    BY <1>7, <2>1 DEF SentOnce, Messages
<1>10. AppendedOnce'
  BY <1>2 DEF SendInv, AppendedOnce
<1>11. QED
  BY <1>6, <1>8, <1>10, <1>9 DEF SendInv

\* The message is sent to a session that has none.
LEMMA AppendSend ==
    ASSUME OneHandler, TInv, TInv', SendInv, NEW w \in Workers, AppendMessage(w)
    PROVE  SendInv'
<1>1. PICK e \in Key, i \in Nat \ {0} : e = ev[w] /\ i = ctx[w].idx + 1
  BY DEF AppendMessage, TInv, Working, SessionStages
<1>2. /\ pc[w] = "append" /\ pc'[w] \in {"commit", "fail"}
      /\ UNCHANGED <<ev, ctx, rows, status>>
  BY DEF AppendMessage, Goto, InProcess, outboxVars, TInv, TypeOK, CallFails
<1> DEFINE x == [store[e][i] EXCEPT !.msgs = @ + 1]
<1>3. \/ UNCHANGED store
      \/ ~ctx[w].used /\ store' = [store EXCEPT ![e] = [store[e] EXCEPT ![i] = x]]
  BY <1>1 DEF AppendMessage
<1>4. /\ i \in 1..Len(store[e]) /\ i <= Len(rows[e]) /\ Len(rows[e]) \in Nat /\ Len(store[e]) \in Nat
      /\ ~e.del
  <2>1. ctx[w].idx < Len(store[e]) /\ ctx[w].idx < Len(rows[e]) /\ ~e.del
    BY <1>1, <1>2 DEF SendInv, AtSession, Talking, SessionStages, Recorded
  <2>2. ctx[w].idx \in Nat
    BY <1>2 DEF TInv, Working, SessionStages
  <2>3. QED
    BY <1>1, <2>1, <2>2, SequenceTypes
<1> HIDE DEF x
<1>5. /\ \A f \in Key : Len(store'[f]) = Len(store[f])
      /\ \A f \in Key : \A j \in 1..Len(store[f]) :
            store'[f][j] = store[f][j] \/ (~ctx[w].used /\ f = e /\ j = i /\ store'[f][j] = x)
  <2>1. CASE UNCHANGED store
    BY <2>1
  <2>2. CASE ~ctx[w].used /\ store' = [store EXCEPT ![e] = [store[e] EXCEPT ![i] = x]]
    <3>1. /\ \A f \in Key : Len(store'[f]) = Len(store[f])
          /\ store'[e][i] = x
          /\ \A f \in Key : \A j \in 1..Len(store[f]) : f # e \/ j # i => store'[f][j] = store[f][j]
      <4>1. i <= Len(store[e])
        BY <1>4
      <4>2. QED
        BY <2>2, <4>1, WriteAt, Zenon
    <3>2. QED
      BY <2>2, <3>1
  <2>3. QED
    BY <1>3, <2>1, <2>2
<1>6. RowsFollow'
  <2>1. \A f \in Key : Len(store'[f]) = Len(store[f])
    BY <1>5
  <2>2. QED
    BY <1>2, <2>1 DEF SendInv, RowsFollow, Known
<1>7. ASSUME NEW v \in Workers \ {w}
      PROVE  /\ pc'[v] \in Talking => ~ev'[v].del
             /\ pc'[v] \in SessionStages => ctx'[v].idx <= Len(rows'[ev'[v]])
             /\ pc'[v] \in SessionStages \ {"open"} => ctx'[v].idx < Len(store'[ev'[v]])
             /\ pc'[v] \in Recorded => ctx'[v].idx < Len(rows'[ev'[v]])
             /\ pc'[v] \in {"record", "latest", "append"} /\ ~ctx'[v].used =>
                   store'[ev'[v]][ctx'[v].idx + 1].msgs = 0
  <2>1. Handles(w) /\ Stays(v)
    BY <1>2, OthersStay DEF Step, Handles, Busy, Stages
  <2>2. \A f \in Key : f # ev[w] => store'[f] = store[f] /\ rows'[f] = rows[f]
    BY <1>1, <1>2, <1>3, WriteElsewhere
  <2>3. QED
    BY <2>1, <2>2, OthersSessions
<1>8. AtSession' /\ SentOnce'
  <2>1. ~ev'[w].del /\ ctx'[w].idx <= Len(rows'[ev'[w]]) /\ ctx'[w].idx < Len(rows'[ev'[w]])
    BY <1>1, <1>2 DEF SendInv, AtSession, Talking, SessionStages, Recorded
  <2>2. ctx'[w].idx < Len(store'[ev'[w]])
    <3>1. ctx[w].idx < Len(store[e]) /\ Len(store'[e]) = Len(store[e])
      BY <1>1, <1>2, <1>5 DEF SendInv, AtSession, SessionStages
    <3>2. QED
      BY <1>1, <1>2, <3>1
  <2>3. pc'[w] \notin {"record", "latest", "append"}
    BY <1>2
  <2>4. QED
    BY <1>7, <2>1, <2>2, <2>3 DEF AtSession, SentOnce, Messages
<1>9. AppendedOnce'
  <2>1. ~ctx[w].used => x.msgs <= 1
    <3>1. ~ctx[w].used => store[e][i].msgs = 0
      BY <1>1, <1>2 DEF SendInv, SentOnce, Messages
    <3>2. store[e][i] \in ProviderSession
      BY <1>4, SequenceTypes
    <3>3. x.msgs = store[e][i].msgs + 1
      BY <3>2, SessionCalls DEF x
    <3>4. QED
      BY <3>1, <3>3
  <2>2. \A f \in Key : \A j \in 1..Len(store[f]) : store[f][j].msgs <= 1
    BY SequenceTypes DEF SendInv, AppendedOnce
  <2>3. \A f \in Key : \A j \in 1..Len(store[f]) : store'[f][j].msgs <= 1
    BY <1>5, <2>1, <2>2
  <2>4. \A f \in Key : DOMAIN store'[f] = 1..Len(store[f])
    <3>1. \A f \in Key : DOMAIN store'[f] = 1..Len(store'[f])
      BY DEF TInv, TypeOK
    <3>2. QED
      BY <3>1, <1>5
  <2>5. QED
    BY <2>3, <2>4 DEF AppendedOnce
<1>10. QED
  BY <1>6, <1>8, <1>9 DEF SendInv

LEMMA ContextFields ==
    ASSUME NEW c \in Context, NEW d, NEW t, NEW i, NEW x
    PROVE  /\ d = [c EXCEPT !.task = t] =>
                  d.task = t /\ d.idx = c.idx /\ d.used = c.used /\ d.todo = c.todo
           /\ d = [c EXCEPT !.idx = i] =>
                  d.idx = i /\ d.task = c.task /\ d.used = c.used /\ d.todo = c.todo
           /\ d = [c EXCEPT !.todo = x] =>
                  d.todo = x /\ d.task = c.task /\ d.idx = c.idx /\ d.used = c.used
<1>1. c = [task |-> c.task, idx |-> c.idx, used |-> c.used, committed |-> c.committed, todo |-> c.todo]
  BY DEF Context
<1>2. QED
  BY <1>1

\* The other steps of the worker leave it where SendMoves says.
LEMMA WorkerStage ==
    ASSUME TInv, SendInv, NEW w \in Workers,
           \/ ClaimAny(w) \/ Crash(w)
           \/ Step(w) /\ ~OpenSession(w) /\ ~RecordSession(w) /\ ~AppendMessage(w)
    PROVE  SendStage(w)
<1>1. ctx[w] \in Context /\ w \in DOMAIN pc /\ w \in DOMAIN ev /\ w \in DOMAIN ctx
  BY DEF TInv, TypeOK
<1>2. CASE \/ ClaimAny(w) \/ Crash(w) \/ BatchDone(w) \/ Defer(w) \/ AwaitTask(w) \/ ListSessions(w)
           \/ DeleteSession(w) \/ CompleteRead(w) \/ CompleteWrite(w) \/ FailRead(w) \/ FailWrite(w)
  <2>1. pc'[w] \notin Talking
    BY <1>1, <1>2 DEF ClaimAny, Claim, Crash, BatchDone, Defer, AwaitTask, ListSessions, DeleteSession,
       CompleteRead, CompleteWrite, FailRead, FailWrite, Goto, Leave, CallFails, Talking, SessionStages
  <2>2. QED
    BY <2>1 DEF SendStage
<1>3. ASSUME NEW e \in queue[w], Begin(w, e)
      PROVE  SendStage(w)
  <2>1. ev'[w] = e
    BY <1>1, <1>3 DEF Begin
  <2>2. pc'[w] \in {"defer", "list", "fail"} \/ (pc'[w] = "checkpoint" /\ ~e.del)
    BY <1>1, <1>3 DEF Begin, Goto
  <2>3. QED
    BY <2>1, <2>2 DEF SendStage, Talking, SessionStages
<1>4. CASE Checkpoint(w)
  <2>1. ev' = ev /\ pc'[w] \in {"complete", "session_key"} /\ ~ev[w].del
    BY <1>1, <1>4 DEF Checkpoint, Goto, InProcess, SendInv, AtSession, Talking
  <2>2. QED
    BY <2>1 DEF SendStage, Talking, SessionStages
<1>5. CASE SessionKey(w)
  <2>1. PICK e \in Key : e = ev[w]
    BY <1>5 DEF SessionKey, TInv, Working
  <2>2. ev' = ev /\ pc'[w] = "open" /\ ~e.del
    BY <1>1, <1>5, <2>1 DEF SessionKey, Goto, InProcess, SendInv, AtSession, Talking
  <2>3. ctx'[w] = [ctx[w] EXCEPT !.idx = SessionIndex(e)]
    BY <1>1, <1>5, <2>1 DEF SessionKey
  <2>4. ctx'[w].idx = SessionIndex(e)
    BY <1>1, <2>3, ContextFields
  <2>5. SessionIndex(e) <= Len(rows[e])
    BY SessionIndexType DEF TInv
  <2>6. QED
    BY <2>1, <2>2, <2>4, <2>5 DEF SendStage
<1>6. CASE LatestTask(w) \/ CommitSession(w) \/ RecordSyncing(w)
  <2>1. /\ ev' = ev /\ pc[w] \in Recorded
        /\ pc'[w] \in {"fail", "append", "syncing", "await"} /\ (pc'[w] = "append" => pc[w] = "latest")
    BY <1>1, <1>6 DEF LatestTask, CommitSession, RecordSyncing, Goto, CallFails, InProcess, Recorded
  <2> DEFINE t == Session(ev[w], ctx[w].idx)
  <2>2. UNCHANGED ctx \/ ctx' = [ctx EXCEPT ![w] = [ctx[w] EXCEPT !.task = t]]
    BY <1>6 DEF LatestTask, CommitSession, RecordSyncing, CallFails
  <2> HIDE DEF t
  <2>3. ctx'[w].idx = ctx[w].idx /\ ctx'[w].used = ctx[w].used
    <3>1. PICK d : d = [ctx[w] EXCEPT !.task = t]
      OBVIOUS
    <3>4. d.idx = ctx[w].idx /\ d.used = ctx[w].used
      BY <1>1, <3>1, ContextFields
    <3>2. UNCHANGED ctx \/ ctx' = [ctx EXCEPT ![w] = d]
      BY <2>2, <3>1
    <3>3. QED
      BY <1>1, <3>2, <3>4
  <2>4. QED
    BY <2>1, <2>3 DEF SendStage, Talking, SessionStages
<1>7. QED
  BY <1>2, <1>3, <1>4, <1>5, <1>6 DEF Step

LEMMA StepSend == OneHandler /\ TInv /\ IInv /\ SendInv /\ [Next]_vars => SendInv'
<1> SUFFICES ASSUME OneHandler, TInv, IInv, SendInv, [Next]_vars PROVE SendInv'
  OBVIOUS
<1>1. TInv' /\ \A e \in Key : Known(e) => Known(e)'
  BY StepTypes, StepIInv DEF Monotone, Known
<1>2. CASE Request \/ (\E e \in Key : TaskEnds(e)) \/ UNCHANGED vars
  <2>1. Shrinks /\ RowsKept
    BY <1>2, ShrinkSteps, KeepSteps
  <2>2. UNCHANGED <<pc, ev, ctx>>
    BY <1>2 DEF Request, Persist, DeleteRead, DeleteWrite, Replay, TaskEnds, TaskFinishes, vars, workerVars
  <2>3. \A v \in Workers : SendStage(v)
    BY <2>2 DEF SendStage
  <2>4. QED
    BY <1>1, <2>1, <2>3, SendMoves DEF RowsKept
<1>3. ASSUME NEW w \in Workers, OpenSession(w) \/ RecordSession(w) \/ AppendMessage(w)
      PROVE  SendInv'
  BY <1>1, <1>3, OpenSend, RecordSend, AppendSend
<1>4. ASSUME NEW w \in Workers,
             \/ ClaimAny(w) \/ Crash(w)
             \/ Step(w) /\ ~OpenSession(w) /\ ~RecordSession(w) /\ ~AppendMessage(w)
      PROVE  SendInv'
  <2>1. Shrinks
    BY <1>4, ShrinkSteps
  <2>2. \A v \in Workers : SendStage(v)
    BY <1>4, WorkerStage, OthersStay DEF SendStage, Stays
  <2>3. CASE CompleteWrite(w)
    <3>1. \/ UNCHANGED rows
          \/ rows' = [f \in Key |-> IF f.mem = ev[w].mem THEN [i \in 1..Len(rows[f]) |-> "deleted"]
                                    ELSE rows[f]]
      BY <2>3 DEF CompleteWrite
    <3>2. \A e \in Key : Len(rows'[e]) = Len(rows[e])
      BY <3>1, SequenceTypes
    <3>3. QED
      BY <1>1, <2>1, <2>2, <3>2, SendMoves
  <2>4. CASE ~CompleteWrite(w)
    <3>1. RowsKept
      BY <1>4, <2>4, KeepSteps
    <3>2. QED
      BY <1>1, <2>1, <2>2, <3>1, SendMoves DEF RowsKept
  <2>5. QED
    BY <2>3, <2>4
<1>5. QED
  BY <1>2, <1>3, <1>4 DEF Next

LEMMA InitSend == Init => SendInv
<1> SUFFICES ASSUME Init PROVE SendInv
  OBVIOUS
<1>1. \A e \in Key : Len(store[e]) = 0 /\ Len(rows[e]) = 0 /\ DOMAIN store[e] = {}
  BY DEF Init
<1>2. \A w \in Workers : pc[w] = "idle"
  BY DEF Init
<1>3. QED
  BY <1>1, <1>2 DEF SendInv, RowsFollow, AtSession, SentOnce, AppendedOnce, Talking, SessionStages, Recorded

LEMMA SendInvariance == Spec /\ []OneHandler => []SendInv
<1>1. OneHandler /\ TInv /\ IInv /\ SendInv /\ [Next]_vars => SendInv'
  BY StepSend
<1>2. QED
  BY <1>1, InitSend, TypeInvariance, Invariance, PTL DEF Spec

\* While no two workers handle one event a session receives its message once, however often the
\* call that sends it is repeated after a lost answer, a crash, a retry or a replay (append of
\* openviking_memory.py).
THEOREM MessagesAreSentOnce == Spec /\ []OneHandler => []AppendedOnce
<1>1. SendInv => AppendedOnce
  BY DEF SendInv
<1>2. Spec /\ []OneHandler => []SendInv
  BY SendInvariance
<1>3. QED
  BY <1>1, <1>2, PTL

\* No session receives a message; no row is taken away or deleted.
NoneFilled ==
    \A e \in Key : \A i \in DOMAIN store'[e] :
        store'[e][i].msgs > 0 => i \in DOMAIN store[e] /\ store[e][i].msgs > 0
RowsListed ==
    \A e \in Key : \A i \in DOMAIN rows[e] :
        rows[e][i] # "deleted" => i \in DOMAIN rows'[e] /\ rows'[e][i] # "deleted"

\* Where a step may leave a worker, for what it knows of the deletion.
ClearStage(w) ==
    \/ pc'[w] \notin {"list", "delete", "complete", "completing"}
    \/ pc'[w] = pc[w] /\ ev'[w] = ev[w] /\ ctx'[w] = ctx[w]
    \/ pc'[w] = "list" /\ ev'[w].del
    \/ /\ pc'[w] = "delete" /\ ev'[w].del
       /\ \A e \in EventsOf(ev'[w].mem) : \A i \in DOMAIN store'[e] :
             store'[e][i].msgs > 0 => Session(e, i - 1) \in ctx'[w].todo
    \/ pc'[w] \in {"complete", "completing"} /\ (ev'[w].del => EmptyMemory(ev'[w].mem))

LEMMA ClearMoves ==
    ASSUME ClearInv, RowsLive', NoneFilled, RowsListed, \A v \in Workers : ClearStage(v),
           \A d \in Key : status'[d] = "completed" => status[d] = "completed"
    PROVE  ClearInv'
<1>1. Covered'
  BY DEF ClearInv, Covered, NoneFilled, RowsListed
<1>2. ASSUME NEW m, EmptyMemory(m)
      PROVE  \A e \in EventsOf(m) : \A i \in DOMAIN store'[e] : ~(store'[e][i].msgs > 0)
  BY <1>2 DEF EmptyMemory, NoneFilled, EventsOf
<1>3. DeletedIsEmpty'
  <2> SUFFICES ASSUME NEW d \in Key, d.del, status'[d] = "completed"
               PROVE  \A e \in EventsOf(d.mem) : \A i \in DOMAIN store'[e] : ~(store'[e][i].msgs > 0)
    BY DEF DeletedIsEmpty, EmptyMemory, EventsOf
  <2>1. EmptyMemory(d.mem)
    BY DEF ClearInv, DeletedIsEmpty
  <2>2. QED
    BY <2>1, <1>2
<1>4. ListedIsAll'
  <2> SUFFICES ASSUME NEW w \in Workers
               PROVE  /\ pc'[w] \in {"list", "delete"} => ev'[w].del
                      /\ pc'[w] = "delete" =>
                            \A e \in EventsOf(ev'[w].mem) : \A i \in DOMAIN store'[e] :
                               store'[e][i].msgs > 0 => Session(e, i - 1) \in ctx'[w].todo
                      /\ pc'[w] \in {"complete", "completing"} /\ ev'[w].del =>
                            \A e \in EventsOf(ev'[w].mem) : \A i \in DOMAIN store'[e] :
                               ~(store'[e][i].msgs > 0)
    BY DEF ListedIsAll, EmptyMemory, EventsOf, Session
  <2>1. ClearStage(w)
    OBVIOUS
  <2>2. CASE pc'[w] = pc[w] /\ ev'[w] = ev[w] /\ ctx'[w] = ctx[w]
    <3>1. /\ pc[w] \in {"list", "delete"} => ev[w].del
          /\ pc[w] = "delete" =>
                \A e \in EventsOf(ev[w].mem) : \A i \in DOMAIN store[e] :
                   store[e][i].msgs > 0 => Session(e, i - 1) \in ctx[w].todo
          /\ pc[w] \in {"complete", "completing"} /\ ev[w].del => EmptyMemory(ev[w].mem)
      BY DEF ClearInv, ListedIsAll
    <3>2. \A e \in EventsOf(ev[w].mem) : e \in Key
      BY DEF EventsOf
    <3>3. QED
      BY <2>2, <3>1, <3>2, <1>2 DEF NoneFilled
  <2>3. CASE pc'[w] \in {"complete", "completing"} /\ (ev'[w].del => EmptyMemory(ev'[w].mem))
    BY <2>3, <1>2
  <2>4. QED
    BY <2>1, <2>2, <2>3 DEF ClearStage
<1>5. QED
  BY <1>1, <1>3, <1>4 DEF ClearInv

LEMMA FilledSteps ==
    ASSUME TInv, IInv, SendInv, [Next]_vars, \A w \in Workers : ~AppendMessage(w)
    PROVE  NoneFilled
<1>1. TInv'
  BY StepTypes
<1>2. \A e \in Key : /\ DOMAIN store[e] = 1..Len(store[e]) /\ DOMAIN store'[e] = 1..Len(store'[e])
                     /\ Len(store[e]) \in Nat
                     /\ \A i \in 1..Len(store[e]) : store[e][i].msgs \in Nat
                     /\ \A i \in 1..Len(store'[e]) : store'[e][i].msgs \in Nat
  <2>1. \A e \in Key : /\ DOMAIN store'[e] = 1..Len(store'[e])
                       /\ \A i \in 1..Len(store'[e]) : store'[e][i] \in ProviderSession
    BY <1>1 DEF TInv, TypeOK
  <2>2. QED
    BY <2>1, SequenceTypes, SessionFields
<1>3. ASSUME Shrinks PROVE NoneFilled
  BY <1>2, <1>3 DEF Shrinks, NoneFilled
<1>4. ASSUME NEW w \in Workers, OpenSession(w) PROVE NoneFilled
  <2>1. CASE UNCHANGED store
    BY <2>1 DEF NoneFilled
  <2>2. CASE store' = Opened(ev[w], ctx[w].idx)
    <3>1. PICK e \in Key, i \in Nat : e = ev[w] /\ i = ctx[w].idx
      BY <1>4 DEF OpenSession, TInv, Working, SessionStages
    <3>2. i <= Len(store[e])
      <4>1. /\ i <= Len(rows[e]) /\ Len(rows[e]) <= Len(store[e])
            /\ Len(rows[e]) \in Nat /\ Len(store[e]) \in Nat
        BY <1>4, <3>1, SequenceTypes DEF OpenSession, SendInv, RowsFollow, AtSession, SessionStages
      <4>2. QED
        BY <4>1
    <3>3. /\ \A f \in Key : f # e => store'[f] = store[f]
          /\ Len(store'[e]) = IF i = Len(store[e]) THEN i + 1 ELSE Len(store[e])
          /\ \A j \in 1..Len(store[e]) : store'[e][j].msgs = store[e][j].msgs
          /\ i = Len(store[e]) => store'[e][i + 1] = NewSession
      BY <2>2, <3>1, <3>2, OpenedAt
    <3>4. ASSUME NEW j \in 1..Len(store'[e]), store'[e][j].msgs > 0
          PROVE  j \in 1..Len(store[e]) /\ store[e][j].msgs > 0
      <4>1. NewSession.msgs = 0
        BY DEF NewSession
      <4>2. CASE i = Len(store[e]) /\ j = i + 1
        <5>1. store'[e][j] = NewSession
          BY <4>2, <3>3
        <5>2. store'[e][j].msgs = 0
          BY <5>1, <4>1
        <5>3. QED
          BY <3>4, <5>2
      <4>3. CASE j \in 1..Len(store[e])
        <5>1. store'[e][j].msgs = store[e][j].msgs
          BY <4>3, <3>3
        <5>2. QED
          BY <3>4, <4>3, <5>1
      <4>4. j \in 1..Len(store[e]) \/ (i = Len(store[e]) /\ j = i + 1)
        <5>1. Len(store[e]) \in Nat
          BY <1>2
        <5>2. QED
          BY <5>1, <3>3
      <4>5. QED
        BY <4>2, <4>3, <4>4
    <3>5. QED
      BY <1>2, <3>3, <3>4 DEF NoneFilled
  <2>3. QED
    BY <1>4, <2>1, <2>2 DEF OpenSession
<1>5. QED
  BY <1>3, <1>4, ShrinkSteps DEF Next

LEMMA ListedSteps ==
    ASSUME TInv, IInv, SendInv, [Next]_vars, \A w \in Workers : ~CompleteWrite(w)
    PROVE  RowsListed
<1>1. \A e \in Key : DOMAIN rows[e] = 1..Len(rows[e]) /\ DOMAIN rows'[e] = 1..Len(rows'[e])
                     /\ Len(rows[e]) \in Nat
  BY StepTypes DEF TInv, TypeOK
<1>2. ASSUME RowsKept PROVE RowsListed
  BY <1>1, <1>2 DEF RowsKept, RowsListed
<1>3. ASSUME NEW w \in Workers, RecordSession(w) PROVE RowsListed
  <2>1. PICK e \in Key, i \in Nat : e = ev[w] /\ i = ctx[w].idx
    BY <1>3 DEF RecordSession, TInv, Working, SessionStages
  <2>2. i <= Len(rows[e])
    BY <1>3, <2>1 DEF RecordSession, SendInv, AtSession, SessionStages
  <2>3. /\ \A f \in Key : f # e => rows'[f] = rows[f]
        /\ Len(rows'[e]) = IF i = Len(rows[e]) THEN i + 1 ELSE Len(rows[e])
        /\ \A j \in 1..Len(rows[e]) : rows[e][j] # "deleted" => rows'[e][j] # "deleted"
    BY <1>3, <2>1, <2>2, RecordedAt DEF RecordSession
  <2>4. 1..Len(rows[e]) \subseteq 1..Len(rows'[e])
    BY <1>1, <2>3
  <2>5. QED
    BY <1>1, <2>3, <2>4 DEF RowsListed
<1>4. QED
  BY <1>2, <1>3, KeepSteps DEF Next

\* Only the write of a completion completes an event.
LEMMA CompletedByWrite ==
    ASSUME TInv, IInv, [Next]_vars, \A w \in Workers : ~CompleteWrite(w)
    PROVE  \A e \in Key : status'[e] = "completed" => status[e] = "completed"
<1>1. ASSUME NEW u, NEW st, status' = EnqueuedStatus(u, st), NEW e \in Key, status'[e] = "completed",
             st \in [Key -> Statuses]
      PROVE  st[e] = "completed"
  BY <1>1 DEF EnqueuedStatus
<1>2. ASSUME NEW m \in Memories, Persist(m)
      PROVE  \A e \in Key : status'[e] = "completed" => status[e] = "completed"
  BY <1>1, <1>2 DEF Persist, TInv, TypeOK
<1>3. ASSUME NEW m \in Memories, DeleteWrite(m)
      PROVE  \A e \in Key : status'[e] = "completed" => status[e] = "completed"
  <2> DEFINE st == [k \in Key |-> IF k \in doomed \cap EventsOf(m) THEN "cancelled" ELSE status[k]]
             d == Deletion(m, rev[m] + 1)
  <2>1. status' = EnqueuedStatus(d, st)
    BY <1>3 DEF DeleteWrite
  <2>2. st \in [Key -> Statuses] /\ \A e \in Key : st[e] = "completed" => status[e] = "completed"
    BY DEF TInv, TypeOK, Statuses
  <2> HIDE DEF st, d
  <2>3. QED
    BY <1>1, <2>1, <2>2
<1>4. ASSUME NEW e \in Key, Replay(e)
      PROVE  \A k \in Key : status'[k] = "completed" => status[k] = "completed"
  BY <1>4 DEF Replay, TInv, TypeOK
<1>5. ASSUME NEW w \in Workers, ClaimAny(w)
      PROVE  \A e \in Key : status'[e] = "completed" => status[e] = "completed"
  BY <1>5 DEF ClaimAny, Claim
<1>6. ASSUME NEW w \in Workers, Defer(w) \/ FailWrite(w)
      PROVE  \A e \in Key : status'[e] = "completed" => status[e] = "completed"
  <2>1. UNCHANGED status \/ \E st \in {"retry", "dead_letter"} : status' = [status EXCEPT ![ev[w]] = st]
    BY <1>6 DEF Defer, FailWrite
  <2>2. QED
    BY <2>1 DEF TInv, TypeOK
<1>7. ASSUME \/ \E m \in Memories : DeleteRead(m)
             \/ (\E e \in Key : TaskEnds(e)) \/ UNCHANGED vars
             \/ \E w \in Workers : \/ QuietStep(w)
                                   \/ \E e \in queue[w] : Begin(w, e)
      PROVE  UNCHANGED status
  BY <1>7 DEF DeleteRead, TaskEnds, TaskFinishes, vars, QuietStep, BatchDone, Checkpoint, SessionKey,
     OpenSession, RecordSession, LatestTask, AppendMessage, CommitSession, RecordSyncing, AwaitTask,
     ListSessions, DeleteSession, CompleteRead, FailRead, Crash, Begin, outboxVars
<1>8. QED
  BY <1>2, <1>3, <1>4, <1>5, <1>6, <1>7 DEF Next, Request, Step, QuietStep

\* Deleting the sessions that are left.
LEMMA DeleteStage ==
    ASSUME TInv, ClearInv, NoneFilled, NEW w \in Workers, DeleteSession(w)
    PROVE  ClearStage(w)
<1>1. /\ pc[w] = "delete" /\ ev' = ev /\ ev[w].del /\ ctx[w] \in Context
      /\ \A e \in EventsOf(ev[w].mem) : \A i \in DOMAIN store[e] :
            store[e][i].msgs > 0 => Session(e, i - 1) \in ctx[w].todo
  BY DEF DeleteSession, InProcess, ClearInv, ListedIsAll, TInv, TypeOK
<1>2. CASE ctx[w].todo = {} /\ Goto(w, "complete")
  <2>1. EmptyMemory(ev[w].mem)
    BY <1>1, <1>2 DEF EmptyMemory
  <2>2. QED
    BY <1>1, <1>2, <2>1 DEF ClearStage, Goto, TInv, TypeOK
<1>3. ASSUME NEW s \in ctx[w].todo,
             store' = [store EXCEPT ![s.key][s.idx + 1] =
                           [@ EXCEPT !.exists = FALSE, !.msgs = 0, !.commits = 0]],
             ctx' = [ctx EXCEPT ![w].todo = @ \ {s}],
             UNCHANGED pc
      PROVE  ClearStage(w)
  <2>1. s \in SessionId
    BY <1>1 DEF Context
  <2>2. PICK f \in Key, j \in Nat \ {0} : f = s.key /\ j = s.idx + 1 /\ s = Session(f, j - 1)
    BY <2>1 DEF SessionId, Session
  <2> DEFINE x == [store[f][j] EXCEPT !.exists = FALSE, !.msgs = 0, !.commits = 0]
  <2>3. store' = [store EXCEPT ![f] = [store[f] EXCEPT ![j] = x]]
    BY <1>3, <2>2
  <2>4. j \in 1..Len(store[f]) => x.msgs = 0
    BY SequenceTypes, SessionCalls
  <2> HIDE DEF x
  <2>5. j <= Len(store[f]) => store'[f][j] = x
    BY <2>3, WriteAt, Zenon
  <2>6. PICK d : d = [ctx[w] EXCEPT !.todo = ctx[w].todo \ {s}]
    OBVIOUS
  <2>7. ctx'[w] = d
    BY <1>3, <2>6 DEF TInv, TypeOK
  <2>8. d.todo = ctx[w].todo \ {s}
    BY <1>1, <2>6, ContextFields
  <2>9. ASSUME NEW e \in EventsOf(ev[w].mem), NEW i \in DOMAIN store'[e], store'[e][i].msgs > 0
        PROVE  Session(e, i - 1) \in ctx'[w].todo
    <3>1. e \in Key /\ i \in DOMAIN store[e] /\ store[e][i].msgs > 0
      BY <2>9 DEF NoneFilled, EventsOf
    <3>2. Session(e, i - 1) \in ctx[w].todo
      BY <1>1, <3>1
    <3>3. ASSUME Session(e, i - 1) = s
          PROVE  FALSE
      <4>1. e = f /\ i - 1 = j - 1
        BY <3>3, <2>2 DEF Session
      <4>2. i \in 1..Len(store[e]) /\ i \in Int /\ Len(store[e]) \in Nat
        BY <3>1, SequenceTypes
      <4>3. i = j
        BY <4>1, <4>2
      <4>4. store'[e][i].msgs = 0
        BY <2>4, <2>5, <4>1, <4>2, <4>3
      <4>5. QED
        BY <4>4, <2>9
    <3>4. QED
      BY <2>7, <2>8, <3>2, <3>3
  <2>10. QED
    BY <1>1, <1>3, <2>9 DEF ClearStage
<1>4. CASE CallFails(w)
  BY <1>4 DEF CallFails, Goto, ClearStage, TInv, TypeOK
<1>5. QED
  BY <1>2, <1>3, <1>4 DEF DeleteSession

\* A deletion lists every session that holds a message.
LEMMA ListStage ==
    ASSUME TInv, ClearInv, NoneFilled, NEW w \in Workers, ListSessions(w)
    PROVE  ClearStage(w)
<1> DEFINE m == ev[w].mem
           listed == UNION {{Session(e, i) : i \in {j \in 0..(Len(rows[e]) - 1) :
                                                     rows[e][j + 1] # "deleted"}}
                            : e \in EventsOf(m)}
<1>1. /\ pc[w] = "list" /\ ev' = ev /\ ev[w].del /\ ctx[w] \in Context /\ pc'[w] = "delete"
      /\ ctx' = [ctx EXCEPT ![w] = [ctx[w] EXCEPT !.todo = listed]]
  BY DEF ListSessions, Goto, InProcess, ClearInv, ListedIsAll, TInv, TypeOK
<1>2. ASSUME NEW e \in EventsOf(m), NEW i \in DOMAIN store'[e], store'[e][i].msgs > 0
      PROVE  Session(e, i - 1) \in listed
  <2>1. e \in Key /\ i \in DOMAIN store[e] /\ store[e][i].msgs > 0
    BY <1>2 DEF NoneFilled, EventsOf
  <2>2. i \in DOMAIN rows[e] /\ rows[e][i] # "deleted"
    BY <2>1 DEF ClearInv, Covered
  <2>3. i \in 1..Len(rows[e]) /\ Len(rows[e]) \in Nat
    BY <2>1, <2>2, SequenceTypes
  <2>4. PICK k \in 0..(Len(rows[e]) - 1) : k = i - 1 /\ k + 1 = i
    BY <2>3
  <2>5. k \in {j \in 0..(Len(rows[e]) - 1) : rows[e][j + 1] # "deleted"}
    BY <2>2, <2>4
  <2>6. QED
    BY <2>4, <2>5
<1> HIDE DEF listed
<1>3. PICK d : d = [ctx[w] EXCEPT !.todo = listed]
  OBVIOUS
<1>4. ctx'[w] = d
  BY <1>1, <1>3 DEF TInv, TypeOK
<1>5. d.todo = listed
  BY <1>1, <1>3, ContextFields
<1>6. QED
  BY <1>1, <1>2, <1>4, <1>5 DEF ClearStage

LEMMA WorkerClear ==
    ASSUME TInv, SendInv, ClearInv, NoneFilled, NEW w \in Workers, ClaimAny(w) \/ Crash(w) \/ Step(w)
    PROVE  ClearStage(w)
<1>1. w \in DOMAIN pc /\ w \in DOMAIN ev
  BY DEF TInv, TypeOK
<1>2. CASE \/ ClaimAny(w) \/ Crash(w) \/ BatchDone(w) \/ Defer(w) \/ SessionKey(w) \/ OpenSession(w)
           \/ RecordSession(w) \/ LatestTask(w) \/ AppendMessage(w) \/ CommitSession(w)
           \/ RecordSyncing(w) \/ CompleteWrite(w) \/ FailRead(w) \/ FailWrite(w)
  <2>1. pc'[w] \notin {"list", "delete", "complete", "completing"}
    BY <1>1, <1>2 DEF ClaimAny, Claim, Crash, BatchDone, Defer, SessionKey, OpenSession, RecordSession,
       LatestTask, AppendMessage, CommitSession, RecordSyncing, CompleteWrite, FailRead, FailWrite,
       Goto, Leave, CallFails
  <2>2. QED
    BY <2>1 DEF ClearStage
<1>3. ASSUME NEW e \in queue[w], Begin(w, e)
      PROVE  ClearStage(w)
  <2>1. ev'[w] = e
    BY <1>1, <1>3 DEF Begin
  <2>2. pc'[w] \in {"defer", "checkpoint", "fail"} \/ (pc'[w] = "list" /\ e.del)
    BY <1>1, <1>3 DEF Begin, Goto
  <2>3. QED
    BY <2>1, <2>2 DEF ClearStage
<1>4. CASE Checkpoint(w) \/ AwaitTask(w)
  <2>1. ev' = ev /\ ~ev[w].del /\ pc'[w] \notin {"list", "delete"}
    BY <1>1, <1>4 DEF Checkpoint, AwaitTask, Goto, InProcess, SendInv, AtSession, Talking
  <2>2. QED
    BY <2>1 DEF ClearStage
<1>5. CASE CompleteRead(w)
  <2>1. pc[w] = "complete" /\ (pc'[w] \in {"next", "fail"} \/ (pc'[w] = "completing" /\ ev' = ev))
    BY <1>1, <1>5 DEF CompleteRead, Goto, Leave, InProcess
  <2>2. ev[w].del => EmptyMemory(ev[w].mem)
    BY <2>1 DEF ClearInv, ListedIsAll
  <2>3. QED
    BY <2>1, <2>2 DEF ClearStage
<1>6. QED
  BY <1>2, <1>3, <1>4, <1>5, ListStage, DeleteStage DEF Step

\* The row of a worker's session is active once it is recorded; the others leave it alone.
LEMMA LiveStep ==
    ASSUME Turns, TInv, IInv, SendInv, ClearInv, [Next]_vars
    PROVE  RowsLive'
<1> SUFFICES ASSUME NEW v \in Workers, pc'[v] \in Recorded
             PROVE  rows'[ev'[v]][ctx'[v].idx + 1] # "deleted"
  BY DEF RowsLive
<1>1. ASSUME pc[v] \in Recorded, ev'[v] = ev[v], ctx'[v].idx = ctx[v].idx,
             RowsKept \/ rows'[ev[v]] = rows[ev[v]]
      PROVE  rows'[ev'[v]][ctx'[v].idx + 1] # "deleted"
  <2>1. PICK e \in Key, i \in Nat : e = ev[v] /\ i = ctx[v].idx /\ i < Len(rows[e])
    BY <1>1 DEF Recorded, SendInv, AtSession, SessionStages, TInv, Working
  <2>2. rows[e][i + 1] # "deleted"
    BY <1>1, <2>1 DEF ClearInv, RowsLive
  <2>3. i + 1 \in 1..Len(rows[e])
    BY <2>1, SequenceTypes
  <2>4. QED
    BY <1>1, <2>1, <2>2, <2>3 DEF RowsKept
<1>2. CASE Request \/ (\E e \in Key : TaskEnds(e)) \/ UNCHANGED vars
  <2>1. UNCHANGED <<pc, ev, ctx>>
    BY <1>2 DEF Request, Persist, DeleteRead, DeleteWrite, Replay, TaskEnds, TaskFinishes, vars, workerVars
  <2>2. RowsKept
    BY <1>2, KeepSteps
  <2>3. QED
    BY <1>1, <2>1, <2>2
<1>3. ASSUME NEW w \in Workers, w # v, ClaimAny(w) \/ Crash(w) \/ Step(w)
      PROVE  rows'[ev'[v]][ctx'[v].idx + 1] # "deleted"
  <2>1. Stays(v)
    BY <1>3, OthersStay
  <2>2. pc[v] \in Recorded /\ ev'[v] = ev[v] /\ ctx'[v].idx = ctx[v].idx
    BY <2>1 DEF Stays
  <2>3. CASE RecordSession(w) \/ CompleteWrite(w)
    <3>1. Handles(v) /\ Handles(w)
      BY <2>2, <2>3 DEF RecordSession, CompleteWrite, Handles, Busy, Stages, Recorded
    <3>2. PICK e \in Key, f \in Key : e = ev[w] /\ f = ev[v] /\ f.mem # e.mem
      BY <1>3, <3>1, HandledApart DEF IInv, ClaimsExist, Handles
    <3>3. CASE RecordSession(w)
      <4>1. PICK i \in Nat : i = ctx[w].idx /\ i <= Len(rows[e])
        BY <3>2, <3>3 DEF RecordSession, SendInv, AtSession, SessionStages, TInv, Working
      <4>2. rows'[f] = rows[f]
        BY <3>2, <3>3, <4>1, RecordedAt DEF RecordSession
      <4>3. QED
        BY <1>1, <2>2, <3>2, <4>2
    <3>4. CASE CompleteWrite(w)
      <4>1. rows'[f] = rows[f]
        BY <3>2, <3>4 DEF CompleteWrite
      <4>2. QED
        BY <1>1, <2>2, <3>2, <4>1
    <3>5. QED
      BY <2>3, <3>3, <3>4
  <2>4. CASE ~RecordSession(w) /\ ~CompleteWrite(w)
    <3>1. RowsKept
      BY <1>3, <2>4, KeepSteps
    <3>2. QED
      BY <1>1, <2>2, <3>1
  <2>5. QED
    BY <2>3, <2>4
<1>4. ASSUME ClaimAny(v) \/ Crash(v) \/ Step(v)
      PROVE  rows'[ev'[v]][ctx'[v].idx + 1] # "deleted"
  <2>1. CASE RecordSession(v)
    <3>1. PICK e \in Key, i \in Nat : e = ev[v] /\ i = ctx[v].idx /\ i <= Len(rows[e])
      BY <2>1 DEF RecordSession, SendInv, AtSession, SessionStages, TInv, Working
    <3>2. rows'[e][i + 1] = "active"
      BY <2>1, <3>1, RecordedAt DEF RecordSession
    <3>3. QED
      BY <2>1, <3>1, <3>2 DEF RecordSession, InProcess
  <2>2. CASE AppendMessage(v)
    <3>1. pc[v] = "append" /\ UNCHANGED <<ev, ctx, rows>>
      BY <2>2 DEF AppendMessage, InProcess, CallFails, Recorded, Goto, TInv, TypeOK
    <3>2. QED
      BY <1>1, <3>1 DEF Recorded
  <2>3. CASE OpenSession(v) \/ CompleteWrite(v)
    <3>1. pc'[v] \in {"record", "fail", "next"}
      BY <2>3 DEF OpenSession, CompleteWrite, CallFails, Goto, Leave, TInv, TypeOK
    <3>2. QED
      BY <3>1 DEF Recorded
  <2>4. CASE ~RecordSession(v) /\ ~AppendMessage(v) /\ ~OpenSession(v) /\ ~CompleteWrite(v)
    <3>1. SendStage(v) /\ RowsKept
      BY <1>4, <2>4, WorkerStage, KeepSteps
    <3>2. pc[v] \in Recorded /\ ev'[v] = ev[v] /\ ctx'[v].idx = ctx[v].idx
      BY <3>1 DEF SendStage, Recorded, Talking, SessionStages
    <3>3. QED
      BY <1>1, <3>1, <3>2
  <2>5. QED
    BY <2>1, <2>2, <2>3, <2>4
<1>5. QED
  BY <1>2, <1>3, <1>4 DEF Next

\* No deletion of the memory is completed while an upsert of it is in hand.
LEMMA AppendClear ==
    ASSUME Turns, TInv, TInv', IInv, LifeInv, OrderInv, SendInv, ClearInv, RowsLive',
           NEW w \in Workers, AppendMessage(w)
    PROVE  ClearInv'
<1>1. PICK e \in Key, i \in Nat \ {0} : e = ev[w] /\ i = ctx[w].idx + 1
  BY DEF AppendMessage, TInv, Working, SessionStages
<1>2. /\ pc[w] = "append" /\ pc'[w] \in {"commit", "fail"} /\ UNCHANGED <<rows, status>>
      /\ Handles(w) /\ \A v \in Workers \ {w} : Stays(v)
  <2>1. pc[w] = "append" /\ pc'[w] \in {"commit", "fail"} /\ UNCHANGED <<rows, status>>
    BY DEF AppendMessage, Goto, CallFails, outboxVars, TInv, TypeOK
  <2>2. QED
    BY <2>1, OthersStay DEF Step, Handles, Busy, Stages
<1>3. ~e.del /\ ctx[w].idx < Len(rows[e]) /\ rows[e][i] # "deleted"
  BY <1>1, <1>2 DEF SendInv, AtSession, ClearInv, RowsLive, Talking, SessionStages, Recorded
<1>4. i \in DOMAIN rows[e]
  <2>1. ctx[w].idx \in Nat
    BY <1>2 DEF TInv, Working, SessionStages
  <2>2. QED
    BY <1>1, <1>3, <2>1, SequenceTypes
<1>5. ASSUME NEW f \in Key, NEW j \in DOMAIN store'[f], f # e \/ j # i
      PROVE  j \in DOMAIN store[f] /\ store'[f][j] = store[f][j]
  <2> DEFINE x == [store[e][i] EXCEPT !.msgs = @ + 1]
  <2>1. UNCHANGED store \/ store' = [store EXCEPT ![e] = [store[e] EXCEPT ![i] = x]]
    BY <1>1 DEF AppendMessage
  <2> HIDE DEF x
  <2>2. CASE store' = [store EXCEPT ![e] = [store[e] EXCEPT ![i] = x]]
    <3>1. /\ \A k \in Key : Len(store'[k]) = Len(store[k])
          /\ \A g \in Key : \A k \in 1..Len(store[g]) : g # e \/ k # i => store'[g][k] = store[g][k]
      BY <2>2, WriteAt, Zenon
    <3>2. j \in 1..Len(store[f]) /\ DOMAIN store[f] = 1..Len(store[f])
      <4>1. DOMAIN store'[f] = 1..Len(store'[f])
        BY DEF TInv, TypeOK
      <4>2. QED
        BY <4>1, <3>1, SequenceTypes
    <3>3. QED
      BY <3>1, <3>2, <1>5
  <2>3. QED
    BY <2>1, <2>2
<1>6. Covered'
  BY <1>2, <1>3, <1>4, <1>5 DEF ClearInv, Covered
\* Another worker's deletion is of another memory.
<1>7. ListedIsAll'
  <2> SUFFICES ASSUME NEW v \in Workers
               PROVE  /\ pc'[v] \in {"list", "delete"} => ev'[v].del
                      /\ pc'[v] = "delete" =>
                            \A f \in EventsOf(ev'[v].mem) : \A j \in DOMAIN store'[f] :
                               store'[f][j].msgs > 0 => Session(f, j - 1) \in ctx'[v].todo
                      /\ pc'[v] \in {"complete", "completing"} /\ ev'[v].del =>
                            \A f \in EventsOf(ev'[v].mem) : \A j \in DOMAIN store'[f] :
                               ~(store'[f][j].msgs > 0)
    BY DEF ListedIsAll, EmptyMemory, EventsOf, Session
  <2>1. CASE v = w \/ pc'[v] \notin {"list", "delete", "complete", "completing"}
    BY <1>2, <2>1
  <2>2. CASE v # w /\ pc'[v] \in {"list", "delete", "complete", "completing"}
    <3>1. /\ pc'[v] = pc[v] /\ ev'[v] = ev[v] /\ ctx'[v] = ctx[v]
      BY <1>2, <2>2 DEF Stays
    <3>2. ev[v].mem # e.mem
      BY <1>1, <1>2, <2>2, <3>1, HandledApart DEF Handles, Busy, Stages
    <3>3. \A f \in EventsOf(ev[v].mem) : \A j \in DOMAIN store'[f] :
             f \in Key /\ j \in DOMAIN store[f] /\ store'[f][j] = store[f][j]
      BY <1>5, <3>2 DEF EventsOf
    <3>4. QED
      BY <3>1, <3>3 DEF ClearInv, ListedIsAll, EmptyMemory
  <2>3. QED
    BY <2>1, <2>2
<1>8. DeletedIsEmpty'
  <2> SUFFICES ASSUME NEW d \in Key, d.del, status[d] = "completed",
                      NEW f \in EventsOf(d.mem), NEW j \in DOMAIN store'[f]
               PROVE  ~(store'[f][j].msgs > 0)
    BY <1>2 DEF DeletedIsEmpty, EmptyMemory, EventsOf
  <2>1. d.mem # e.mem
    <3> SUFFICES ASSUME d.mem = e.mem PROVE FALSE
      OBVIOUS
    <3>1. Known(e) /\ Known(d) /\ Takes(w, e)
      BY <1>1, <1>2 DEF IInv, ClaimsExist, Busy, Stages, Known, Takes
    <3>2. d \notin Later(e)
      BY <3>1 DEF OrderInv, TakenIsNext
    <3>3. e.ver < d.ver
      BY <1>3, <3>1 DEF LifeInv, DeletionIsLast
    <3>4. QED
      BY <3>2, <3>3 DEF Later
  <2>2. f \in Key /\ f # e
    BY <2>1 DEF EventsOf
  <2>3. j \in DOMAIN store[f] /\ store'[f][j] = store[f][j]
    BY <1>5, <2>2
  <2>4. QED
    BY <2>3 DEF ClearInv, DeletedIsEmpty, EmptyMemory
<1>9. QED
  BY <1>6, <1>7, <1>8 DEF ClearInv

LEMMA CompleteClear ==
    ASSUME TInv, ClearInv, RowsLive', NEW w \in Workers, CompleteWrite(w)
    PROVE  ClearInv'
<1>1. PICK e \in Key : e = ev[w]
  BY DEF CompleteWrite, TInv, Working
<1>2. /\ pc[w] = "completing" /\ pc'[w] = "next" /\ UNCHANGED store
      /\ \A d \in Key : d # e => status'[d] = status[d]
      /\ rows' = IF e.del THEN [f \in Key |-> IF f.mem = e.mem
                                              THEN [i \in 1..Len(rows[f]) |-> "deleted"]
                                              ELSE rows[f]]
                 ELSE rows
  BY <1>1 DEF CompleteWrite, Leave, Goto, TInv, TypeOK
<1>3. e.del => EmptyMemory(e.mem)
  BY <1>1, <1>2 DEF ClearInv, ListedIsAll
<1>4. Covered'
  <2> SUFFICES ASSUME NEW f \in Key, NEW i \in DOMAIN store[f], store[f][i].msgs > 0
               PROVE  i \in DOMAIN rows'[f] /\ rows'[f][i] # "deleted"
    BY <1>2 DEF Covered
  <2>1. ~(e.del /\ f.mem = e.mem)
    BY <1>3 DEF EmptyMemory, EventsOf
  <2>2. rows'[f] = rows[f]
    BY <1>2, <2>1
  <2>3. QED
    BY <2>2 DEF ClearInv, Covered
<1>5. ListedIsAll'
  <2>1. \A v \in Workers \ {w} : Stays(v)
    BY OthersStay DEF Step
  <2>2. QED
    BY <1>2, <2>1 DEF ClearInv, ListedIsAll, EmptyMemory, Stays
<1>6. DeletedIsEmpty'
  BY <1>2, <1>3 DEF ClearInv, DeletedIsEmpty, EmptyMemory, EventsOf
<1>7. QED
  BY <1>4, <1>5, <1>6 DEF ClearInv

LEMMA StepClear ==
    /\ Turns /\ TInv /\ IInv /\ LifeInv /\ OrderInv /\ SendInv /\ ClearInv
    /\ [Next]_vars
    => ClearInv'
<1> SUFFICES ASSUME Turns, TInv, IInv, LifeInv, OrderInv, SendInv, ClearInv, [Next]_vars
             PROVE  ClearInv'
  OBVIOUS
<1>1. TInv' /\ RowsLive'
  BY StepTypes, LiveStep
<1>2. ASSUME NEW w \in Workers, AppendMessage(w) \/ CompleteWrite(w)
      PROVE  ClearInv'
  BY <1>1, <1>2, AppendClear, CompleteClear
<1>3. CASE \A w \in Workers : ~AppendMessage(w) /\ ~CompleteWrite(w)
  <2>1. NoneFilled /\ RowsListed /\ \A e \in Key : status'[e] = "completed" => status[e] = "completed"
    BY <1>3, FilledSteps, ListedSteps, CompletedByWrite
  <2>2. \A v \in Workers : ClearStage(v)
    <3>1. CASE Request \/ (\E e \in Key : TaskEnds(e)) \/ UNCHANGED vars
      <4>1. UNCHANGED <<pc, ev, ctx>>
        BY <3>1 DEF Request, Persist, DeleteRead, DeleteWrite, Replay, TaskEnds, TaskFinishes, vars, workerVars
      <4>2. QED
        BY <4>1 DEF ClearStage
    <3>2. ASSUME NEW w \in Workers, ClaimAny(w) \/ Crash(w) \/ Step(w)
          PROVE  \A v \in Workers : ClearStage(v)
      <4>1. ClearStage(w)
        BY <2>1, <3>2, WorkerClear
      <4>2. \A v \in Workers \ {w} : ClearStage(v)
        BY <3>2, OthersStay DEF Stays, ClearStage
      <4>3. QED
        BY <4>1, <4>2
    <3>3. QED
      BY <3>1, <3>2 DEF Next
  <2>3. QED
    BY <1>1, <2>1, <2>2, ClearMoves
<1>4. QED
  BY <1>2, <1>3

LEMMA InitClear == Init => ClearInv
<1> SUFFICES ASSUME Init PROVE ClearInv
  OBVIOUS
<1>1. /\ \A e \in Key : DOMAIN store[e] = {} /\ status[e] = "absent"
      /\ \A w \in Workers : pc[w] = "idle"
  BY DEF Init
<1>2. QED
  BY <1>1 DEF ClearInv, Covered, RowsLive, Recorded, ListedIsAll, DeletedIsEmpty, EmptyMemory, EventsOf

LEMMA ClearInvariance == ~MayRecreate => (Spec /\ []Turns => []ClearInv)
<1> SUFFICES ASSUME ~MayRecreate PROVE Spec /\ []Turns => []ClearInv
  OBVIOUS
<1>1. Turns /\ TInv /\ IInv /\ LifeInv /\ OrderInv /\ SendInv /\ ClearInv /\ [Next]_vars => ClearInv'
  BY StepClear
<1>2. Spec => []LifeInv
  BY LifeInvariance
<1>3. Spec /\ []Turns => []OrderInv
  BY OrderInvariance
<1>4. Spec /\ []Turns => []SendInv
  BY SendInvariance, TurnsHandle, TypeInvariance, Invariance, PTL
<1>5. QED
  BY <1>1, <1>2, <1>3, <1>4, InitClear, TypeInvariance, Invariance, PTL DEF Spec

\* While workers keep their turn, and ids are not stored again, a completed deletion leaves no
\* message of the memory in the provider, whatever was sent, lost or replayed before
\* (_complete_deletion of agent_memory_worker.py).
THEOREM DeletionClears == ~MayRecreate => (Spec /\ []Turns => []NoContentAfterDelete)
<1> SUFFICES ASSUME ~MayRecreate PROVE Spec /\ []Turns => []NoContentAfterDelete
  OBVIOUS
<1>1. ClearInv => NoContentAfterDelete
  BY DEF ClearInv, DeletedIsEmpty, EmptyMemory, NoContentAfterDelete
<1>2. Spec /\ []Turns => []ClearInv
  BY ClearInvariance
<1>3. QED
  BY <1>1, <1>2, PTL

-----------------------------------------------------------------------------
(* What is behind a task that is done.                                      *)

\* The sessions of an upsert that no deletion has touched.
Sound ==
    \A e \in Key : ~e.del /\ ~redacted[e] => \A i \in DOMAIN store[e] :
        /\ store[e][i].exists
        /\ store[e][i].commits > 0 => store[e][i].msgs > 0
        /\ store[e][i].task # "none" => store[e][i].commits > 0

\* What is committed has its message.
HasMessage ==
    \A w \in Workers :
        /\ pc[w] \in {"record", "latest", "append", "commit"} /\ ~redacted[ev[w]]
        /\ ctx[w].used \/ pc[w] = "commit"
        => Messages(w) > 0

\* A task is of an upsert of the memory, of that version or before.
TaskOf(t, m, v) ==
    /\ t.key \in EventsOf(m) /\ ~t.key.del /\ t.key.ver <= v /\ Known(t.key)
    /\ t.idx \in Nat /\ t.idx < Len(store[t.key])
TasksAreOwn ==
    /\ \A m \in Memories : sync[m].task # None => TaskOf(sync[m].task, m, sync[m].ver)
    /\ \A w \in Workers :
          /\ ctx[w].task # None => pc[w] \in Busy /\ TaskOf(ctx[w].task, ev[w].mem, ev[w].ver)
          /\ pc[w] \in {"syncing", "await"} => ctx[w].task # None

\* A deletion has sessions of its memory to delete.
ListedIsOwn ==
    \A w \in Workers : pc[w] = "delete" => \A s \in ctx[w].todo : s.key.mem = ev[w].mem

First(e) == ~e.del /\ ~redacted[e] /\ \A f \in Predecessors(e) : ~Known(f)
CompletesExported ==
    \A w \in Workers : pc[w] \in {"complete", "completing"} /\ First(ev[w]) => Exported(ev[w])

ExportInv == /\ Sound
             /\ HasMessage
             /\ TasksAreOwn
             /\ ListedIsOwn
             /\ CompletesExported
             /\ FirstVersionExported

\* What a step makes of the sessions of an upsert that no deletion has touched: none goes, what
\* they hold stays, a commit finds its message, and a task its commit.
SessionGrows(x, y) ==
    /\ x.exists => y.exists
    /\ x.msgs > 0 => y.msgs > 0
    /\ x.commits > 0 => y.commits > 0
    /\ y.commits > 0 => x.commits > 0 \/ x.msgs > 0
    /\ y.task # "none" => x.task # "none" \/ y.commits > 0
StoreGrows ==
    /\ \A e \in Key : Len(store[e]) <= Len(store'[e])
    /\ \A e \in Key : ~e.del /\ ~redacted[e] =>
          /\ \A i \in 1..Len(store[e]) : SessionGrows(store[e][i], store'[e][i])
          /\ \A i \in 1..Len(store'[e]) : i \notin 1..Len(store[e]) => store'[e][i] = NewSession

LEMMA GrowsAlike ==
    ASSUME TInv, UNCHANGED store
    PROVE  StoreGrows
BY SequenceTypes DEF StoreGrows, SessionGrows

\* Writing one session of an event that grows, or whose event a deletion has touched.
LEMMA WriteGrows ==
    ASSUME TInv, NEW e \in Key, NEW i \in Nat \ {0}, NEW x,
           store' = [store EXCEPT ![e] = [store[e] EXCEPT ![i] = x]],
           i <= Len(store[e]) /\ ~e.del /\ ~redacted[e] => SessionGrows(store[e][i], x)
    PROVE  StoreGrows
<1>1. /\ \A f \in Key : Len(store'[f]) = Len(store[f])
      /\ i <= Len(store[e]) => store'[e][i] = x
      /\ \A f \in Key : \A j \in 1..Len(store[f]) : f # e \/ j # i => store'[f][j] = store[f][j]
  BY WriteAt, Zenon
<1>2. \A f \in Key : Len(store[f]) \in Nat
  BY SequenceTypes
<1>3. ASSUME NEW f \in Key, ~f.del, ~redacted[f], NEW j \in 1..Len(store[f])
      PROVE  SessionGrows(store[f][j], store'[f][j])
  <2>1. CASE f = e /\ j = i
    <3>1. i <= Len(store[e]) /\ store'[f][j] = x
      BY <2>1, <1>1, <1>2
    <3>2. QED
      BY <2>1, <3>1, <1>3
  <2>2. CASE f # e \/ j # i
    <3>1. store'[f][j] = store[f][j]
      BY <2>2, <1>1
    <3>2. QED
      BY <3>1 DEF SessionGrows
  <2>3. QED
    BY <2>1, <2>2
<1>4. QED
  BY <1>1, <1>2, <1>3 DEF StoreGrows

LEMMA TaskGrows ==
    ASSUME TInv, NEW e \in Key, TaskEnds(e)
    PROVE  StoreGrows
<1>1. PICK i \in DOMAIN store[e], end \in {"done", "failed"} :
          /\ store' = [store EXCEPT ![e] = [store[e] EXCEPT ![i] = [store[e][i] EXCEPT !.task = end]]]
          /\ store[e][i].task = "pending"
  BY DEF TaskEnds, TaskFinishes
<1>2. i \in 1..Len(store[e]) /\ store[e][i] \in ProviderSession
  BY SequenceTypes
<1> DEFINE x == [store[e][i] EXCEPT !.task = end]
<1>3. x.msgs = store[e][i].msgs /\ x.exists = store[e][i].exists /\ x.commits = store[e][i].commits
  BY <1>2, SessionCalls
<1>4. i \in Nat \ {0} /\ SessionGrows(store[e][i], x)
  <2> HIDE DEF x
  <2>1. QED
    BY <1>1, <1>2, <1>3 DEF SessionGrows
<1>5. store' = [store EXCEPT ![e] = [store[e] EXCEPT ![i] = x]]
  BY <1>1
<1> HIDE DEF x
<1>6. QED
  BY <1>4, <1>5, WriteGrows

LEMMA OpenGrows ==
    ASSUME TInv, TInv', SendInv, NEW w \in Workers, OpenSession(w)
    PROVE  StoreGrows
<1>1. CASE UNCHANGED store
  BY <1>1, GrowsAlike
<1>2. CASE store' = Opened(ev[w], ctx[w].idx)
  <2>1. PICK e \in Key, i \in Nat : e = ev[w] /\ i = ctx[w].idx
    BY DEF OpenSession, TInv, Working, SessionStages
  <2>2. i <= Len(store[e])
    <3>1. /\ i <= Len(rows[e]) /\ Len(rows[e]) <= Len(store[e])
          /\ Len(rows[e]) \in Nat /\ Len(store[e]) \in Nat
      BY <2>1, SequenceTypes DEF OpenSession, SendInv, RowsFollow, AtSession, SessionStages
    <3>2. QED
      BY <3>1
  <2>3. /\ \A f \in Key : f # e => store'[f] = store[f]
        /\ Len(store'[e]) = IF i = Len(store[e]) THEN i + 1 ELSE Len(store[e])
        /\ \A j \in 1..Len(store[e]) : /\ store'[e][j].msgs = store[e][j].msgs
                                       /\ store'[e][j].commits = store[e][j].commits
                                       /\ store'[e][j].task = store[e][j].task
                                       /\ store[e][j].exists => store'[e][j].exists
        /\ i = Len(store[e]) => store'[e][i + 1] = NewSession
    BY <1>2, <2>1, <2>2, OpenedAt
  <2>4. \A f \in Key : Len(store[f]) \in Nat
    BY SequenceTypes
  <2>5. \A j \in 1..Len(store[e]) : SessionGrows(store[e][j], store'[e][j])
    BY <2>3 DEF SessionGrows
  <2>6. ASSUME NEW j \in 1..Len(store'[e]), j \notin 1..Len(store[e])
        PROVE  store'[e][j] = NewSession
    <3>1. i = Len(store[e]) /\ j = i + 1
      BY <2>3, <2>4, <2>6
    <3>2. QED
      BY <3>1, <2>3
  <2>7. \A f \in Key : f # e => \A j \in 1..Len(store[f]) : SessionGrows(store[f][j], store'[f][j])
    BY <2>3 DEF SessionGrows
  <2>8. \A f \in Key : Len(store[f]) <= Len(store'[f])
    BY <2>3, <2>4
  <2>9. QED
    BY <2>3, <2>5, <2>6, <2>7, <2>8 DEF StoreGrows
<1>3. QED
  BY <1>1, <1>2 DEF OpenSession

LEMMA AppendGrows ==
    ASSUME TInv, NEW w \in Workers, AppendMessage(w)
    PROVE  StoreGrows
<1>1. PICK e \in Key, i \in Nat \ {0} : e = ev[w] /\ i = ctx[w].idx + 1
  BY DEF AppendMessage, TInv, Working, SessionStages
<1> DEFINE x == [store[e][i] EXCEPT !.msgs = @ + 1]
<1>2. UNCHANGED store \/ store' = [store EXCEPT ![e] = [store[e] EXCEPT ![i] = x]]
  BY <1>1 DEF AppendMessage
<1>3. ASSUME i <= Len(store[e]) PROVE SessionGrows(store[e][i], x)
  <2>1. i \in 1..Len(store[e])
    BY <1>3, SequenceTypes
  <2>2. store[e][i] \in ProviderSession
    BY <2>1, SequenceTypes
  <2>3. /\ x.msgs = store[e][i].msgs + 1 /\ x.exists = store[e][i].exists
        /\ x.commits = store[e][i].commits /\ x.task = store[e][i].task
        /\ store[e][i].msgs \in Nat
    BY <2>2, SessionCalls, SessionFields
  <2> HIDE DEF x
  <2>4. QED
    BY <2>3 DEF SessionGrows
<1> HIDE DEF x
<1>4. QED
  BY <1>2, <1>3, GrowsAlike, WriteGrows

LEMMA CommitGrows ==
    ASSUME TInv, ExportInv, NEW w \in Workers, CommitSession(w)
    PROVE  StoreGrows
<1>1. PICK e \in Key, i \in Nat \ {0} : e = ev[w] /\ i = ctx[w].idx + 1
  BY DEF CommitSession, TInv, Working, SessionStages
<1> DEFINE x == [store[e][i] EXCEPT !.commits = @ + 1, !.task = "pending"]
<1>2. UNCHANGED store \/ store' = [store EXCEPT ![e] = [store[e] EXCEPT ![i] = x]]
  BY <1>1 DEF CommitSession
<1>3. ASSUME i <= Len(store[e]), ~redacted[e] PROVE SessionGrows(store[e][i], x)
  <2>1. i \in 1..Len(store[e])
    BY <1>3, SequenceTypes
  <2>2. store[e][i] \in ProviderSession
    BY <2>1, SequenceTypes
  <2>3. /\ x.msgs = store[e][i].msgs /\ x.exists = store[e][i].exists
        /\ x.commits = store[e][i].commits + 1 /\ store[e][i].commits \in Nat
    BY <2>2, SessionCalls, SessionFields
  <2>4. store[e][i].msgs > 0
    BY <1>1, <1>3 DEF ExportInv, HasMessage, Messages, CommitSession
  <2> HIDE DEF x
  <2>5. x.commits > 0
    BY <2>3
  <2>6. QED
    BY <2>3, <2>4, <2>5 DEF SessionGrows
<1> HIDE DEF x
<1>4. QED
  BY <1>2, <1>3, GrowsAlike, WriteGrows

\* A deletion removes sessions of the memory it deletes, whose events have lost their payload.
LEMMA DeleteGrows ==
    ASSUME TInv, IInv, LifeInv, SendInv, ClearInv, ExportInv, NEW w \in Workers, DeleteSession(w)
    PROVE  StoreGrows
<1>1. /\ pc[w] = "delete" /\ ev[w] \in Key /\ Known(ev[w]) /\ ev[w].del /\ ctx[w] \in Context
      /\ \A s \in ctx[w].todo : s.key.mem = ev[w].mem
  <2>1. pc[w] = "delete" /\ pc[w] \in Busy
    BY DEF DeleteSession, Busy, Stages
  <2>2. QED
    BY <2>1 DEF IInv, ClaimsExist, Known, ClearInv, ListedIsAll, ExportInv, ListedIsOwn, TInv, TypeOK
<1>2. CASE UNCHANGED store
  BY <1>2, GrowsAlike
<1>3. ASSUME NEW s \in ctx[w].todo,
             store' = [store EXCEPT ![s.key][s.idx + 1] =
                           [@ EXCEPT !.exists = FALSE, !.msgs = 0, !.commits = 0]]
      PROVE  StoreGrows
  <2>1. s \in SessionId
    BY <1>1 DEF Context
  <2>2. PICK e \in Key, i \in Nat \ {0} : e = s.key /\ i = s.idx + 1
    BY <2>1 DEF SessionId
  <2> DEFINE x == [store[e][i] EXCEPT !.exists = FALSE, !.msgs = 0, !.commits = 0]
  <2>3. store' = [store EXCEPT ![e] = [store[e] EXCEPT ![i] = x]]
    BY <1>3, <2>2
  <2>4. ASSUME i <= Len(store[e]), ~e.del, ~redacted[e] PROVE FALSE
    <3>1. Len(store[e]) > 0
      BY <2>4, SequenceTypes
    <3>2. Known(e)
      BY <3>1 DEF SendInv, RowsFollow
    <3>3. e.mem = ev[w].mem /\ ev[w].mem \notin live
      BY <1>1, <2>2 DEF LifeInv, LiveHasUpserts
    <3>4. QED
      BY <2>4, <3>2, <3>3 DEF LifeInv, GoneIsRedacted
  <2> HIDE DEF x
  <2>5. QED
    BY <2>3, <2>4, WriteGrows
<1>4. QED
  BY <1>2, <1>3 DEF DeleteSession

LEMMA GrowSteps ==
    ASSUME TInv, IInv, LifeInv, SendInv, ClearInv, ExportInv, [Next]_vars
    PROVE  StoreGrows
<1>1. TInv'
  BY StepTypes
<1>2. ASSUME NEW w \in Workers,
             OpenSession(w) \/ AppendMessage(w) \/ CommitSession(w) \/ DeleteSession(w)
      PROVE  StoreGrows
  BY <1>1, <1>2, OpenGrows, AppendGrows, CommitGrows, DeleteGrows
<1>3. CASE Request \/ UNCHANGED vars
  BY <1>3, GrowsAlike DEF Request, Persist, DeleteRead, DeleteWrite, Replay, vars
<1>4. ASSUME NEW w \in Workers,
             \/ ClaimAny(w) \/ Crash(w)
             \/ /\ Step(w) /\ ~OpenSession(w) /\ ~AppendMessage(w)
                /\ ~CommitSession(w) /\ ~DeleteSession(w)
      PROVE  StoreGrows
  BY <1>4, GrowsAlike DEF ClaimAny, Claim, Crash, Step, BatchDone, Begin, Defer, Checkpoint, SessionKey,
     RecordSession, LatestTask, RecordSyncing, AwaitTask, ListSessions, CompleteRead,
     CompleteWrite, FailRead, FailWrite
<1>5. QED
  BY <1>2, <1>3, <1>4, TaskGrows DEF Next

\* Upserts without their payload stay so, and what was exported stays exported.
LEMMA GrowSound ==
    ASSUME TInv, TInv', Monotone, StoreGrows, Sound
    PROVE  /\ Sound'
           /\ \A e \in Key : ~e.del /\ ~redacted'[e] => ~redacted[e] /\ (Exported(e) => Exported(e)')
<1>1. \A e \in Key : /\ DOMAIN store[e] = 1..Len(store[e]) /\ DOMAIN store'[e] = 1..Len(store'[e])
                     /\ Len(store[e]) \in Nat /\ Len(store'[e]) \in Nat
                     /\ \A i \in 1..Len(store[e]) : store[e][i].commits \in Nat
                     /\ \A i \in 1..Len(store'[e]) : store'[e][i].commits \in Nat
  <2>1. \A e \in Key : /\ DOMAIN store'[e] = 1..Len(store'[e]) /\ Len(store'[e]) \in Nat
                       /\ \A i \in 1..Len(store'[e]) : store'[e][i] \in ProviderSession
    BY DEF TInv, TypeOK
  <2>2. QED
    BY <2>1, SequenceTypes, SessionFields
<1>2. \A e \in Key : ~redacted'[e] => ~redacted[e]
  BY DEF Monotone
<1>3. ASSUME NEW e \in Key, ~e.del, ~redacted[e], NEW i \in 1..Len(store'[e])
      PROVE  /\ store'[e][i].exists
             /\ store'[e][i].commits > 0 => store'[e][i].msgs > 0
             /\ store'[e][i].task # "none" => store'[e][i].commits > 0
  <2>1. CASE i \in 1..Len(store[e])
    <3>1. PICK x : x = store[e][i]
      OBVIOUS
    <3>2. PICK y : y = store'[e][i]
      OBVIOUS
    <3>3. SessionGrows(x, y)
      BY <1>3, <2>1, <3>1, <3>2 DEF StoreGrows
    <3>4. /\ x.exists
          /\ x.commits > 0 => x.msgs > 0
          /\ x.task # "none" => x.commits > 0
      BY <1>1, <1>3, <2>1, <3>1 DEF Sound
    <3>5. y.exists /\ (y.commits > 0 => y.msgs > 0) /\ (y.task # "none" => y.commits > 0)
      BY <3>3, <3>4 DEF SessionGrows
    <3>6. QED
      BY <3>2, <3>5
  <2>2. CASE i \notin 1..Len(store[e])
    <3>1. store'[e][i] = NewSession
      BY <1>3, <2>2 DEF StoreGrows
    <3>2. QED
      BY <3>1 DEF NewSession
  <2>3. QED
    BY <2>1, <2>2
<1>4. Sound'
  BY <1>1, <1>2, <1>3 DEF Sound
<1>5. ASSUME NEW e \in Key, ~e.del, ~redacted[e], Exported(e)
      PROVE  Exported(e)'
  <2>1. PICK i \in 1..Len(store[e]) :
            store[e][i].exists /\ store[e][i].msgs > 0 /\ store[e][i].commits > 0
    BY <1>1, <1>5 DEF Exported
  <2>2. SessionGrows(store[e][i], store'[e][i]) /\ i \in 1..Len(store'[e])
    BY <1>1, <1>5, <2>1 DEF StoreGrows
  <2>3. store'[e][i].exists /\ store'[e][i].msgs > 0 /\ store'[e][i].commits > 0
    BY <2>1, <2>2 DEF SessionGrows
  <2>4. QED
    BY <1>1, <2>2, <2>3 DEF Exported
<1>6. QED
  BY <1>2, <1>4, <1>5

\* A session in hand is one of the store.
LEMMA InStore ==
    ASSUME TInv, SendInv, NEW w \in Workers, pc[w] \in SessionStages \ {"open"}
    PROVE  /\ ev[w] \in Key /\ ctx[w].idx \in Nat /\ ctx[w].idx + 1 \in 1..Len(store[ev[w]])
           /\ ~ev[w].del
<1>1. ev[w] \in Key /\ ctx[w].idx \in Nat
  BY DEF TInv, Working, SessionStages
<1>2. ctx[w].idx < Len(store[ev[w]]) /\ ~ev[w].del
  BY DEF SendInv, AtSession, Talking
<1>3. Len(store[ev[w]]) \in Nat
  BY <1>1, SequenceTypes
<1>4. QED
  BY <1>1, <1>2, <1>3

LEMMA StepMessage ==
    ASSUME TInv, TInv', IInv, LifeInv, SendInv, SendInv', ClearInv, ExportInv,
           Monotone, [Next]_vars
    PROVE  HasMessage'
<1> DEFINE Sending == {"record", "latest", "append", "commit"}
<1> SUFFICES ASSUME NEW w \in Workers, pc'[w] \in Sending, ~redacted'[ev'[w]],
                    ctx'[w].used \/ pc'[w] = "commit"
             PROVE  store'[ev'[w]][ctx'[w].idx + 1].msgs > 0
  BY DEF HasMessage, Messages
<1>2. StoreGrows
  BY GrowSteps
<1>3. ev'[w] \in Key /\ ~redacted[ev'[w]]
  BY DEF TInv, Working, Monotone
\* The same session in hand as before, with its message.
<1>4. ASSUME pc[w] \in Sending, ev'[w] = ev[w], ctx'[w].idx = ctx[w].idx, ctx[w].used \/ pc[w] = "commit"
      PROVE  store'[ev'[w]][ctx'[w].idx + 1].msgs > 0
  <2>1. PICK e \in Key, i \in Nat : e = ev[w] /\ i = ctx[w].idx + 1
    BY <1>4, InStore DEF SessionStages
  <2>2. i \in 1..Len(store[e]) /\ ~e.del
    BY <1>4, <2>1, InStore DEF SessionStages
  <2>3. store[e][i].msgs > 0
    BY <1>3, <1>4, <2>1 DEF ExportInv, HasMessage, Messages
  <2>4. SessionGrows(store[e][i], store'[e][i])
    BY <1>2, <1>3, <1>4, <2>1, <2>2 DEF StoreGrows
  <2>5. QED
    BY <1>4, <2>1, <2>3, <2>4 DEF SessionGrows
<1>5. CASE Request \/ (\E e \in Key : TaskEnds(e)) \/ UNCHANGED vars
  <2>1. UNCHANGED <<pc, ev, ctx>>
    BY <1>5 DEF Request, Persist, DeleteRead, DeleteWrite, Replay, TaskEnds, TaskFinishes, vars, workerVars
  <2>2. QED
    BY <2>1, <1>4
<1>6. CASE \/ ClaimAny(w) \/ Crash(w)
           \/ Step(w) /\ ~OpenSession(w) /\ ~RecordSession(w) /\ ~LatestTask(w) /\ ~AppendMessage(w)
  <2>1. w \in DOMAIN pc
    BY DEF TInv, TypeOK
  <2>2. pc'[w] \notin Sending
    BY <1>6, <2>1 DEF ClaimAny, Claim, Crash, Step, BatchDone, Begin, Defer, Checkpoint, SessionKey,
       CommitSession, RecordSyncing, AwaitTask, ListSessions, DeleteSession, CompleteRead,
       CompleteWrite, FailRead, FailWrite, Goto, Leave, CallFails
  <2>3. QED
    BY <2>2
<1>7. CASE RecordSession(w) \/ LatestTask(w)
  <2>1. /\ pc[w] \in {"record", "latest"} /\ ev' = ev
        /\ pc'[w] \in {"fail", "syncing"} \/ ctx' = ctx
        /\ pc'[w] # "commit"
    BY <1>7 DEF RecordSession, LatestTask, Goto, CallFails, InProcess, TInv, TypeOK
  <2>2. QED
    BY <2>1, <1>4
<1>8. CASE AppendMessage(w)
  <2>1. /\ pc[w] = "append" /\ ev' = ev /\ ctx' = ctx
        /\ pc'[w] = "commit"
    BY <1>8 DEF AppendMessage, Goto, CallFails, InProcess, TInv, TypeOK
  <2>2. CASE ctx[w].used
    BY <2>1, <2>2, <1>4
  <2>3. CASE ~ctx[w].used
    <3>1. PICK e \in Key, i \in Nat \ {0} : e = ev[w] /\ i = ctx[w].idx + 1
      BY <1>8 DEF AppendMessage, TInv, Working, SessionStages
    <3> DEFINE x == [store[e][i] EXCEPT !.msgs = @ + 1]
    <3>2. store' = [store EXCEPT ![e] = [store[e] EXCEPT ![i] = x]]
      BY <1>8, <2>1, <2>3, <3>1 DEF AppendMessage, CallFails, Goto, TInv, TypeOK
    <3>3. i \in 1..Len(store[e])
      BY <2>1, <3>1, InStore DEF SessionStages
    <3>4. x.msgs > 0
      <4>1. store[e][i] \in ProviderSession
        BY <3>3, SequenceTypes
      <4>2. x.msgs = store[e][i].msgs + 1 /\ store[e][i].msgs \in Nat
        BY <4>1, SessionCalls, SessionFields
      <4>3. QED
        BY <4>2
    <3>5. i <= Len(store[e])
      BY <3>3, SequenceTypes
    <3> HIDE DEF x
    <3>6. store'[e][i] = x
      BY <3>2, <3>5, WriteAt, Zenon
    <3>7. QED
      BY <2>1, <3>1, <3>4, <3>6
  <2>4. QED
    BY <2>2, <2>3
<1>9. CASE OpenSession(w)
  <2>1. PICK e \in Key, i \in Nat : e = ev[w] /\ i = ctx[w].idx
    BY <1>9 DEF OpenSession, TInv, Working, SessionStages
  <2> DEFINE s == Opened(e, i)[e][i + 1]
  <2>2. /\ ev' = ev /\ pc'[w] = "record" /\ store' = Opened(e, i)
        /\ ctx' = [ctx EXCEPT ![w].used = s.msgs > 0 \/ s.commits > 0, ![w].committed = s.commits > 0]
    BY <1>9, <2>1 DEF OpenSession, CallFails, Goto, InProcess, TInv, TypeOK
  <2>3. ctx'[w].idx = i /\ (ctx'[w].used <=> s.msgs > 0 \/ s.commits > 0)
    BY <2>1, <2>2 DEF TInv, TypeOK, Context
  <2>4. s.msgs > 0 \/ s.commits > 0
    BY <2>2, <2>3
  <2>5. s = store'[e][i + 1]
    BY <2>2
  <2>6. i + 1 \in DOMAIN store'[e] /\ ~e.del
    <3>1. ctx'[w].idx < Len(store'[ev'[w]]) /\ ~ev'[w].del
      BY <2>2 DEF SendInv, AtSession, SessionStages, Talking
    <3>2. i < Len(store'[e])
      <4>1. ev'[w] = e /\ ctx'[w].idx = i
        BY <2>1, <2>2, <2>3
      <4>2. QED
        BY <3>1, <4>1, Zenon
    <3>4. DOMAIN store'[e] = 1..Len(store'[e]) /\ Len(store'[e]) \in Nat
      BY DEF TInv, TypeOK
    <3>3. QED
      BY <2>1, <2>2, <3>1, <3>2, <3>4
  <2>7. s.commits > 0 => s.msgs > 0
    <3>1. Sound'
      BY <1>2, GrowSound DEF ExportInv
    <3>2. ~redacted'[e]
      BY <2>1, <2>2
    <3> HIDE DEF s
    <3>3. QED
      BY <2>5, <2>6, <3>1, <3>2 DEF Sound
  <2>8. QED
    BY <2>1, <2>2, <2>3, <2>4, <2>5, <2>7
<1>1. ASSUME NEW v \in Workers \ {w}, ClaimAny(v) \/ Step(v) \/ Crash(v)
      PROVE  store'[ev'[w]][ctx'[w].idx + 1].msgs > 0
  BY <1>1, <1>4, OthersStay DEF Stays
<1>10. QED
  BY <1>1, <1>5, <1>6, <1>7, <1>8, <1>9 DEF Next


\* A task that is known keeps its upsert.
LEMMA TaskStays ==
    ASSUME TInv, TInv', StoreGrows, Monotone, NEW t, NEW m, NEW v, NEW u, TaskOf(t, m, v),
           v \in Nat, u \in Nat, v <= u
    PROVE  TaskOf(t, m, u)'
<1>1. PICK e \in Key, i \in Nat : e = t.key /\ i = t.idx
  BY DEF TaskOf, EventsOf
<1>2. e \in EventsOf(m) /\ ~e.del /\ e.ver <= v /\ status[e] # "absent" /\ i < Len(store[e])
  BY <1>1 DEF TaskOf, Known
<1>3. e.ver \in Nat /\ Len(store[e]) \in Nat /\ Len(store[e]) <= Len(store'[e]) /\ Len(store'[e]) \in Nat
  BY KeyFields, SequenceTypes DEF StoreGrows, TInv, TypeOK
<1>4. e.ver <= u /\ i < Len(store'[e])
  BY <1>2, <1>3
<1>5. status'[e] # "absent"
  BY <1>2 DEF Monotone
<1>6. QED
  BY <1>1, <1>2, <1>4, <1>5 DEF TaskOf, Known, EventsOf

\* Where the synchronisation state and the worker have their task from.
SyncTask(m) ==
    sync'[m].task # None =>
        \/ sync'[m].task = sync[m].task /\ sync[m].ver <= sync'[m].ver
        \/ \E w \in Workers : /\ pc[w] \in Busy /\ m = ev[w].mem
                              /\ sync'[m].task = ctx[w].task /\ sync'[m].ver = ev[w].ver
WorkerTask(w) ==
    /\ ctx'[w].task # None =>
          /\ pc'[w] \in Busy /\ pc[w] \in Busy /\ ev'[w] = ev[w]
          /\ \/ ctx'[w].task = ctx[w].task
             \/ ctx'[w].task = sync[ev[w].mem].task /\ sync[ev[w].mem].ver = ev[w].ver
             \/ pc[w] \in {"latest", "commit"} /\ ctx'[w].task = Session(ev[w], ctx[w].idx)
    /\ pc'[w] \in {"syncing", "await"} => ctx'[w].task # None

LEMMA TasksStay ==
    ASSUME TInv, TInv', IInv, SendInv, ExportInv, StoreGrows, Monotone,
           \A m \in Memories : SyncTask(m), \A w \in Workers : WorkerTask(w)
    PROVE  TasksAreOwn'
<1>1. /\ \A m \in Memories : sync[m].ver \in Nat /\ sync'[m].ver \in Nat
      /\ \A e \in Key : e.ver \in Nat /\ e.mem \in Memories
  BY KeyFields DEF TInv, TypeOK, SyncState
<1>2. \A w \in Workers : pc[w] \in Busy => ev[w] \in Key /\ Known(ev[w])
  BY DEF IInv, ClaimsExist, Known
<1>3. ASSUME NEW m \in Memories, NEW t, t = sync'[m].task, t # None, NEW v, v = sync'[m].ver
      PROVE  TaskOf(t, m, v)'
  <2>1. CASE t = sync[m].task /\ sync[m].ver <= sync'[m].ver
    <3>1. PICK u \in Nat : u = sync[m].ver
      BY <1>1
    <3>2. TaskOf(t, m, u)
      BY <1>3, <2>1, <3>1 DEF ExportInv, TasksAreOwn
    <3>3. QED
      BY <1>1, <1>3, <2>1, <3>1, <3>2, TaskStays
  <2>2. ASSUME NEW w \in Workers, pc[w] \in Busy, m = ev[w].mem, t = ctx[w].task, sync'[m].ver = ev[w].ver
        PROVE  TaskOf(t, m, v)'
    <3>1. TaskOf(t, m, v)
      BY <1>3, <2>2 DEF ExportInv, TasksAreOwn
    <3>2. QED
      BY <1>1, <1>3, <3>1, TaskStays
  <2>3. SyncTask(m)
    OBVIOUS
  <2>4. QED
    BY <1>3, <2>1, <2>2, <2>3 DEF SyncTask
<1>4. ASSUME NEW w \in Workers, NEW t, t = ctx'[w].task, t # None, NEW e, e = ev'[w]
      PROVE  pc'[w] \in Busy /\ TaskOf(t, e.mem, e.ver)'
  <2>1. /\ pc'[w] \in Busy /\ pc[w] \in Busy /\ e = ev[w]
        /\ \/ t = ctx[w].task
           \/ t = sync[e.mem].task /\ sync[e.mem].ver = e.ver
           \/ pc[w] \in {"latest", "commit"} /\ t = Session(e, ctx[w].idx)
    <3>1. WorkerTask(w)
      OBVIOUS
    <3>2. QED
      BY <1>4, <3>1 DEF WorkerTask
  <2>2. e \in Key /\ Known(e) /\ e.ver \in Nat /\ e.mem \in Memories
    BY <1>1, <1>2, <2>1
  <2>3. TaskOf(t, e.mem, e.ver)
    <3>1. CASE t = ctx[w].task
      BY <1>4, <2>1, <3>1 DEF ExportInv, TasksAreOwn
    <3>2. CASE t = sync[e.mem].task /\ sync[e.mem].ver = e.ver
      BY <1>4, <2>2, <3>2 DEF ExportInv, TasksAreOwn
    <3>3. CASE pc[w] \in {"latest", "commit"} /\ t = Session(e, ctx[w].idx)
      <4>1. ctx[w].idx \in Nat /\ ctx[w].idx < Len(store[e]) /\ ~e.del
        BY <2>1, <3>3 DEF TInv, Working, SendInv, AtSession, SessionStages, Talking
      <4>2. t.key = e /\ t.idx = ctx[w].idx
        BY <3>3 DEF Session
      <4>3. QED
        BY <2>2, <4>1, <4>2 DEF TaskOf, EventsOf
    <3>4. QED
      BY <2>1, <3>1, <3>2, <3>3
  <2>4. QED
    BY <2>1, <2>2, <2>3, TaskStays
<1>5. QED
  <2>1. ASSUME NEW m \in Memories, sync'[m].task # None
        PROVE  /\ sync'[m].task.key \in EventsOf(m) /\ ~sync'[m].task.key.del
               /\ sync'[m].task.key.ver <= sync'[m].ver /\ status'[sync'[m].task.key] # "absent"
               /\ sync'[m].task.idx \in Nat /\ sync'[m].task.idx < Len(store'[sync'[m].task.key])
    <3>1. PICK t, v : t = sync'[m].task /\ v = sync'[m].ver
      OBVIOUS
    <3>2. QED
      BY <1>3, <2>1, <3>1 DEF TaskOf, Known, EventsOf
  <2>2. ASSUME NEW w \in Workers, ctx'[w].task # None
        PROVE  /\ pc'[w] \in Busy
               /\ ctx'[w].task.key \in EventsOf(ev'[w].mem) /\ ~ctx'[w].task.key.del
               /\ ctx'[w].task.key.ver <= ev'[w].ver /\ status'[ctx'[w].task.key] # "absent"
               /\ ctx'[w].task.idx \in Nat /\ ctx'[w].task.idx < Len(store'[ctx'[w].task.key])
    <3>1. PICK t, e : t = ctx'[w].task /\ e = ev'[w]
      OBVIOUS
    <3>2. QED
      BY <1>4, <2>2, <3>1 DEF TaskOf, Known, EventsOf
  <2>3. QED
    BY <2>1, <2>2 DEF TasksAreOwn, TaskOf, WorkerTask, Known, EventsOf

LEMMA SyncTasks ==
    ASSUME TInv, IInv, ExportInv, [Next]_vars
    PROVE  \A m \in Memories : SyncTask(m)
<1>1. /\ \A m \in Memories : sync[m] \in SyncState /\ sync[m].ver \in Nat
      /\ \A e \in Key : e.ver \in Nat /\ e.mem \in Memories
  BY KeyFields DEF TInv, TypeOK, SyncState
<1>2. ASSUME NEW m \in Memories, sync'[m] = sync[m]
      PROVE  SyncTask(m)
  BY <1>1, <1>2 DEF SyncTask
\* The state of one memory is written.
<1>3. ASSUME NEW e \in Key, NEW x, sync' = [sync EXCEPT ![e.mem] = x],
             \/ x.task = None
             \/ x.task = sync[e.mem].task /\ sync[e.mem].ver <= x.ver
             \/ \E w \in Workers : /\ pc[w] \in Busy /\ e.mem = ev[w].mem
                                   /\ x.task = ctx[w].task /\ x.ver = ev[w].ver
      PROVE  \A m \in Memories : SyncTask(m)
  <2>1. sync'[e.mem] = x /\ \A m \in Memories : m # e.mem => sync'[m] = sync[m]
    BY <1>1, <1>3 DEF TInv, TypeOK
  <2>2. SyncTask(e.mem)
    BY <1>3, <2>1 DEF SyncTask
  <2>3. QED
    BY <1>2, <2>1, <2>2
<1>4. ASSUME NEW e \in Key, Replay(e)
      PROVE  \A m \in Memories : SyncTask(m)
  <2>1. sync' = sync \/ sync' = [sync EXCEPT ![e.mem] =
                              [@ EXCEPT !.status = "pending", !.sess = None, !.task = None]]
    BY <1>4 DEF Replay
  <2>2. PICK s \in SyncState : s = sync[e.mem]
    BY <1>1
  <2>3. PICK t : t = [s EXCEPT !.status = "pending", !.sess = None, !.task = None] /\ t.task = None
    BY ResetState
  <2>4. sync' = sync \/ sync' = [sync EXCEPT ![e.mem] = t]
    BY <2>1, <2>2, <2>3
  <2>5. QED
    BY <2>3, <2>4, <1>2, <1>3
<1>5. ASSUME NEW w \in Workers, RecordSyncing(w)
      PROVE  \A m \in Memories : SyncTask(m)
  <2>1. PICK e \in Key : e = ev[w] /\ pc[w] \in Busy
    BY <1>5 DEF RecordSyncing, TInv, Working, Busy, Stages
  <2> DEFINE x == [ver |-> e.ver, status |-> "syncing", task |-> ctx[w].task,
                   sess |-> Session(e, ctx[w].idx), key |-> e]
  <2>2. sync' = [sync EXCEPT ![e.mem] = x]
    BY <1>5, <2>1 DEF RecordSyncing
  <2>3. x.task = ctx[w].task /\ x.ver = ev[w].ver
    BY <2>1
  <2> HIDE DEF x
  <2>4. QED
    BY <2>1, <2>2, <2>3, <1>3
<1>6. ASSUME NEW w \in Workers, CompleteWrite(w)
      PROVE  \A m \in Memories : SyncTask(m)
  <2>1. PICK e \in Key : e = ev[w] /\ pc[w] \in Busy
    BY <1>6 DEF CompleteWrite, TInv, Working, Busy, Stages
  <2> DEFINE x == CompletedSync(w)
  <2>2. sync' = [sync EXCEPT ![e.mem] = x]
    BY <1>6, <2>1 DEF CompleteWrite
  <2>3. \/ x.task = None
        \/ x.task = sync[e.mem].task /\ sync[e.mem].ver <= x.ver
        \/ x.task = ctx[w].task /\ x.ver = ev[w].ver
    BY <1>1, <2>1 DEF CompletedSync
  <2> HIDE DEF x
  <2>4. QED
    BY <2>1, <2>2, <2>3, <1>3
<1>7. ASSUME NEW w \in Workers, FailWrite(w)
      PROVE  \A m \in Memories : SyncTask(m)
  <2>1. PICK e \in Key : e = ev[w]
    BY <1>7 DEF FailWrite, TInv, Working
  <2> DEFINE s == sync[e.mem]
             last == attempts[e] + 1 >= MaxAttempts
             x == [ver |-> e.ver, key |-> e, task |-> s.task,
                   status |-> IF last THEN "dead_letter" ELSE "failed",
                   sess |-> IF s.status = "none" /\ Len(rows[e]) > 0 THEN Session(e, 0) ELSE s.sess]
  <2>2. sync' = IF s.ver > e.ver THEN sync ELSE [sync EXCEPT ![e.mem] = x]
    BY <1>7, <2>1 DEF FailWrite
  <2>3. x.task = s.task /\ x.ver = e.ver
    OBVIOUS
  <2> HIDE DEF x
  <2>4. ~(s.ver > e.ver) => s.ver <= x.ver
    BY <1>1, <2>3
  <2>5. QED
    BY <2>2, <2>3, <2>4, <1>2, <1>3
<1>8. ASSUME \/ \E m \in Memories : Persist(m) \/ DeleteRead(m) \/ DeleteWrite(m)
             \/ (\E e \in Key : TaskEnds(e)) \/ UNCHANGED vars
             \/ \E w \in Workers : ClaimAny(w) \/ Crash(w)
             \/ \E w \in Workers : /\ Step(w) /\ ~RecordSyncing(w) /\ ~CompleteWrite(w)
                                   /\ ~FailWrite(w)
      PROVE  UNCHANGED sync
  BY <1>8 DEF Persist, DeleteRead, DeleteWrite, TaskEnds, TaskFinishes, vars, ClaimAny, Claim, Crash, Step,
     BatchDone, Begin, Defer, Checkpoint, SessionKey, OpenSession, RecordSession, LatestTask,
     AppendMessage, CommitSession, AwaitTask, ListSessions, DeleteSession, CompleteRead, FailRead
<1>9. QED
  BY <1>2, <1>4, <1>5, <1>6, <1>7, <1>8 DEF Next, Request

LEMMA WorkerTasks ==
    ASSUME TInv, IInv, ExportInv, [Next]_vars
    PROVE  \A w \in Workers : WorkerTask(w)
<1> SUFFICES ASSUME NEW w \in Workers PROVE WorkerTask(w)
  OBVIOUS
<1>1. /\ w \in DOMAIN pc /\ w \in DOMAIN ev /\ w \in DOMAIN ctx /\ ctx[w] \in Context
      /\ NoContext.task = None
  BY DEF TInv, TypeOK, NoContext
<1>2. /\ ctx[w].task # None => pc[w] \in Busy
      /\ pc[w] \in {"syncing", "await"} => ctx[w].task # None
  BY DEF ExportInv, TasksAreOwn
<1>3. CASE Request \/ (\E e \in Key : TaskEnds(e)) \/ UNCHANGED vars
  <2>1. UNCHANGED <<pc, ev, ctx>>
    BY <1>3 DEF Request, Persist, DeleteRead, DeleteWrite, Replay, TaskEnds, TaskFinishes, vars, workerVars
  <2>2. QED
    BY <2>1, <1>2 DEF WorkerTask
<1>4. CASE \/ ClaimAny(w) \/ BatchDone(w) \/ Crash(w) \/ (\E e \in queue[w] : Begin(w, e))
           \/ Defer(w) \/ CompleteWrite(w) \/ FailWrite(w)
  <2>1. ctx'[w].task = None
    <3>1. CASE ClaimAny(w) \/ BatchDone(w) \/ \E e \in queue[w] : Begin(w, e)
      <4>1. pc[w] \notin Busy /\ ctx' = ctx
        BY <3>1 DEF ClaimAny, Claim, BatchDone, Begin, Busy, Stages
      <4>2. QED
        BY <4>1, <1>2
    <3>2. CASE Crash(w) \/ Defer(w) \/ CompleteWrite(w) \/ FailWrite(w)
      BY <3>2, <1>1 DEF Crash, Defer, CompleteWrite, FailWrite, Leave
    <3>3. QED
      BY <3>1, <3>2, <1>4
  <2>2. pc'[w] \notin {"syncing", "await"}
    BY <1>1, <1>4 DEF ClaimAny, Claim, BatchDone, Crash, Begin, Defer, CompleteWrite, FailWrite, Leave, Goto
  <2>3. QED
    BY <2>1, <2>2 DEF WorkerTask
\* The worker stays with its event, and with its task.
<1>5. ASSUME pc[w] \in Busy, pc'[w] \in Busy, ev'[w] = ev[w], ctx'[w].task = ctx[w].task,
             pc'[w] \in {"syncing", "await"} => pc[w] = "syncing" \/ ctx[w].task # None
      PROVE  WorkerTask(w)
  BY <1>2, <1>5 DEF WorkerTask
<1>6. CASE CompleteRead(w) \/ FailRead(w)
  <2>1. \/ pc[w] \in Busy /\ pc'[w] \in Busy \ {"syncing", "await"} /\ ev' = ev /\ ctx' = ctx
        \/ pc'[w] = "next" /\ ctx'[w] = NoContext
    BY <1>1, <1>6 DEF CompleteRead, FailRead, Leave, Goto, InProcess, Busy, Stages
  <2>2. QED
    BY <2>1, <1>1, <1>5 DEF WorkerTask
<1>7. CASE \/ RecordSession(w) \/ AppendMessage(w) \/ RecordSyncing(w) \/ AwaitTask(w)
  <2>1. /\ pc[w] \in Busy /\ pc'[w] \in Busy /\ ev' = ev /\ ctx' = ctx
        /\ pc'[w] \in {"syncing", "await"} => pc[w] = "syncing" \/ ctx[w].task # None
    BY <1>1, <1>7 DEF RecordSession, AppendMessage, RecordSyncing, AwaitTask, Goto, InProcess,
       CallFails, Busy, Stages
  <2>2. QED
    BY <2>1, <1>5
<1>8. CASE SessionKey(w) \/ OpenSession(w) \/ ListSessions(w) \/ DeleteSession(w)
  <2>1. /\ pc[w] \in Busy /\ pc'[w] \in Busy \ {"syncing", "await"} /\ ev' = ev
    BY <1>1, <1>8 DEF SessionKey, OpenSession, ListSessions, DeleteSession, Goto, InProcess, CallFails,
       Busy, Stages
  <2>2. ctx'[w].task = ctx[w].task
    <3>1. /\ \A i : ctx' = [ctx EXCEPT ![w].idx = i] => ctx'[w].task = ctx[w].task
          /\ \A x : ctx' = [ctx EXCEPT ![w].todo = x] => ctx'[w].task = ctx[w].task
          /\ \A u, c : ctx' = [ctx EXCEPT ![w].used = u, ![w].committed = c] => ctx'[w].task = ctx[w].task
      BY <1>1 DEF Context
    <3>2. CASE SessionKey(w)
      BY <3>1, <3>2 DEF SessionKey
    <3>3. CASE OpenSession(w)
      <4> DEFINE s == Opened(ev[w], ctx[w].idx)[ev[w]][ctx[w].idx + 1]
                 u == s.msgs > 0 \/ s.commits > 0
                 c == s.commits > 0
      <4>1. ctx' = ctx \/ ctx' = [ctx EXCEPT ![w].used = u, ![w].committed = c]
        BY <3>3 DEF OpenSession, CallFails
      <4> HIDE DEF u, c
      <4>2. QED
        BY <3>1, <4>1
    <3>4. CASE ListSessions(w)
      <4> DEFINE x == UNION {{Session(e, i) : i \in {j \in 0..(Len(rows[e]) - 1) :
                                                     rows[e][j + 1] # "deleted"}}
                             : e \in EventsOf(ev[w].mem)}
      <4>1. ctx' = [ctx EXCEPT ![w].todo = x]
        BY <3>4 DEF ListSessions
      <4> HIDE DEF x
      <4>2. QED
        BY <3>1, <4>1
    <3>5. CASE DeleteSession(w)
      <4>1. ctx' = ctx \/ \E s \in ctx[w].todo : ctx' = [ctx EXCEPT ![w].todo = ctx[w].todo \ {s}]
        BY <3>5 DEF DeleteSession, CallFails
      <4>2. QED
        BY <3>1, <4>1
    <3>6. QED
      BY <1>8, <3>2, <3>3, <3>4, <3>5
  <2>3. QED
    BY <2>1, <2>2, <1>5
<1>9. CASE Checkpoint(w) \/ LatestTask(w) \/ CommitSession(w)
  <2> DEFINE s == sync[ev[w].mem]
             u == Session(ev[w], ctx[w].idx)
  <2>1. /\ pc[w] \in Busy /\ pc'[w] \in Busy \ {"await"} /\ ev' = ev
        /\ pc'[w] = "syncing" => pc[w] \in {"latest", "commit"} /\ ctx' = [ctx EXCEPT ![w].task = u]
        /\ \/ ctx' = ctx
           \/ ctx' = [ctx EXCEPT ![w].task = u] /\ pc[w] \in {"latest", "commit"}
           \/ ctx' = [ctx EXCEPT ![w].task = s.task] /\ s.ver = ev[w].ver
           \/ ctx' = [ctx EXCEPT ![w].task = None]
    BY <1>1, <1>9 DEF Checkpoint, LatestTask, CommitSession, Goto, InProcess, CallFails, Busy, Stages
  <2>2. pc'[w] = "syncing" => u # None
    <3>1. SUFFICES ASSUME pc'[w] = "syncing" PROVE u \in SessionId
      BY ConstantsAssumption
    <3>2. ev[w] \in Key /\ ctx[w].idx \in Nat
      BY <2>1, <3>1 DEF TInv, Working, SessionStages
    <3>3. QED
      BY <3>2 DEF SessionId, Session
  <2> HIDE DEF s, u
  <2>3. \A t : ctx' = [ctx EXCEPT ![w].task = t] => ctx'[w].task = t
    BY <1>1 DEF Context
  <2>4. QED
    BY <2>1, <2>2, <2>3, <1>2 DEF WorkerTask, s, u
<1>10. ASSUME NEW v \in Workers \ {w}, ClaimAny(v) \/ Step(v) \/ Crash(v)
       PROVE  WorkerTask(w)
  BY <1>2, <1>10, OthersStay DEF Stays, WorkerTask
<1>11. QED
  BY <1>10, <1>3, <1>4, <1>6, <1>7, <1>8, <1>9 DEF Next, Step

LEMMA StepListed ==
    ASSUME TInv, IInv, ExportInv, [Next]_vars
    PROVE  ListedIsOwn'
<1> SUFFICES ASSUME NEW w \in Workers, pc'[w] = "delete", NEW s \in ctx'[w].todo
             PROVE  s.key.mem = ev'[w].mem
  BY DEF ListedIsOwn
<1>1. /\ w \in DOMAIN pc /\ w \in DOMAIN ctx /\ ctx[w] \in Context
  BY DEF TInv, TypeOK
<1>2. ASSUME pc[w] = "delete", ev'[w] = ev[w], ctx'[w].todo \subseteq ctx[w].todo
      PROVE  s.key.mem = ev'[w].mem
  BY <1>2 DEF ExportInv, ListedIsOwn
<1>3. CASE Request \/ (\E e \in Key : TaskEnds(e)) \/ UNCHANGED vars
  <2>1. UNCHANGED <<pc, ev, ctx>>
    BY <1>3 DEF Request, Persist, DeleteRead, DeleteWrite, Replay, TaskEnds, TaskFinishes, vars, workerVars
  <2>2. QED
    BY <2>1, <1>2
<1>4. CASE ClaimAny(w) \/ Crash(w) \/ (Step(w) /\ ~ListSessions(w) /\ ~DeleteSession(w))
  <2>1. pc'[w] # "delete"
    BY <1>1, <1>4 DEF ClaimAny, Claim, Crash, Step, BatchDone, Begin, Defer, Checkpoint, SessionKey,
       OpenSession, RecordSession, LatestTask, AppendMessage, CommitSession, RecordSyncing, AwaitTask,
       CompleteRead, CompleteWrite, FailRead, FailWrite, Goto, Leave, CallFails
  <2>2. QED
    BY <2>1
<1>5. CASE ListSessions(w)
  <2> DEFINE Undeleted(e) == {i \in 0..(Len(rows[e]) - 1) : rows[e][i + 1] # "deleted"}
             listed == UNION {{Session(e, i) : i \in Undeleted(e)} : e \in EventsOf(ev[w].mem)}
  <2>1. ctx' = [ctx EXCEPT ![w].todo = listed] /\ ev' = ev
    BY <1>5 DEF ListSessions, InProcess
  <2>2. \A x : x \in listed => x.key.mem = ev[w].mem
    <3> SUFFICES ASSUME NEW e \in EventsOf(ev[w].mem), NEW i \in Undeleted(e), NEW x, x = Session(e, i)
                 PROVE  x.key.mem = ev[w].mem
      OBVIOUS
    <3>1. x.key = e
      BY DEF Session
    <3>2. QED
      BY <3>1 DEF EventsOf
  <2> HIDE DEF listed
  <2>3. ctx'[w].todo = listed
    BY <1>1, <2>1 DEF Context
  <2>4. QED
    BY <2>1, <2>2, <2>3
<1>6. CASE DeleteSession(w)
  <2>1. pc[w] = "delete" /\ ev' = ev
    BY <1>6 DEF DeleteSession, InProcess
  <2>2. ctx' = ctx \/ \E r \in ctx[w].todo : ctx' = [ctx EXCEPT ![w].todo = ctx[w].todo \ {r}]
    BY <1>6 DEF DeleteSession, CallFails
  <2>3. \A x : ctx' = [ctx EXCEPT ![w].todo = x] => ctx'[w].todo = x
    BY <1>1 DEF Context
  <2>4. QED
    BY <2>1, <2>2, <2>3, <1>2
<1>7. ASSUME NEW v \in Workers \ {w}, ClaimAny(v) \/ Step(v) \/ Crash(v)
      PROVE  s.key.mem = ev'[w].mem
  BY <1>2, <1>7, OthersStay DEF Stays
<1>8. QED
  BY <1>7, <1>3, <1>4, <1>5, <1>6 DEF Next

\* The first version of a memory is not found to be synchronised already: it is the one in hand.
LEMMA FirstIsNotPassed ==
    ASSUME TInv, IInv, LifeInv, OrderInv, SyncedIsItsKey, NEW w \in Workers, Checkpoint(w), First(ev[w])
    PROVE  pc'[w] # "complete"
<1>1. PICK e \in Key : e = ev[w] /\ Known(e) /\ Takes(w, e)
  BY DEF Checkpoint, IInv, ClaimsExist, Busy, Stages, Known, Takes
<1>2. PICK s \in SyncState : s = sync[e.mem] /\ s.ver <= e.ver /\ status[e] # "completed"
  BY <1>1, KeyFields DEF OrderInv, TakenIsNext, TInv, TypeOK
<1>3. s.ver \in Nat /\ e.ver \in Nat
  BY KeyFields DEF SyncState
<1> SUFFICES ASSUME s.ver = e.ver, s.status = "completed" PROVE FALSE
  BY <1>1, <1>2, <1>3 DEF Checkpoint, Goto, TInv, TypeOK
<1>4. PICK k \in Key : /\ k = s.key /\ k.mem = e.mem /\ k.ver = e.ver
                       /\ status[k] = "completed" \/ (status[k] = "cancelled" /\ redacted[k])
  BY <1>2, KeyFields DEF SyncedIsItsKey, EventsOf, CancelledByDeletion
<1>5. CASE ~k.del
  <2>1. k = e
    BY <1>1, <1>4, <1>5 DEF Key, First
  <2>2. QED
    BY <1>1, <1>2, <1>4, <2>1 DEF First
<1>6. CASE k.del
  <2>1. e = k \/ e.ver < k.ver
    BY <1>1, <1>4, <1>6 DEF LifeInv, DeletionIsLast, Known
  <2>2. QED
    BY <1>1, <1>3, <1>4, <1>6, <2>1 DEF First
<1>7. QED
  BY <1>5, <1>6

\* The task of the first version is its own, and done only after its message was committed.
LEMMA FirstIsExported ==
    ASSUME TInv, IInv, ExportInv, NEW w \in Workers, AwaitTask(w), pc'[w] = "complete", First(ev[w])
    PROVE  Exported(ev[w])
<1>1. PICK e \in Key : e = ev[w] /\ pc[w] = "await"
  BY DEF AwaitTask, TInv, Working
<1>2. PICK t : t = ctx[w].task
  OBVIOUS
<1>3. TaskOf(t, e.mem, e.ver)
  BY <1>1, <1>2 DEF ExportInv, TasksAreOwn
<1>4. PICK k \in Key, i \in Nat : /\ k = t.key /\ i = t.idx /\ k.mem = e.mem /\ ~k.del /\ k.ver <= e.ver
                                  /\ Known(k) /\ i < Len(store[k])
  BY <1>3 DEF TaskOf, EventsOf
<1>5. k = e
  <2>1. k \notin Predecessors(e)
    BY <1>1, <1>4 DEF First
  <2>2. k.ver = e.ver
    BY <2>1, <1>4, KeyFields DEF Predecessors
  <2>3. QED
    BY <1>1, <1>4, <2>2 DEF Key, First
<1>6. store[e][i + 1].task = "done"
  <2>1. w \in DOMAIN pc
    BY DEF TInv, TypeOK
  <2>2. QED
    BY <1>1, <1>2, <1>4, <1>5, <2>1 DEF AwaitTask, Goto
<1>7. i + 1 \in DOMAIN store[e]
  BY <1>4, <1>5, SequenceTypes
<1>8. /\ store[e][i + 1].exists /\ store[e][i + 1].commits > 0 /\ store[e][i + 1].msgs > 0
  BY <1>1, <1>6, <1>7 DEF ExportInv, Sound, First
<1>9. QED
  BY <1>1, <1>7, <1>8 DEF Exported

LEMMA StepCompletes ==
    ASSUME TInv, TInv', IInv, LifeInv, OrderInv, SyncedIsItsKey, SendInv, ClearInv,
           ExportInv, Monotone, StoreGrows, [Next]_vars
    PROVE  CompletesExported' /\ FirstVersionExported'
<1>1. \A e \in Key : First(e)' => First(e)
  BY DEF First, Monotone, Known, Predecessors
<1>2. \A e \in Key : First(e)' /\ Exported(e) => Exported(e)'
  BY GrowSound DEF ExportInv, First
<1>3. ASSUME NEW w \in Workers, pc'[w] \in {"complete", "completing"}, NEW e \in Key, e = ev'[w], First(e)'
      PROVE  Exported(e)'
  <2>1. /\ w \in DOMAIN pc /\ w \in DOMAIN ev
    BY DEF TInv, TypeOK
  <2>2. First(e)
    BY <1>1, <1>3
  <2>3. ASSUME pc[w] \in {"complete", "completing"}, ev'[w] = ev[w]
        PROVE  Exported(e)'
    BY <1>2, <1>3, <2>2, <2>3 DEF ExportInv, CompletesExported
  <2>4. CASE Request \/ (\E f \in Key : TaskEnds(f)) \/ UNCHANGED vars
    <3>1. UNCHANGED <<pc, ev>>
      BY <2>4 DEF Request, Persist, DeleteRead, DeleteWrite, Replay, TaskEnds, TaskFinishes, vars, workerVars
    <3>2. QED
      BY <3>1, <1>3, <2>3
  <2>5. CASE \/ ClaimAny(w) \/ Crash(w)
             \/ /\ Step(w) /\ ~Checkpoint(w) /\ ~AwaitTask(w)
                /\ ~DeleteSession(w) /\ ~CompleteRead(w)
    <3>1. pc'[w] \notin {"complete", "completing"}
      BY <2>1, <2>5 DEF ClaimAny, Claim, Crash, Step, BatchDone, Begin, Defer, SessionKey,
         OpenSession, RecordSession, LatestTask, AppendMessage, CommitSession, RecordSyncing,
         ListSessions, CompleteWrite, FailRead, FailWrite, Goto, Leave, CallFails
    <3>2. QED
      BY <3>1, <1>3
  <2>6. CASE CompleteRead(w)
    <3>1. pc[w] = "complete" /\ ev' = ev
      BY <2>1, <2>6, <1>3 DEF CompleteRead, Goto, Leave, InProcess
    <3>2. QED
      BY <3>1, <2>3
  <2>7. CASE DeleteSession(w)
    <3>1. pc[w] = "delete" /\ ev' = ev
      BY <2>7 DEF DeleteSession, InProcess
    <3>2. e.del
      BY <3>1, <1>3 DEF ClearInv, ListedIsAll
    <3>3. QED
      BY <3>2, <2>2 DEF First
  <2>8. CASE Checkpoint(w)
    <3>1. ev' = ev /\ pc'[w] # "completing"
      BY <2>1, <2>8 DEF Checkpoint, InProcess, Goto
    <3>2. QED
      BY <3>1, <2>2, <2>8, <1>3, FirstIsNotPassed
  <2>9. CASE AwaitTask(w)
    <3>1. ev' = ev /\ pc'[w] # "completing"
      BY <2>1, <2>9 DEF AwaitTask, InProcess, Goto
    <3>2. QED
      BY <3>1, <2>2, <2>9, <1>2, <1>3, FirstIsExported
  <2>10. ASSUME NEW v \in Workers \ {w}, ClaimAny(v) \/ Step(v) \/ Crash(v)
         PROVE  Exported(e)'
    BY <2>3, <2>10, <1>3, OthersStay DEF Stays
  <2>11. QED
    BY <2>10, <2>4, <2>5, <2>6, <2>7, <2>8, <2>9 DEF Next
<1>4. CompletesExported'
  <2> SUFFICES ASSUME NEW w \in Workers, pc'[w] \in {"complete", "completing"}, NEW e, e = ev'[w], First(e)'
               PROVE  Exported(e)'
    BY DEF CompletesExported, First, Exported, Known, Predecessors
  <2>1. e \in Key
    BY DEF TInv, Working
  <2>2. QED
    BY <2>1, <1>3
<1>5. ASSUME NEW e \in Key, First(e)', status'[e] = "completed"
      PROVE  Exported(e)'
  <2>1. First(e)
    BY <1>1, <1>5
  <2>2. CASE status[e] = "completed"
    <3>1. Exported(e)
      BY <2>1, <2>2 DEF ExportInv, FirstVersionExported, First, Known
    <3>2. QED
      BY <3>1, <1>2, <1>5
  <2>3. CASE status[e] # "completed"
    <3>1. PICK w \in Workers : CompleteWrite(w)
      BY <2>3, <1>5, CompletedByWrite
    <3>2. pc[w] = "completing" /\ e = ev[w]
      BY <3>1, <2>3, <1>5 DEF CompleteWrite, TInv, TypeOK
    <3>3. Exported(e)
      BY <3>2, <2>1 DEF ExportInv, CompletesExported
    <3>4. QED
      BY <3>3, <1>2, <1>5
  <2>4. QED
    BY <2>2, <2>3
<1>6. FirstVersionExported'
  <2> SUFFICES ASSUME NEW e \in Key, ~e.del, status'[e] = "completed", ~redacted'[e],
                      \A f \in Predecessors(e) : status'[f] = "absent"
               PROVE  Exported(e)'
    BY DEF FirstVersionExported, Exported, Predecessors
  <2>1. First(e)'
    BY DEF First, Known, Predecessors
  <2>2. QED
    BY <2>1, <1>5
<1>7. QED
  BY <1>4, <1>6

LEMMA StepExport ==
    /\ OneHandler /\ TInv /\ IInv /\ LifeInv /\ OrderInv /\ SyncedIsItsKey /\ SendInv /\ ClearInv
    /\ ExportInv /\ [Next]_vars
    => ExportInv'
<1> SUFFICES ASSUME OneHandler, TInv, IInv, LifeInv, OrderInv, SyncedIsItsKey, SendInv, ClearInv,
                    ExportInv, [Next]_vars
             PROVE  ExportInv'
  OBVIOUS
<1>1. TInv' /\ Monotone /\ StoreGrows
  BY StepTypes, StepIInv, GrowSteps
<1>2. SendInv'
  BY StepSend
<1>3. Sound'
  BY <1>1, GrowSound DEF ExportInv
<1>4. HasMessage'
  BY <1>1, <1>2, StepMessage
<1>5. TasksAreOwn'
  BY <1>1, SyncTasks, WorkerTasks, TasksStay
<1>6. ListedIsOwn'
  BY StepListed
<1>7. CompletesExported' /\ FirstVersionExported'
  BY <1>1, StepCompletes
<1>8. QED
  BY <1>3, <1>4, <1>5, <1>6, <1>7 DEF ExportInv

LEMMA InitExport == Init => ExportInv
<1> SUFFICES ASSUME Init PROVE ExportInv
  OBVIOUS
<1>1. /\ \A e \in Key : DOMAIN store[e] = {} /\ status[e] = "absent"
      /\ \A w \in Workers : pc[w] = "idle" /\ ctx[w].task = None
      /\ \A m \in Memories : sync[m].task = None
  BY DEF Init, NoContext, NoSync
<1>2. QED
  BY <1>1 DEF ExportInv, Sound, HasMessage, TasksAreOwn, ListedIsOwn, CompletesExported, FirstVersionExported

\* While workers keep their turn, and ids are not stored again, the first version of a memory is
\* not completed before the provider has its message in a committed session, whatever calls to
\* the store were lost, repeated or failed on the way (_process_upsert).
THEOREM FirstVersionIsExported == ~MayRecreate => (Spec /\ []Turns => []FirstVersionExported)
<1> SUFFICES ASSUME ~MayRecreate PROVE Spec /\ []Turns => []FirstVersionExported
  OBVIOUS
<1>1. /\ OneHandler /\ TInv /\ IInv /\ LifeInv /\ OrderInv /\ SyncedIsItsKey /\ SendInv /\ ClearInv
      /\ ExportInv /\ [Next]_vars
      => ExportInv'
  BY StepExport
<1>2. ExportInv => FirstVersionExported
  BY DEF ExportInv
<1>3. Spec => []LifeInv
  BY LifeInvariance
<1>4. Spec /\ []Turns => []OrderInv
  BY OrderInvariance
<1>5. Spec /\ []Turns => []OneHandler
  BY TurnsHandle, TypeInvariance, Invariance, PTL
<1>6. Spec /\ []Turns => []SendInv
  BY <1>5, SendInvariance, PTL
<1>7. Spec /\ []Turns => []ClearInv
  BY ClearInvariance
<1>8. QED
  BY <1>1, <1>2, <1>3, <1>4, <1>5, <1>6, <1>7, InitExport, SyncedNamesSettled, TypeInvariance,
     Invariance, PTL DEF Spec

\* The one agent-memory:worker that package.json starts has nobody to take turns with: all of
\* this holds of it, whatever crashes, fails, is replayed or answers late.
COROLLARY OneWorkerSuffices ==
    SingleWorker /\ ~MayRecreate =>
        (Spec => [](SyncedIsSettled /\ AppendedOnce /\ NoContentAfterDelete /\ FirstVersionExported))
<1> SUFFICES ASSUME SingleWorker, ~MayRecreate
             PROVE  Spec => [](SyncedIsSettled /\ AppendedOnce /\ NoContentAfterDelete /\ FirstVersionExported)
  OBVIOUS
<1>1. Spec => []Turns
  BY OneWorkerTurns, PTL
<1>2. Spec => []OneHandler
  BY <1>1, TurnsHandle, TypeInvariance, Invariance, PTL
<1>3. Spec => []SyncedIsSettled /\ []AppendedOnce
  BY <1>1, <1>2, SyncedStateIsTrue, MessagesAreSentOnce, PTL
<1>4. Spec => []NoContentAfterDelete /\ []FirstVersionExported
  BY <1>1, DeletionClears, FirstVersionIsExported, PTL
<1>5. QED
  BY <1>3, <1>4, PTL

===============================================================================
