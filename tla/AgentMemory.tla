---------------------------- MODULE AgentMemory ----------------------------
(***************************************************************************)
(* The export of confirmed memories to the external agent memory store.    *)
(*                                                                         *)
(* API requests (application/memory_revision.py) change a memory and put   *)
(* an event in the transactional outbox, in one database transaction.      *)
(* Workers (agent_memory_worker.py) claim events under a lease and drive   *)
(* the store through infrastructure/openviking_memory.py.                  *)
(*                                                                         *)
(* One action is one database transaction or one call to the store; the    *)
(* transactions that read outbox rows and write them back by primary key   *)
(* (_complete_*, _fail_claim, delete_confirmed_memory) are two actions,    *)
(* since nothing locks the rows in between.  Any amount of time may pass   *)
(* between two actions, so a retry delay and a lease may always have run   *)
(* out.  A claim token is represented by the worker that drew it.          *)
(***************************************************************************)
EXTENDS Integers, Sequences, FiniteSets

CONSTANTS
    Memories,       \* memory ids
    Legacy,         \* memories stored before revisions existed
    Workers,        \* worker processes
    MaxVersion,     \* bound: the highest version of an upsert event
    MaxAttempts,    \* max_attempts of drain_once
    BatchSize,      \* batch_size of drain_once
    MaxSessions,    \* bound: an event with that many sessions is not replayed
    MayRecreate,    \* may a deleted id be stored again?
    MayCrash,       \* may a worker stop between two actions?
    MayFail,        \* may calls to the store and its tasks fail?
    None            \* no event, no worker, no session

Key == [mem : Memories, ver : 1..(MaxVersion + 1), del : BOOLEAN]
SessionId == [key : Key, idx : Nat]
NoIndex == -1

ASSUME ConstantsAssumption ==
    /\ IsFiniteSet(Memories)
    /\ Legacy \subseteq Memories
    /\ MaxVersion \in Nat \ {0}
    /\ MaxAttempts \in Nat \ {0}
    /\ BatchSize \in Nat \ {0}
    /\ MaxSessions \in Nat
    /\ MayRecreate \in BOOLEAN
    /\ MayCrash \in BOOLEAN
    /\ MayFail \in BOOLEAN
    /\ None \notin Key
    /\ None \notin Workers
    /\ None \notin SessionId

VARIABLES
    live,       \* memories that have a row
    rev,        \* the latest revision of a memory, 0 when it has none
    deleting,   \* memories locked by a deletion that has read their events
    doomed,     \* the events such a deletion has decided to cancel
    status,     \* outbox row of a dedupe key: its status
    attempts,   \* ... its failed attempts
    token,      \* ... the worker that claimed it last
    redacted,   \* ... its payload has been removed
    born,       \* ... its place in creation order
    sync,       \* synchronisation state of a memory
    rows,       \* local session rows of an event, oldest first
    store,      \* provider sessions of an event, in the order of their keys
    pc,         \* stage of a worker
    queue,      \* claimed events the worker has yet to process
    stripped,   \* ... those whose payload was redacted when claimed
    ev,         \* event in process
    ctx         \* local variables of the worker for that event

memoryVars == <<live, rev>>
deletionVars == <<deleting, doomed>>
outboxVars == <<status, attempts, token, redacted, born>>
workerVars == <<pc, queue, stripped, ev, ctx>>
vars == <<memoryVars, deletionVars, outboxVars, sync, rows, store, workerVars>>

-----------------------------------------------------------------------------
Statuses == {"absent", "pending", "processing", "retry", "completed",
             "cancelled", "dead_letter"}
Settled == {"completed", "cancelled"}
RowStatuses == {"active", "failed", "deleted"}
SyncStatuses == {"none", "pending", "syncing", "completed", "failed",
                 "dead_letter", "deleted"}
Stages == {"idle", "next", "defer", "checkpoint", "session_key", "open",
           "record", "latest", "append", "commit", "syncing", "await",
           "complete", "completing", "list", "delete", "fail", "failing"}
InTx == {"completing", "failing"}

ProviderSession == [exists : BOOLEAN, msgs : Nat, commits : Nat,
                    task : {"none", "pending", "done", "failed"}]
SyncState == [ver : Nat, status : SyncStatuses, sess : SessionId \cup {None},
              task : SessionId \cup {None}, key : Key \cup {None}]
Context == [task : SessionId \cup {None}, idx : Nat \cup {NoIndex},
            used : BOOLEAN, committed : BOOLEAN, todo : SUBSET SessionId]

NoSync == [ver |-> 0, status |-> "none", sess |-> None, task |-> None,
           key |-> None]
NoContext == [task |-> None, idx |-> NoIndex, used |-> FALSE,
              committed |-> FALSE, todo |-> {}]
NewSession == [exists |-> TRUE, msgs |-> 0, commits |-> 0, task |-> "none"]

\* The outbox events of the memory of e with a lower version.
Predecessors(e) == {f \in Key : f.mem = e.mem /\ f.ver < e.ver}
UpsertsBelow(e) == {f \in Predecessors(e) : ~f.del}
EventsOf(m) == {e \in Key : e.mem = m}
Upsert(m, v) == [mem |-> m, ver |-> v, del |-> FALSE]
Deletion(m, v) == [mem |-> m, ver |-> v, del |-> TRUE]
Session(e, i) == [key |-> e, idx |-> i]

Init ==
    /\ live = Legacy
    /\ rev = [m \in Memories |-> 0]
    /\ deleting = {} /\ doomed = {}
    /\ status = [e \in Key |-> "absent"]
    /\ attempts = [e \in Key |-> 0]
    /\ token = [e \in Key |-> None]
    /\ redacted = [e \in Key |-> FALSE]
    /\ born = [e \in Key |-> 0]
    /\ sync = [m \in Memories |-> NoSync]
    /\ rows = [e \in Key |-> <<>>]
    /\ store = [e \in Key |-> <<>>]
    /\ pc = [w \in Workers |-> "idle"]
    /\ queue = [w \in Workers |-> {}]
    /\ stripped = [w \in Workers |-> {}]
    /\ ev = [w \in Workers |-> None]
    /\ ctx = [w \in Workers |-> NoContext]

-----------------------------------------------------------------------------
(* API requests *)

\* A row is added only when its dedupe key is new.
Age == Cardinality({e \in Key : status[e] # "absent"}) + 1
Enqueued(e) == IF status[e] = "absent" THEN [born EXCEPT ![e] = Age] ELSE born
EnqueuedStatus(e, st) == IF status[e] = "absent" THEN [st EXCEPT ![e] = "pending"] ELSE st

\* The revision that storing the memory now creates; a memory from before
\* revisions existed gets a baseline revision first.
NextRevision(m) == IF m \in live /\ rev[m] = 0 THEN 2 ELSE rev[m] + 1

Persist(m) ==
    /\ m \notin deleting
    /\ NextRevision(m) <= MaxVersion
    /\ \/ m \in live
       \/ MayRecreate
       \/ \A e \in EventsOf(m) : status[e] = "absent"
    /\ live' = live \cup {m}
    /\ rev' = [rev EXCEPT ![m] = NextRevision(m)]
    /\ LET e == Upsert(m, NextRevision(m))
       IN  /\ status' = EnqueuedStatus(e, status)
           /\ born' = Enqueued(e)
    /\ UNCHANGED <<deletionVars, attempts, token, redacted, sync, rows, store, workerVars>>

\* Deleting locks the memory and reads the events queued for it ...
DeleteRead(m) ==
    /\ m \in live \ deleting
    /\ deleting' = deleting \cup {m}
    /\ doomed' = doomed \cup {e \in EventsOf(m) : status[e] \notin Settled \cup {"absent"}}
    /\ UNCHANGED <<memoryVars, outboxVars, sync, rows, store, workerVars>>

\* Faulty variants of DeleteWrite: one keeps counting revisions, one leaves
\* the payloads of the events.
DeleteWriteVariant(m, revision, removed) ==
    /\ m \in deleting
    /\ deleting' = deleting \ {m}
    /\ doomed' = doomed \ EventsOf(m)
    /\ live' = live \ {m}
    /\ rev' = [rev EXCEPT ![m] = revision]
    /\ LET d == Deletion(m, rev[m] + 1)
       IN  /\ status' = EnqueuedStatus(d,
                  [e \in Key |-> IF e \in doomed \cap EventsOf(m) THEN "cancelled" ELSE status[e]])
           /\ redacted' = [e \in Key |-> redacted[e] \/ e \in removed]
           /\ born' = Enqueued(d)
    /\ UNCHANGED <<attempts, token, sync, rows, store, workerVars>>
DeleteWriteCountingOn(m) == DeleteWriteVariant(m, rev[m] + 1, {})
DeleteWriteKeepingPayload(m) == DeleteWriteVariant(m, 0, {})

\* ... then redacts them all, cancels those that were not completed when it
\* read them, and queues the deletion.
DeleteWrite(m) ==
    /\ m \in deleting
    /\ deleting' = deleting \ {m}
    /\ doomed' = doomed \ EventsOf(m)
    /\ live' = live \ {m}
    /\ rev' = [rev EXCEPT ![m] = 0]
    /\ LET d == Deletion(m, rev[m] + 1)
           previous == {e \in EventsOf(m) : status[e] # "absent"}
       IN  /\ status' = EnqueuedStatus(d,
                  [e \in Key |-> IF e \in doomed \cap EventsOf(m) THEN "cancelled" ELSE status[e]])
           /\ redacted' = [e \in Key |-> redacted[e] \/ e \in previous]
           /\ born' = Enqueued(d)
    /\ UNCHANGED <<attempts, token, sync, rows, store, workerVars>>

\* replay_dead_letter: an operator puts a dead letter back, with a new session.
Replay(e) ==
    /\ status[e] = "dead_letter"
    /\ e.del \/ ~redacted[e]
    /\ Len(rows[e]) < MaxSessions
    /\ status' = [status EXCEPT ![e] = "pending"]
    /\ attempts' = [attempts EXCEPT ![e] = 0]
    /\ token' = [token EXCEPT ![e] = None]
    /\ LET s == sync[e.mem]
           reset == ~e.del /\ s.key = e
       IN  /\ sync' = IF reset
                      THEN [sync EXCEPT ![e.mem] =
                              [@ EXCEPT !.status = "pending", !.sess = None, !.task = None]]
                      ELSE sync
           /\ rows' = IF reset /\ s.sess # None
                      THEN [rows EXCEPT ![s.sess.key][s.sess.idx + 1] = "failed"]
                      ELSE rows
    /\ UNCHANGED <<memoryVars, deletionVars, redacted, born, store, workerVars>>

-----------------------------------------------------------------------------
(* The worker: claiming a batch, oldest event first *)

\* Faulty: a row put back for a retry is not selected.
EligibleOnce == {e \in Key : status[e] \in {"pending", "processing"}}

\* The lease of a claim may have run out at any time.
Eligible == {e \in Key : status[e] \in {"pending", "retry", "processing"}}

\* batch is the oldest BatchSize events of those that are due; a retry or a
\* lease may or may not be due yet, a pending event always is.
OldestDue(batch) ==
    /\ Cardinality(batch) <= BatchSize
    /\ \A f \in Eligible \ batch : status[f] = "pending" =>
          /\ Cardinality(batch) = BatchSize
          /\ \A e \in batch : born[e] < born[f]

Claim(w, batch) ==
    /\ pc[w] = "idle"
    /\ batch # {}
    /\ OldestDue(batch)
    /\ status' = [e \in Key |-> IF e \in batch THEN "processing" ELSE status[e]]
    /\ token' = [e \in Key |-> IF e \in batch THEN w ELSE token[e]]
    /\ queue' = [queue EXCEPT ![w] = batch]
    /\ stripped' = [stripped EXCEPT ![w] = {e \in batch : redacted[e]}]
    /\ pc' = [pc EXCEPT ![w] = "next"]
    /\ UNCHANGED <<memoryVars, deletionVars, attempts, redacted, born, sync, rows, store, ev, ctx>>

Goto(w, stage) == pc' = [pc EXCEPT ![w] = stage]
InProcess(w) == UNCHANGED <<queue, stripped, ev>>

\* The worker is done with its event and turns to the next one.
Leave(w) ==
    /\ Goto(w, "next")
    /\ ev' = [ev EXCEPT ![w] = None]
    /\ ctx' = [ctx EXCEPT ![w] = NoContext]
    /\ UNCHANGED <<queue, stripped>>

BatchDone(w) ==
    /\ pc[w] = "next"
    /\ queue[w] = {}
    /\ Goto(w, "idle")
    /\ stripped' = [stripped EXCEPT ![w] = {}]
    /\ UNCHANGED <<memoryVars, deletionVars, outboxVars, sync, rows, store, queue, ev, ctx>>

\* An earlier version that is not finished defers the event; a payload that
\* was redacted before the claim is an error.
Begin(w, e) ==
    /\ pc[w] = "next"
    /\ \A f \in queue[w] : born[e] <= born[f]
    /\ queue' = [queue EXCEPT ![w] = @ \ {e}]
    /\ ev' = [ev EXCEPT ![w] = e]
    /\ Goto(w, CASE \E f \in Predecessors(e) :
                       status[f] \notin Settled \cup {"absent"} -> "defer"
                 [] OTHER -> IF e.del THEN "list"
                             ELSE IF e \in stripped[w] THEN "fail"
                             ELSE "checkpoint")
    /\ UNCHANGED <<memoryVars, deletionVars, outboxVars, sync, rows, store, stripped, ctx>>

Holds(w) == status[ev[w]] = "processing" /\ token[ev[w]] = w

Defer(w) ==
    /\ pc[w] = "defer"
    /\ IF Holds(w)
       THEN /\ status' = [status EXCEPT ![ev[w]] = "retry"]
            /\ token' = [token EXCEPT ![ev[w]] = None]
       ELSE UNCHANGED <<status, token>>
    /\ Leave(w)
    /\ UNCHANGED <<memoryVars, deletionVars, attempts, redacted, born, sync, rows, store>>

-----------------------------------------------------------------------------
(* The worker: one upsert *)

Checkpoint(w) ==
    LET s == sync[ev[w].mem]
        v == ev[w].ver
    IN  /\ pc[w] = "checkpoint"
        /\ IF s.ver > v \/ (s.ver = v /\ s.status = "completed")
           THEN Goto(w, "complete") /\ UNCHANGED ctx
           ELSE /\ Goto(w, "session_key")
                /\ ctx' = [ctx EXCEPT ![w].task = IF s.ver = v THEN s.task ELSE None]
        /\ InProcess(w)
        /\ UNCHANGED <<memoryVars, deletionVars, outboxVars, sync, rows, store>>

\* The latest active session of the event is used again; otherwise a new key
\* is derived from the number of sessions.
ActiveRows(e) == {i \in 0..(Len(rows[e]) - 1) : rows[e][i + 1] = "active"}
SessionIndex(e) ==
    IF ActiveRows(e) = {} THEN Len(rows[e])
    ELSE CHOOSE i \in ActiveRows(e) : \A j \in ActiveRows(e) : j <= i

SessionKey(w) ==
    /\ pc[w] = "session_key"
    /\ Goto(w, "open")
    /\ ctx' = [ctx EXCEPT ![w].idx = SessionIndex(ev[w])]
    /\ InProcess(w)
    /\ UNCHANGED <<memoryVars, deletionVars, outboxVars, sync, rows, store>>

\* A call to the store succeeds, or fails for the worker whether or not it
\* reached the store.
CallFails(w) == MayFail /\ Goto(w, "fail") /\ UNCHANGED ctx

Opened(e, i) ==
    IF i = Len(store[e]) THEN [store EXCEPT ![e] = Append(@, NewSession)]
    ELSE IF store[e][i + 1].exists THEN store
    ELSE [store EXCEPT ![e][i + 1].exists = TRUE]

\* Faulty variants of OpenSession: the snapshot counts commits only, or takes
\* every session that exists for one that has its message.
OpenSessionVariant(w, Used(_)) ==
    LET e == ev[w]
        i == ctx[w].idx
        s == Opened(e, i)[e][i + 1]
    IN  /\ pc[w] = "open"
        /\ \/ /\ store' = Opened(e, i)
              /\ Goto(w, "record")
              /\ ctx' = [ctx EXCEPT ![w].used = Used(s), ![w].committed = s.commits > 0]
           \/ CallFails(w) /\ store' \in {store, Opened(e, i)}
        /\ InProcess(w)
        /\ UNCHANGED <<memoryVars, deletionVars, outboxVars, sync, rows>>
OpenSessionIgnoringMessages(w) == OpenSessionVariant(w, LAMBDA s : s.commits > 0)
OpenSessionTrustingExistence(w) ==
    OpenSessionVariant(w, LAMBDA s : Opened(ev[w], ctx[w].idx) = store)

OpenSession(w) ==
    LET e == ev[w]
        i == ctx[w].idx
        s == Opened(e, i)[e][i + 1]
    IN  /\ pc[w] = "open"
        /\ \/ /\ store' = Opened(e, i)
              /\ Goto(w, "record")
              /\ ctx' = [ctx EXCEPT ![w].used = s.msgs > 0 \/ s.commits > 0,
                                    ![w].committed = s.commits > 0]
           \/ CallFails(w) /\ store' \in {store, Opened(e, i)}
        /\ InProcess(w)
        /\ UNCHANGED <<memoryVars, deletionVars, outboxVars, sync, rows>>

RecordSession(w) ==
    LET e == ev[w]
        i == ctx[w].idx
    IN  /\ pc[w] = "record"
        /\ rows' = IF i = Len(rows[e]) THEN [rows EXCEPT ![e] = Append(@, "active")]
                   ELSE [rows EXCEPT ![e][i + 1] = "active"]
        /\ Goto(w, IF ctx[w].task # None THEN "syncing"
                   ELSE IF ctx[w].committed THEN "latest" ELSE "append")
        /\ InProcess(w)
        /\ UNCHANGED <<memoryVars, deletionVars, outboxVars, sync, store, ctx>>

\* latest_task: the task of the session's commit, if the store knows one.
LatestTask(w) ==
    LET e == ev[w]
        i == ctx[w].idx
    IN  /\ pc[w] = "latest"
        /\ \/ /\ store[e][i + 1].task # "none"
              /\ Goto(w, "syncing")
              /\ ctx' = [ctx EXCEPT ![w].task = Session(e, i)]
           \/ /\ store[e][i + 1].task = "none"
              /\ Goto(w, "append")
              /\ UNCHANGED ctx
           \/ CallFails(w)
        /\ InProcess(w)
        /\ UNCHANGED <<memoryVars, deletionVars, outboxVars, sync, rows, store>>

\* Nothing is sent when the session was seen with messages or commits.
AppendMessage(w) ==
    LET e == ev[w]
        i == ctx[w].idx
        sent == [store EXCEPT ![e][i + 1].msgs = @ + 1]
    IN  /\ pc[w] = "append"
        /\ \/ ctx[w].used /\ Goto(w, "commit") /\ UNCHANGED <<store, ctx>>
           \/ /\ ~ctx[w].used /\ store[e][i + 1].exists
              /\ store' = sent
              /\ Goto(w, "commit") /\ UNCHANGED ctx
           \/ /\ ~ctx[w].used
              /\ \/ CallFails(w) /\ store' \in {store, sent} /\ store[e][i + 1].exists
                 \/ Goto(w, "fail") /\ UNCHANGED <<store, ctx>> /\ ~store[e][i + 1].exists
        /\ InProcess(w)
        /\ UNCHANGED <<memoryVars, deletionVars, outboxVars, sync, rows>>

\* A commit starts a task that extracts memories from the session's messages.
CommitSession(w) ==
    LET e == ev[w]
        i == ctx[w].idx
        s == store[e][i + 1]
        committed == [store EXCEPT ![e][i + 1] =
                        [s EXCEPT !.commits = @ + 1, !.task = "pending"]]
    IN  /\ pc[w] = "commit"
        /\ \/ /\ store[e][i + 1].exists
              /\ store' = committed
              /\ Goto(w, "syncing")
              /\ ctx' = [ctx EXCEPT ![w].task = Session(e, i)]
           \/ CallFails(w) /\ store' \in {store, committed} /\ store[e][i + 1].exists
           \/ Goto(w, "fail") /\ UNCHANGED <<store, ctx>> /\ ~store[e][i + 1].exists
        /\ InProcess(w)
        /\ UNCHANGED <<memoryVars, deletionVars, outboxVars, sync, rows>>

RecordSyncing(w) ==
    LET e == ev[w]
    IN  /\ pc[w] = "syncing"
        /\ sync' = [sync EXCEPT ![e.mem] =
                      [ver |-> e.ver, status |-> "syncing", task |-> ctx[w].task,
                       sess |-> Session(e, ctx[w].idx), key |-> e]]
        /\ Goto(w, "await")
        /\ InProcess(w)
        /\ UNCHANGED <<memoryVars, deletionVars, outboxVars, rows, store, ctx>>

AwaitTask(w) ==
    LET t == ctx[w].task
        answer == store[t.key][t.idx + 1].task
    IN  /\ pc[w] = "await"
        /\ \/ answer = "done" /\ Goto(w, "complete")
           \/ answer = "pending" /\ Goto(w, "defer")
           \/ answer \notin {"done", "pending"} /\ Goto(w, "fail")
           \/ MayFail /\ Goto(w, "fail")
        /\ InProcess(w)
        /\ UNCHANGED <<memoryVars, deletionVars, outboxVars, sync, rows, store, ctx>>

\* External: the store's task for a commit comes to an end.
TaskFinishes(e, i) ==
    /\ store[e][i].task = "pending"
    /\ \E end \in {"done"} \cup (IF MayFail THEN {"failed"} ELSE {}) :
          store' = [store EXCEPT ![e][i].task = end]
    /\ UNCHANGED <<memoryVars, deletionVars, outboxVars, sync, rows, workerVars>>

-----------------------------------------------------------------------------
(* The worker: one deletion *)

\* Faulty: sessions marked failed are left out.
ListActiveSessions(w) ==
    LET m == ev[w].mem
    IN  /\ pc[w] = "list"
        /\ Goto(w, "delete")
        /\ ctx' = [ctx EXCEPT ![w].todo =
                     UNION {{Session(e, i) : i \in ActiveRows(e)} : e \in EventsOf(m)}]
        /\ InProcess(w)
        /\ UNCHANGED <<memoryVars, deletionVars, outboxVars, sync, rows, store>>

ListSessions(w) ==
    LET m == ev[w].mem
    IN  /\ pc[w] = "list"
        /\ Goto(w, "delete")
        /\ ctx' = [ctx EXCEPT ![w].todo =
                     UNION {{Session(e, i) : i \in {j \in 0..(Len(rows[e]) - 1) :
                                                     rows[e][j + 1] # "deleted"}}
                            : e \in EventsOf(m)}]
        /\ InProcess(w)
        /\ UNCHANGED <<memoryVars, deletionVars, outboxVars, sync, rows, store>>

DeleteSession(w) ==
    /\ pc[w] = "delete"
    /\ \/ /\ ctx[w].todo = {}
          /\ Goto(w, "complete")
          /\ UNCHANGED <<store, ctx>>
       \/ \E s \in ctx[w].todo :
            LET gone == [store EXCEPT ![s.key][s.idx + 1] =
                           [@ EXCEPT !.exists = FALSE, !.msgs = 0, !.commits = 0]]
            IN  \/ /\ store' = gone
                   /\ ctx' = [ctx EXCEPT ![w].todo = @ \ {s}]
                   /\ UNCHANGED pc
                \/ CallFails(w) /\ store' \in {store, gone}
    /\ InProcess(w)
    /\ UNCHANGED <<memoryVars, deletionVars, outboxVars, sync, rows>>

-----------------------------------------------------------------------------
(* The worker: settling the claim *)

\* No other worker is between the two halves of settling this event.  (A worker
\* that claims it in that moment has the claim, the predecessors, and mostly a
\* call to the store before it settles.)
NoneSettles(w) == \A v \in Workers : ~(pc[v] \in InTx /\ ev[v] = ev[w])

\* The row is read with its token and its status; an upsert that ended at its
\* checkpoint takes a lost lease in silence, anything else is a failure.
CompleteRead(w) ==
    /\ pc[w] = "complete"
    /\ NoneSettles(w)
    /\ IF Holds(w)
       THEN Goto(w, "completing") /\ InProcess(w) /\ UNCHANGED ctx
       ELSE IF ~ev[w].del /\ ctx[w].idx = NoIndex
       THEN Leave(w)
       ELSE Goto(w, "fail") /\ InProcess(w) /\ UNCHANGED ctx
    /\ UNCHANGED <<memoryVars, deletionVars, outboxVars, sync, rows, store>>

\* Faulty: a late upsert overwrites a newer state.
CompletedSyncAlways(w) ==
    LET e == ev[w]
        s == sync[e.mem]
        ended == ctx[w].idx = NoIndex
    IN  [ver |-> e.ver, status |-> IF e.del THEN "deleted" ELSE "completed", key |-> e,
         sess |-> IF e.del THEN None ELSE IF ended THEN s.sess ELSE Session(e, ctx[w].idx),
         task |-> IF e.del THEN None ELSE IF ended THEN s.task ELSE ctx[w].task]

CompletedSync(w) ==
    LET e == ev[w]
        s == sync[e.mem]
        ended == ctx[w].idx = NoIndex
    IN  IF e.del
        THEN [ver |-> e.ver, status |-> "deleted", sess |-> None, task |-> None, key |-> e]
        ELSE IF s.ver <= e.ver
        THEN [ver |-> e.ver, status |-> "completed", key |-> e,
              sess |-> IF ended THEN s.sess ELSE Session(e, ctx[w].idx),
              task |-> IF ended THEN s.task ELSE ctx[w].task]
        ELSE s

CompleteWrite(w) ==
    LET e == ev[w]
    IN  /\ pc[w] = "completing"
        /\ status' = [status EXCEPT ![e] = "completed"]
        /\ token' = [token EXCEPT ![e] = None]
        /\ sync' = [sync EXCEPT ![e.mem] = CompletedSync(w)]
        /\ rows' = IF e.del
                   THEN [f \in Key |-> IF f.mem = e.mem
                                       THEN [i \in 1..Len(rows[f]) |-> "deleted"]
                                       ELSE rows[f]]
                   ELSE rows
        /\ Leave(w)
        /\ UNCHANGED <<memoryVars, deletionVars, attempts, redacted, born, store>>

\* Faulty: the claim token is not compared.
FailReadAnyClaim(w) ==
    /\ pc[w] = "fail"
    /\ NoneSettles(w)
    /\ Goto(w, "failing") /\ InProcess(w) /\ UNCHANGED ctx
    /\ UNCHANGED <<memoryVars, deletionVars, outboxVars, sync, rows, store>>

FailRead(w) ==
    /\ pc[w] = "fail"
    /\ NoneSettles(w)
    /\ IF Holds(w) THEN Goto(w, "failing") /\ InProcess(w) /\ UNCHANGED ctx
                   ELSE Leave(w)
    /\ UNCHANGED <<memoryVars, deletionVars, outboxVars, sync, rows, store>>

\* A failure with attempts left is retried, the last one is a dead letter; the
\* memory's synchronisation state moves to the event unless it is ahead of it.
FailWrite(w) ==
    LET e == ev[w]
        s == sync[e.mem]
        last == attempts[e] + 1 >= MaxAttempts
    IN  /\ pc[w] = "failing"
        /\ attempts' = [attempts EXCEPT ![e] = @ + 1]
        /\ status' = [status EXCEPT ![e] = IF last THEN "dead_letter" ELSE "retry"]
        /\ token' = [token EXCEPT ![e] = None]
        /\ sync' = IF s.ver > e.ver THEN sync
                   ELSE [sync EXCEPT ![e.mem] =
                     [ver |-> e.ver, key |-> e, task |-> s.task,
                      status |-> IF last THEN "dead_letter" ELSE "failed",
                      sess |-> IF s.status = "none" /\ Len(rows[e]) > 0
                               THEN Session(e, 0) ELSE s.sess]]
        /\ Leave(w)
        /\ UNCHANGED <<memoryVars, deletionVars, redacted, born, rows, store>>

\* The process stops; what it claimed stays claimed.
Crash(w) ==
    /\ MayCrash
    /\ pc[w] # "idle"
    /\ Goto(w, "idle")
    /\ queue' = [queue EXCEPT ![w] = {}]
    /\ stripped' = [stripped EXCEPT ![w] = {}]
    /\ ev' = [ev EXCEPT ![w] = None]
    /\ ctx' = [ctx EXCEPT ![w] = NoContext]
    /\ UNCHANGED <<memoryVars, deletionVars, outboxVars, sync, rows, store>>

-----------------------------------------------------------------------------
Request == \/ \E m \in Memories : Persist(m) \/ DeleteRead(m) \/ DeleteWrite(m)
           \/ \E e \in Key : Replay(e)

\* What the worker does with the event in process.
Step(w) ==
    \/ BatchDone(w) \/ (\E e \in queue[w] : Begin(w, e)) \/ Defer(w)
    \/ Checkpoint(w) \/ SessionKey(w) \/ OpenSession(w) \/ RecordSession(w)
    \/ LatestTask(w) \/ AppendMessage(w) \/ CommitSession(w)
    \/ RecordSyncing(w) \/ AwaitTask(w)
    \/ ListSessions(w) \/ DeleteSession(w)
    \/ CompleteRead(w) \/ CompleteWrite(w) \/ FailRead(w) \/ FailWrite(w)

ClaimAny(w) == \E batch \in SUBSET Eligible : Claim(w, batch)
ClaimOne(w, e) == \E batch \in SUBSET Eligible : e \in batch /\ Claim(w, batch)
TaskEnds(e) == \E i \in DOMAIN store[e] : TaskFinishes(e, i)

Next ==
    \/ Request
    \/ \E w \in Workers : ClaimAny(w) \/ Step(w) \/ Crash(w)
    \/ \E e \in Key : TaskEnds(e)

Spec == Init /\ [][Next]_vars

\* A worker that runs goes on with its event (every call to the store has a
\* timeout); an event that is due again and again is claimed, because a failed
\* or deferred one waits for its next attempt; the store ends its tasks.
Fairness ==
    /\ \A w \in Workers : WF_vars(Step(w))
    /\ \A w \in Workers : \A e \in Key : SF_vars(ClaimOne(w, e))
    /\ \A e \in Key : WF_vars(TaskEnds(e))

FairSpec == Spec /\ Fairness

-----------------------------------------------------------------------------
(* Properties *)

\* Every variable has its type; revisions stay within their bound over deletions
\* (delete_confirmed_memory, which removes the revisions of a memory).
TypeOK ==
    /\ live \subseteq Memories
    /\ rev \in [Memories -> 0..MaxVersion]
    /\ deleting \subseteq Memories
    /\ doomed \subseteq Key
    /\ status \in [Key -> Statuses]
    /\ attempts \in [Key -> Nat]
    /\ token \in [Key -> Workers \cup {None}]
    /\ redacted \in [Key -> BOOLEAN]
    /\ born \in [Key -> Nat]
    /\ sync \in [Memories -> SyncState]
    /\ rows \in [Key -> Seq(RowStatuses)]
    /\ store \in [Key -> Seq(ProviderSession)]
    /\ pc \in [Workers -> Stages]
    /\ queue \in [Workers -> SUBSET Key]
    /\ stripped \in [Workers -> SUBSET Key]
    /\ ev \in [Workers -> Key \cup {None}]
    /\ ctx \in [Workers -> Context]

\* What an upsert exported is in the provider: a session of its own holds the
\* message and has been committed.
Exported(e) == \E i \in DOMAIN store[e] :
                  store[e][i].exists /\ store[e][i].msgs > 0 /\ store[e][i].commits > 0

\* Versions are exported in order: when an event is completed, every earlier
\* upsert of its memory is completed too or had its payload removed, so no
\* older content can still be sent (_has_unfinished_predecessor, with the
\* cancellations of delete_confirmed_memory between check and completion).
CompletedInOrder ==
    \A e \in Key : status[e] = "completed" /\ e.mem \notin Legacy =>
        \A f \in UpsertsBelow(e) : status[f] = "completed" \/ redacted[f]

\* A completed event is never taken up again: a worker that answers late neither
\* fails nor defers it, and nobody claims it.  Only a deletion that read the
\* event before it was completed may still cancel it, without its payload.
CancelledByDeletion(e) == status[e] = "cancelled" /\ redacted[e]
CompletedIsFinal ==
    [][\A e \in Key : status[e] = "completed" =>
                          status'[e] = "completed" \/ CancelledByDeletion(e)']_vars

\* The first version of a memory is not completed before the provider has its
\* content, whatever calls were lost, repeated or failed on the way.
FirstVersionExported ==
    \A e \in Key : /\ ~e.del /\ status[e] = "completed" /\ ~redacted[e]
                   /\ \A f \in Predecessors(e) : status[f] = "absent"
                  => Exported(e)

\* The same for every version of a memory.
CompletedUpsertExported ==
    \A e \in Key : ~e.del /\ status[e] = "completed" /\ ~redacted[e] => Exported(e)

\* Once the deletion of a memory is completed no session of it in the provider
\* holds a message.
NoContentAfterDelete ==
    \A d \in Key : d.del /\ status[d] = "completed" /\ d.mem \notin live =>
        \A e \in EventsOf(d.mem) : \A i \in DOMAIN store[e] :
            ~(store[e][i].exists /\ store[e][i].msgs > 0)

\* A session receives its message once, although the call that sends it may be
\* repeated after an answer was lost (append of openviking_memory.py).
AppendedOnce == \A e \in Key : \A i \in DOMAIN store[e] : store[e][i].msgs <= 1

\* A memory shown as synchronised is: the event its state names is completed
\* (or a deletion cancelled it since), and no later event of the memory is.
SyncedIsSettled ==
    \A m \in Memories : sync[m].status \in {"completed", "deleted"} =>
        /\ status[sync[m].key] = "completed" \/ CancelledByDeletion(sync[m].key)
        /\ sync[m].key.ver = sync[m].ver
        /\ \A e \in EventsOf(m) : status[e] = "completed" => e.ver <= sync[m].ver

\* A payload removed by a deletion leaves its upsert cancelled, or completed.
RedactedIsSettled ==
    \A e \in Key : redacted[e] /\ ~e.del => status[e] \in Settled

\* Storing a memory queues its version for export.
StoredIsQueued ==
    \A m \in live : rev[m] > 0 =>
        LET e == Upsert(m, rev[m]) IN status[e] # "absent" /\ ~redacted[e]

\* No event is forgotten: it is settled, or a dead letter an operator can see,
\* or waits behind one.
Stuck(e) == \E f \in Predecessors(e) : status[f] = "dead_letter"
EventsAreResolved ==
    \A e \in Key : status[e] = "pending" ~>
        status[e] \in Settled \cup {"dead_letter"} \/ Stuck(e)

-----------------------------------------------------------------------------
(* The outbox that the requests and the workers implement *)

\* What became of an event: void once its payload was removed, waiting also
\* while a worker has it or it is due for a retry.
EntryState(e) ==
    CASE status[e] = "absent" -> "none"
      [] status[e] # "absent" /\ redacted[e] -> "void"
      [] status[e] = "completed" /\ ~redacted[e] -> "sent"
      [] status[e] = "dead_letter" /\ ~redacted[e] -> "stuck"
      [] OTHER -> "waiting"

Outbox == INSTANCE MemoryOutbox WITH LastVersion <- MaxVersion + 1,
    held <- live, version <- rev, entry <- [e \in Key |-> EntryState(e)]

\* Requests and workers whose transactions read rows without locking them, lose
\* their leases and answer late do with the memories and their events only what
\* that outbox allows, in one step each (persist_confirmed_memory,
\* delete_confirmed_memory, _complete_*, _fail_claim).  It is
\* Outbox!MemoryOutboxSpec: a step that leaves all variables here alone leaves
\* those there.
IsMemoryOutbox ==
    /\ Outbox!MemoryOutboxInit
    /\ [][UNCHANGED vars \/ Outbox!MemoryOutboxNext]_(Outbox!memoryOutboxVars)
=============================================================================
