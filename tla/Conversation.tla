---------------------------- MODULE Conversation ----------------------------
(***************************************************************************)
(* The runs of the agent in one conversation (application/conversation.py) *)
(* and the event streams that start them and show their progress           *)
(* (api/routes/conversations.py).                                          *)
(*                                                                         *)
(* A message creates a queued run.  The stream a client opens on it starts *)
(* an executor, which claims the run with a conditional UPDATE.  All its   *)
(* later transactions, and those of a cancellation, read the run without a *)
(* lock and write it back by primary key: they are two actions each.  A    *)
(* cancellation updates the run and then the assistant message, the last   *)
(* transaction of an executor updates them the other way round, so the     *)
(* database may have to break a deadlock.                                  *)
(***************************************************************************)
EXTENDS Integers, Sequences, FiniteSets

CONSTANTS
    Runs,         \* client message ids: each has at most one run
    Streams,      \* connections of clients to event streams
    MaxStarts,    \* bound on the executors of a run that are yet to claim it
    MayFail,      \* may the provider, or the analysis of a proposal, fail?
    MayRestart,   \* may the server stop and start again?
    None          \* no run

ASSUME ConstantsAssumption ==
    /\ MaxStarts \in Nat
    /\ MayFail \in BOOLEAN
    /\ MayRestart \in BOOLEAN
    /\ None \notin Runs

VARIABLES
    conversation, \* status of the conversation
    run,          \* status of a run
    answer,       \* status of the run's assistant message
    log,          \* events of a run: the place in the log is the sequence
    draft,        \* does the run have a memory draft?
    exec,         \* stage of the executor that claimed the run
    cancel,       \* stage of a request that cancels the run
    starts,       \* executors that streams started and that are yet to claim the run
    at,           \* stage of a stream
    reads,        \* the run a stream shows
    shown         \* has a stream got as far as an event that ends its run?

rowVars == <<conversation, run, answer, log, draft>>
streamVars == <<at, reads, shown>>
vars == <<rowVars, exec, cancel, starts, streamVars>>

-----------------------------------------------------------------------------
Active == {"queued", "retrieving", "generating"}
Terminal == {"completed", "failed", "cancelled"}
Missing == {"none", "deleted"}
Events == {"started", "retrieved", "answer", "proposal", "completed", "failed", "cancelled"}
Working == {"recall", "mark", "respond", "propose", "finish", "finishing", "fail", "failing"}

Init ==
    /\ conversation = "active"
    /\ run = [r \in Runs |-> "none"]
    /\ answer = [r \in Runs |-> "none"]
    /\ log = [r \in Runs |-> <<>>]
    /\ draft = [r \in Runs |-> FALSE]
    /\ exec = [r \in Runs |-> "idle"]
    /\ cancel = [r \in Runs |-> "off"]
    /\ starts = [r \in Runs |-> 0]
    /\ at = [x \in Streams |-> "off"]
    /\ reads = [x \in Streams |-> None]
    /\ shown = [x \in Streams |-> FALSE]

\* What a transaction about run r leaves in its rows.
Record(r, runStatus, answerStatus, events) ==
    /\ run' = [run EXCEPT ![r] = runStatus]
    /\ answer' = [answer EXCEPT ![r] = answerStatus]
    /\ log' = [log EXCEPT ![r] = @ \o events]

-----------------------------------------------------------------------------
(* Requests about the conversation *)

\* Faulty: the runs of the conversation are not looked at.
SendMessageAnyTime(r) ==
    /\ conversation = "active"
    /\ run[r] = "none"
    /\ Record(r, "queued", "pending", <<>>)
    /\ UNCHANGED <<conversation, draft, exec, cancel, starts, streamVars>>

\* The conversation is locked; a message sent again gets the run it has, and a
\* new one is refused while a run is active.
SendMessage(r) ==
    /\ conversation = "active"
    /\ run[r] = "none"
    /\ \A q \in Runs : run[q] \notin Active
    /\ Record(r, "queued", "pending", <<>>)
    /\ UNCHANGED <<conversation, draft, exec, cancel, starts, streamVars>>

UpdateConversation ==
    /\ conversation # "deleted"
    /\ \E status \in {"active", "archived"} : conversation' = status
    /\ UNCHANGED <<run, answer, log, draft, exec, cancel, starts, streamVars>>

\* Faulty: the messages are left.
DeleteConversationRuns ==
    /\ conversation # "deleted"
    /\ \A r \in Runs : cancel[r] # "locked"
    /\ conversation' = "deleted"
    /\ run' = [r \in Runs |-> "deleted"]
    /\ log' = [r \in Runs |-> <<>>]
    /\ UNCHANGED <<answer, draft, exec, cancel, starts, streamVars>>

\* Deleting waits for a cancellation that holds a run.
DeleteConversation ==
    /\ conversation # "deleted"
    /\ \A r \in Runs : cancel[r] # "locked"
    /\ conversation' = "deleted"
    /\ run' = [r \in Runs |-> "deleted"]
    /\ answer' = [r \in Runs |-> "none"]
    /\ log' = [r \in Runs |-> <<>>]
    /\ UNCHANGED <<draft, exec, cancel, starts, streamVars>>

-----------------------------------------------------------------------------
(* Cancelling a run *)

CancelRead(r) ==
    /\ cancel[r] = "off"
    /\ run[r] \in Active
    /\ cancel' = [cancel EXCEPT ![r] = "seen"]
    /\ UNCHANGED <<rowVars, exec, starts, streamVars>>

\* The run is updated, and locked until the request commits; a run deleted in
\* the meantime is an error.
CancelLock(r) ==
    /\ cancel[r] = "seen"
    /\ cancel' = [cancel EXCEPT ![r] = IF run[r] \in Missing THEN "off" ELSE "locked"]
    /\ UNCHANGED <<rowVars, exec, starts, streamVars>>

\* Faulty: the assistant message is left alone.
CancelWriteRunOnly(r) ==
    /\ cancel[r] = "locked"
    /\ cancel' = [cancel EXCEPT ![r] = "off"]
    /\ Record(r, "cancelled", answer[r], <<"cancelled">>)
    /\ UNCHANGED <<conversation, draft, exec, starts, streamVars>>

CancelWrite(r) ==
    /\ cancel[r] = "locked"
    /\ cancel' = [cancel EXCEPT ![r] = "off"]
    /\ Record(r, "cancelled", "cancelled", <<"cancelled">>)
    /\ UNCHANGED <<conversation, draft, exec, starts, streamVars>>

-----------------------------------------------------------------------------
(* Executing a run *)

Goto(r, stage) == exec' = [exec EXCEPT ![r] = stage]

\* Faulty: the status of the run is not part of the UPDATE's condition.
ClaimAlways(r) ==
    /\ starts[r] > 0
    /\ cancel[r] # "locked"
    /\ starts' = [starts EXCEPT ![r] = @ - 1]
    /\ IF run[r] \notin Missing
       THEN Record(r, "retrieving", answer[r], <<"started">>) /\ Goto(r, "recall")
       ELSE UNCHANGED <<run, answer, log, exec>>
    /\ UNCHANGED <<conversation, draft, cancel, streamVars>>

\* The executor a stream started claims the run if it is still queued.
Claim(r) ==
    /\ starts[r] > 0
    /\ cancel[r] # "locked"
    /\ starts' = [starts EXCEPT ![r] = @ - 1]
    /\ IF run[r] = "queued"
       THEN Record(r, "retrieving", answer[r], <<"started">>) /\ Goto(r, "recall")
       ELSE UNCHANGED <<run, answer, log, exec>>
    /\ UNCHANGED <<conversation, draft, cancel, streamVars>>

\* A transaction that reads the run: one that is cancelled or deleted ends the
\* executor, else it goes on to write.
ReadRun(r, stage, following) ==
    /\ exec[r] = stage
    /\ Goto(r, IF run[r] \in Missing \cup {"cancelled"} THEN "ended" ELSE following)
    /\ UNCHANGED <<rowVars, cancel, starts, streamVars>>

\* Memories have been recalled, as far as the stores answered.
MarkRead(r) == ReadRun(r, "recall", "mark")

MarkWrite(r) ==
    /\ exec[r] = "mark"
    /\ cancel[r] # "locked"
    /\ IF run[r] \in Missing
       THEN Goto(r, "ended") /\ UNCHANGED <<run, answer, log>>
       ELSE Goto(r, "respond") /\ Record(r, "generating", answer[r], <<"retrieved">>)
    /\ UNCHANGED <<conversation, draft, cancel, starts, streamVars>>

\* Faulty: an error of the provider is not handled.
RespondUnguarded(r) ==
    /\ exec[r] = "respond"
    /\ \/ Goto(r, "finish") \/ Goto(r, "propose")
       \/ MayFail /\ Goto(r, "ended")
    /\ UNCHANGED <<rowVars, cancel, starts, streamVars>>

\* The provider answers, with or without proposing a memory, or fails.
Respond(r) ==
    /\ exec[r] = "respond"
    /\ \/ Goto(r, "finish") \/ Goto(r, "propose")
       \/ MayFail /\ Goto(r, "fail")
    /\ UNCHANGED <<rowVars, cancel, starts, streamVars>>

\* The proposal is analysed and stored in a transaction of its own.
Propose(r) ==
    /\ exec[r] = "propose"
    /\ \/ \E stored \in BOOLEAN : draft' = [draft EXCEPT ![r] = stored] /\ Goto(r, "finish")
       \/ MayFail /\ Goto(r, "fail") /\ UNCHANGED draft
    /\ UNCHANGED <<conversation, run, answer, log, cancel, starts, streamVars>>

FinishRead(r) == ReadRun(r, "finish", "finishing")
FailRead(r) == ReadRun(r, "fail", "failing")

\* The executor's last write.  A cancellation that holds the run in that moment
\* waits for the message and is aborted (see Deadlock for the other outcome).
LastWrite(r, stage, outcome, events) ==
    /\ exec[r] = stage
    /\ Goto(r, "ended")
    /\ IF run[r] \in Missing
       THEN UNCHANGED <<run, answer, log, cancel>>
       ELSE /\ Record(r, outcome, outcome, events)
            /\ cancel' = [cancel EXCEPT ![r] = IF @ = "locked" THEN "off" ELSE @]
    /\ UNCHANGED <<conversation, draft, starts, streamVars>>

FinishWrite(r) ==
    LastWrite(r, "finishing", "completed",
              IF draft[r] THEN <<"answer", "proposal", "completed">>
                          ELSE <<"answer", "completed">>)

FailWrite(r) == LastWrite(r, "failing", "failed", <<"failed">>)

\* The executor holds the message and waits for the run, the cancellation holds
\* the run and waits for the message: here the executor is aborted.
Deadlock(r) ==
    /\ exec[r] \in {"finishing", "failing"}
    /\ cancel[r] = "locked"
    /\ Goto(r, IF exec[r] = "finishing" THEN "fail" ELSE "ended")
    /\ UNCHANGED <<rowVars, cancel, starts, streamVars>>

-----------------------------------------------------------------------------
(* Event streams *)

\* Of a stream's place in the log only this is kept: whether the events up to
\* there tell how the run ended.
TellsEnd(r) == \E i \in DOMAIN log[r] : log[r][i] \in Terminal

\* A client opens a stream at the start of the log, or after the last event it
\* has seen; a run that is queued gets an executor.
Connect(x, r, seen) ==
    /\ at[x] = "off"
    /\ run[r] \notin Missing
    /\ at' = [at EXCEPT ![x] = "reading"]
    /\ reads' = [reads EXCEPT ![x] = r]
    /\ seen => TellsEnd(r)
    /\ shown' = [shown EXCEPT ![x] = seen]
    /\ IF run[r] = "queued"
       THEN starts[r] < MaxStarts /\ starts' = [starts EXCEPT ![r] = @ + 1]
       ELSE UNCHANGED starts
    /\ UNCHANGED <<rowVars, exec, cancel>>

\* A stream reads the new events, and then the status of the run.
ReadEvents(x) ==
    LET r == reads[x]
    IN  /\ at[x] = "reading"
        /\ IF run[r] \in Missing
           THEN at' = [at EXCEPT ![x] = "broken"] /\ UNCHANGED shown
           ELSE /\ at' = [at EXCEPT ![x] = "checking"]
                /\ shown' = [shown EXCEPT ![x] = TellsEnd(r)]
        /\ UNCHANGED <<rowVars, exec, cancel, starts, reads>>

ReadStatus(x) ==
    LET r == reads[x]
    IN  /\ at[x] = "checking"
        /\ at' = [at EXCEPT ![x] = CASE run[r] \in Missing -> "broken"
                                     [] run[r] \in Terminal -> "closed"
                                     [] OTHER -> "reading"]
        /\ UNCHANGED <<rowVars, exec, cancel, starts, reads, shown>>

\* The client goes; an executor its stream started goes on.
Disconnect(x) ==
    /\ at[x] # "off"
    /\ at' = [at EXCEPT ![x] = "off"]
    /\ reads' = [reads EXCEPT ![x] = None]
    /\ shown' = [shown EXCEPT ![x] = FALSE]
    /\ UNCHANGED <<rowVars, exec, cancel, starts>>

\* The server stops: executors are lost, requests and streams are cut off.
Restart ==
    /\ MayRestart
    /\ exec' = [r \in Runs |-> IF run[r] \in Active /\ exec[r] # "idle" THEN "lost"
                               ELSE IF exec[r] \in Working THEN "ended" ELSE exec[r]]
    /\ cancel' = [r \in Runs |-> "off"]
    /\ starts' = [r \in Runs |-> 0]
    /\ at' = [x \in Streams |-> "off"]
    /\ reads' = [x \in Streams |-> None]
    /\ shown' = [x \in Streams |-> FALSE]
    /\ UNCHANGED rowVars

-----------------------------------------------------------------------------
Execute(r) == \/ MarkRead(r) \/ MarkWrite(r) \/ Respond(r) \/ Propose(r)
              \/ FinishRead(r) \/ FinishWrite(r) \/ FailRead(r) \/ FailWrite(r)
              \/ Deadlock(r)
Cancel(r) == CancelRead(r) \/ CancelLock(r) \/ CancelWrite(r)
Stream(x) == \/ \E r \in Runs, seen \in BOOLEAN : Connect(x, r, seen)
             \/ ReadEvents(x) \/ ReadStatus(x) \/ Disconnect(x)

Next ==
    \/ UpdateConversation \/ DeleteConversation \/ Restart
    \/ \E r \in Runs : SendMessage(r) \/ Cancel(r) \/ Claim(r) \/ Execute(r)
    \/ \E x \in Streams : Stream(x)

Spec == Init /\ [][Next]_vars

\* The calls of an executor have timeouts, and a request that has begun ends.
Fairness ==
    /\ \A r \in Runs : WF_vars(Execute(r)) /\ WF_vars(Claim(r))
                    /\ WF_vars(CancelLock(r) \/ CancelWrite(r))

FairSpec == Spec /\ Fairness

-----------------------------------------------------------------------------
(* Properties *)

\* Every variable has its type, and a run exists together with its message
\* (create_message_run, delete_conversation).
TypeOK ==
    /\ conversation \in {"active", "archived", "deleted"}
    /\ run \in [Runs -> Active \cup Terminal \cup Missing]
    /\ answer \in [Runs -> {"none", "pending"} \cup Terminal]
    /\ log \in [Runs -> Seq(Events)]
    /\ draft \in [Runs -> BOOLEAN]
    /\ exec \in [Runs -> Working \cup {"idle", "ended", "lost"}]
    /\ cancel \in [Runs -> {"off", "seen", "locked"}]
    /\ starts \in [Runs -> 0..MaxStarts]
    /\ at \in [Streams -> {"off", "reading", "checking", "closed", "broken"}]
    /\ reads \in [Streams -> Runs \cup {None}]
    /\ shown \in [Streams -> BOOLEAN]
    /\ \A r \in Runs : run[r] \in Missing <=> answer[r] = "none"
    /\ \A r \in Runs : run[r] \in Missing => log[r] = <<>>

Occurrences(r, event) == {i \in DOMAIN log[r] : log[r][i] = event}

\* However many streams are opened on a run, one executor answers it once
\* (the conditional UPDATE of execute_run).
ExecutedOnce ==
    \A r \in Runs : \A event \in {"started", "answer", "proposal"} :
        Cardinality(Occurrences(r, event)) <= 1

\* The run, its assistant message and its last event agree on how the run
\* ended, whoever of the executor and a cancellation writes last.
EndsTogether ==
    \A r \in Runs : run[r] \in Terminal =>
        answer[r] = run[r] /\ log[r] # <<>> /\ log[r][Len(log[r])] = run[r]

\* At most one run of the conversation is active, those that were cancelled
\* once left aside (create_message_run).
OneActiveUncancelled ==
    \A q, r \in Runs :
        /\ run[q] \in Active /\ Occurrences(q, "cancelled") = {}
        /\ run[r] \in Active /\ Occurrences(r, "cancelled") = {}
        => q = r

\* At most one run of the conversation is active.
OneActiveRun == \A q, r \in Runs : run[q] \in Active /\ run[r] \in Active => q = r

\* A stream that ends because its run has ended has shown how it ended, unless
\* the client had seen that before (agent_run_event_stream).
EndIsShown ==
    \A x \in Streams : at[x] = "closed" => shown[x]

\* A run that an executor was started for ends, unless the server is stopped
\* first: no failure, lost cancellation or broken deadlock leaves it active.
EveryRunEnds ==
    \A r \in Runs :
        starts[r] > 0 \/ exec[r] \in Working
            ~> \/ run[r] \in Terminal \cup Missing
               \/ exec[r] = "lost"
               \/ run[r] = "queued" /\ starts[r] = 0
=============================================================================
