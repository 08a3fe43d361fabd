---------------------------- MODULE PersonaSeed ----------------------------
(***************************************************************************)
(* Seeding the evaluation cohort's OpenViking account, as                  *)
(* scripts/persona/openviking-seed.mjs does it: workers that share a       *)
(* cursor take one unit after another and hand it over in a session of its *)
(* own, whose id is the same in every run, so that a run can be repeated   *)
(* after one that failed, stopped or gave up waiting.                      *)
(*                                                                         *)
(* The script gives a request up after a while, whatever becomes of it:    *)
(* it may have been handled, may be handled later, or never.               *)
(***************************************************************************)
EXTENDS Naturals, Sequences

CONSTANTS
    SeedWorkers,    \* the workers, as many as --concurrency says
    LastUnit,       \* the units are numbered
    MaxRuns         \* Bound: the runs of the script

ASSUME SeedAssumption == LastUnit \in Nat /\ MaxRuns \in Nat

VARIABLES
    provider,   \* OpenViking's session of each unit
    cursor,
    at,         \* where each worker is
    results,
    seeding,    \* the script runs
    runs,
    abandoned,  \* requests given up that may still be handled
    delayed     \* the units of which a request was handled after it was given up

seedVars == <<provider, cursor, at, results, seeding, runs, abandoned, delayed>>

Units == 1..LastUnit
Free == [unit |-> 0, step |-> "idle", task |-> 0]
NoProviderSession == [there |-> FALSE, messages |-> 0, tasks |-> <<>>]
GetSteps == {"read", "reread", "tasks", "poll"}
PostSteps == {"message", "commit"}
TaskStates == {"accepted", "completed", "failed"}

SeedTypeOK ==
    /\ \A u \in Units : /\ provider[u].there \in BOOLEAN /\ provider[u].messages \in Nat
                        /\ provider[u].tasks \in Seq([holds : BOOLEAN, status : TaskStates])
    /\ cursor \in 1..(LastUnit + 1) /\ seeding \in BOOLEAN /\ runs \in 0..MaxRuns
    /\ at \in [SeedWorkers -> [unit : 0..LastUnit, task : Nat,
                               step : {"idle", "create"} \union GetSteps \union PostSteps]]
    /\ results \in [Units -> {"none", "completed", "failed"}]
    /\ abandoned \subseteq (PostSteps \X Units) /\ delayed \subseteq Units

SeedInit ==
    /\ provider = [u \in Units |-> NoProviderSession] /\ cursor = 1
    /\ at = [w \in SeedWorkers |-> Free] /\ results = [u \in Units |-> "none"]
    /\ seeding = FALSE /\ runs = 0 /\ abandoned = {} /\ delayed = {}

(***************************************************************************)
(* External: what OpenViking does with a request, and with a commit's task *)
(***************************************************************************)
Appended(s) == [s EXCEPT !.messages = @ + 1]
Committed(s) ==
    [s EXCEPT !.messages = 0,
              !.tasks = Append(@, [holds |-> s.messages > 0, status |-> "accepted"])]

\* A commit of nothing may be answered as completed at once, without a task.
Handled(kind, s) ==
    IF kind = "message" THEN {Appended(s)}
    ELSE {Committed(s)} \union (IF s.messages = 0 THEN {s} ELSE {})

TaskEnds(u) ==
    /\ \E i \in DOMAIN provider[u].tasks : \E status \in TaskStates \ {"accepted"} :
          /\ provider[u].tasks[i].status = "accepted"
          /\ provider' = [provider EXCEPT ![u].tasks[i].status = status]
    /\ UNCHANGED <<cursor, at, results, seeding, runs, abandoned, delayed>>

LateHandled(kind, u) ==
    /\ <<kind, u>> \in abandoned /\ abandoned' = abandoned \ {<<kind, u>>}
    /\ delayed' = delayed \union {u}
    /\ \E s \in Handled(kind, provider[u]) : provider' = [provider EXCEPT ![u] = s]
    /\ UNCHANGED <<cursor, at, results, seeding, runs>>

(***************************************************************************)
(* The script.                                                             *)
(***************************************************************************)
Start ==
    /\ ~seeding /\ runs < MaxRuns /\ seeding' = TRUE /\ runs' = runs + 1
    /\ cursor' = 1 /\ results' = [u \in Units |-> "none"]
    /\ UNCHANGED <<provider, at, abandoned, delayed>>

Take(w) ==
    /\ seeding /\ at[w] = Free /\ cursor <= LastUnit /\ cursor' = cursor + 1
    /\ at' = [at EXCEPT ![w] = [unit |-> cursor, step |-> "read", task |-> 0]]
    /\ UNCHANGED <<provider, results, seeding, runs, abandoned, delayed>>

Goes(w, step) == at' = [at EXCEPT ![w].step = step]
Polls(w, task) == at' = [at EXCEPT ![w].step = "poll", ![w].task = task]
Settles(w, status) ==
    /\ at' = [at EXCEPT ![w] = Free] /\ results' = [results EXCEPT ![at[w].unit] = status]

\* The report is written.
Reports ==
    /\ seeding /\ cursor > LastUnit /\ \A w \in SeedWorkers : at[w] = Free
    /\ seeding' = FALSE
    /\ UNCHANGED <<provider, cursor, at, results, runs, abandoned, delayed>>

\* The process ends, and what it has sent may still be handled.
Stops ==
    /\ seeding /\ seeding' = FALSE /\ at' = [w \in SeedWorkers |-> Free]
    /\ \E sent \in SUBSET {<<at[w].step, at[w].unit>> : w \in SeedWorkers} :
          /\ sent \subseteq PostSteps \X Units
          /\ abandoned' = abandoned \union sent
    /\ UNCHANGED <<provider, cursor, results, runs, delayed>>

(***************************************************************************)
(* commitOpenVikingDocument.                                               *)
(***************************************************************************)
\* Nothing is sent again to a session that has been committed.
StepAfter(s) ==
    IF s.tasks # <<>> THEN "tasks" ELSE IF s.messages = 0 THEN "message" ELSE "commit"

ReadSession(w) ==
    /\ at[w].step \in {"read", "reread"}
    /\ LET s == provider[at[w].unit]
       IN  /\ s.there \/ at[w].step = "read"
           /\ Goes(w, IF s.there THEN StepAfter(s) ELSE "create")
    /\ UNCHANGED <<provider, cursor, results, seeding, runs, abandoned, delayed>>

\* A session that is there already is as good.
CreateSession(w) ==
    /\ at[w].step = "create" /\ Goes(w, "reread")
    /\ provider' = [provider EXCEPT ![at[w].unit].there = TRUE]
    /\ UNCHANGED <<cursor, results, seeding, runs, abandoned, delayed>>

NewestTask(w) ==
    /\ at[w].step = "tasks" /\ Polls(w, Len(provider[at[w].unit].tasks))
    /\ UNCHANGED <<provider, cursor, results, seeding, runs, abandoned, delayed>>

AppendMessage(w) ==
    /\ at[w].step = "message" /\ Goes(w, "commit")
    /\ provider' = [provider EXCEPT ![at[w].unit] = Appended(@)]
    /\ UNCHANGED <<cursor, results, seeding, runs, abandoned, delayed>>

CommitSession(w) ==
    /\ at[w].step = "commit"
    /\ LET u == at[w].unit IN
       \E s \in Handled("commit", provider[u]) :
          /\ provider' = [provider EXCEPT ![u] = s]
          /\ IF s = provider[u]
             THEN Settles(w, "completed")
             ELSE Polls(w, Len(s.tasks)) /\ UNCHANGED results
    /\ UNCHANGED <<cursor, seeding, runs, abandoned, delayed>>

\* Faulty: a commit that was accepted counts as completed.
ResultOfAccepted(status) == IF status = "failed" THEN "failed" ELSE "completed"

\* A task that is still running is asked for again.
ResultOf(status) == status

Poll(w) ==
    /\ at[w].step = "poll"
    /\ LET result == ResultOf(provider[at[w].unit].tasks[at[w].task].status)
       IN  result # "accepted" /\ Settles(w, result)
    /\ UNCHANGED <<provider, cursor, seeding, runs, abandoned, delayed>>

\* A question that is not answered, or a task that takes too long, fails the unit.
GivesUp(w) ==
    /\ at[w].step \in GetSteps /\ Settles(w, "failed")
    /\ UNCHANGED <<provider, cursor, seeding, runs, abandoned, delayed>>

\* So does a request that is not answered: it was handled, may be handled later, or never.
Abandons(w) ==
    /\ at[w].step \in PostSteps \union {"create"} /\ Settles(w, "failed")
    /\ LET u == at[w].unit IN
       \/ UNCHANGED <<provider, abandoned>>
       \/ /\ at[w].step = "create" /\ provider' = [provider EXCEPT ![u].there = TRUE]
          /\ UNCHANGED abandoned
       \/ /\ at[w].step \in PostSteps /\ abandoned' = abandoned \union {<<at[w].step, u>>}
          /\ UNCHANGED provider
       \/ /\ at[w].step \in PostSteps /\ UNCHANGED abandoned
          /\ \E s \in Handled(at[w].step, provider[u]) : provider' = [provider EXCEPT ![u] = s]
    /\ UNCHANGED <<cursor, seeding, runs, delayed>>

SeedNext ==
    \/ Start \/ Reports \/ Stops
    \/ \E u \in Units : TaskEnds(u) \/ \E kind \in PostSteps : LateHandled(kind, u)
    \/ \E w \in SeedWorkers :
          \/ Take(w) \/ ReadSession(w) \/ CreateSession(w) \/ NewestTask(w) \/ AppendMessage(w)
          \/ CommitSession(w) \/ Poll(w) \/ GivesUp(w) \/ Abandons(w)

SeedSpec == SeedInit /\ [][SeedNext]_seedVars

(***************************************************************************)
(* Properties.                                                             *)
(***************************************************************************)

\* What the report calls completed has been taken from its session by a task that completed,
\* in this run or in an earlier one, unless a request of the unit was handled late: an empty
\* commit that comes late hides what became of the one that took the message.
SeededIsExtracted ==
    \A u \in Units : results[u] = "completed" /\ u \notin delayed =>
        \E i \in DOMAIN provider[u].tasks :
            provider[u].tasks[i].holds /\ provider[u].tasks[i].status = "completed"
=============================================================================
