------------------------- MODULE ConversationProofs -------------------------
(***************************************************************************)
(* Proofs about Conversation, for any sets of runs and streams and any     *)
(* number of executors.  Inv relates the stage of an executor to what the  *)
(* log of its run says: a run starts with an empty log, an executor that   *)
(* works has not answered yet, and one that has not marked its run has an  *)
(* active run unless a cancellation or the deletion came in between.       *)
(***************************************************************************)
EXTENDS Conversation, TLAPS, FiniteSetTheorems

Has(s, event) == \E i \in DOMAIN s : s[i] = event
Once(s, event) == \A i, j \in DOMAIN s : s[i] = event /\ s[j] = event => i = j

\* The stages of a stream.
Stages == {"off", "reading", "checking", "closed", "broken"}

Singular == {"started", "answer", "proposal"}

\* Only a cancellation that found the run holds it.
LockedExist == \A r \in Runs : cancel[r] = "locked" => run[r] \notin Missing

\* A run that no executor has claimed has no events.
Untouched ==
    \A r \in Runs : run[r] \in {"none", "queued"} => log[r] = <<>> /\ exec[r] = "idle"

\* An executor that works has not answered.
Unanswered ==
    \A r \in Runs : exec[r] \in Working \cup {"idle"} =>
        ~Has(log[r], "answer") /\ ~Has(log[r], "proposal")

LoggedOnce == \A r \in Runs : \A event \in Singular : Once(log[r], event)

\* Before an executor marks its run, the run is as it was claimed, or a
\* cancellation or the deletion came in between.
Claimed ==
    \A r \in Runs : exec[r] \in {"recall", "mark"} =>
        run[r] \in Active \cup {"deleted"} \/ Has(log[r], "cancelled")

Uncancelled(r) == run[r] \in Active /\ ~Has(log[r], "cancelled")
OneUncancelled == \A q, r \in Runs : Uncancelled(q) /\ Uncancelled(r) => q = r

TInv == TypeOK /\ LockedExist
Inv == TInv /\ Untouched /\ Unanswered /\ LoggedOnce /\ Claimed /\ OneUncancelled

-----------------------------------------------------------------------------
\* The events of a log that has been extended.
LEMMA ExtendHas ==
    ASSUME NEW s \in Seq(Events), NEW t \in Seq(Events), NEW event
    PROVE  Has(s \o t, event) <=> Has(s, event) \/ Has(t, event)
<1>1. ASSUME Has(s \o t, event)
      PROVE  Has(s, event) \/ Has(t, event)
  <2>1. PICK i \in 1..(Len(s) + Len(t)) : (s \o t)[i] = event
    BY <1>1 DEF Has
  <2>2. CASE i <= Len(s)
    BY <2>1, <2>2 DEF Has
  <2>3. CASE i > Len(s)
    <3>1. i - Len(s) \in 1..Len(t) /\ t[i - Len(s)] = event
      BY <2>1, <2>3
    <3>2. QED
      BY <3>1 DEF Has
  <2>4. QED
    BY <2>2, <2>3
<1>2. ASSUME NEW i \in DOMAIN s, s[i] = event
      PROVE  Has(s \o t, event)
  <2>1. i \in 1..(Len(s) + Len(t)) /\ (s \o t)[i] = event
    BY <1>2
  <2>2. QED
    BY <2>1 DEF Has
<1>3. ASSUME NEW i \in DOMAIN t, t[i] = event
      PROVE  Has(s \o t, event)
  <2>1. i + Len(s) \in 1..(Len(s) + Len(t)) /\ (s \o t)[i + Len(s)] = event
    BY <1>3
  <2>2. QED
    BY <2>1 DEF Has
<1>4. QED
  BY <1>1, <1>2, <1>3 DEF Has

\* An event that neither part repeats nor both have is not repeated.
LEMMA ExtendOnce ==
    ASSUME NEW s \in Seq(Events), NEW t \in Seq(Events), NEW event,
           Once(s, event), Once(t, event), ~(Has(s, event) /\ Has(t, event))
    PROVE  Once(s \o t, event)
<1> SUFFICES ASSUME NEW i \in 1..(Len(s) + Len(t)), NEW j \in 1..(Len(s) + Len(t)),
                    (s \o t)[i] = event, (s \o t)[j] = event
             PROVE  i = j
  BY DEF Once
<1>1. ASSUME NEW k \in 1..(Len(s) + Len(t)), (s \o t)[k] = event
      PROVE  \/ k \in DOMAIN s /\ s[k] = event
             \/ k - Len(s) \in DOMAIN t /\ t[k - Len(s)] = event
  BY <1>1
<1>2. QED
  BY <1>1 DEF Once, Has

\* An event that occurs once has at most one place.
LEMMA OnceIsOne ==
    ASSUME NEW r, log[r] \in Seq(Events), NEW event, Once(log[r], event)
    PROVE  Cardinality(Occurrences(r, event)) <= 1
<1>1. CASE Occurrences(r, event) = {}
  <2>1. Cardinality({}) = 0
    BY FS_EmptySet
  <2>2. QED
    BY <1>1, <2>1
<1>2. CASE \E i \in DOMAIN log[r] : log[r][i] = event
  <2>1. PICK i \in DOMAIN log[r] : log[r][i] = event
    BY <1>2
  <2>2. Occurrences(r, event) = {i}
    BY <2>1 DEF Occurrences, Once
  <2>3. Cardinality({i}) = 1
    BY FS_Singleton
  <2>4. QED
    BY <2>2, <2>3
<1>3. QED
  BY <1>1, <1>2 DEF Occurrences

\* A short log.
LEMMA ShortLogs ==
    /\ \A e \in Events : <<e>> \in Seq(Events)
    /\ \A e, f \in Events : <<e, f>> \in Seq(Events)
    /\ \A e, f, g \in Events : <<e, f, g>> \in Seq(Events)
OBVIOUS

\* What Record does to the log.
LEMMA Recorded ==
    ASSUME TypeOK, NEW r \in Runs, NEW t \in Seq(Events),
           log' = [log EXCEPT ![r] = log[r] \o t]
    PROVE  /\ log' \in [Runs -> Seq(Events)]
           /\ \A q \in Runs : q # r => log'[q] = log[q]
           /\ log'[r] = log[r] \o t
           /\ \A event : Has(log'[r], event) <=> Has(log[r], event) \/ Has(t, event)
<1>1. log[r] \in Seq(Events) /\ log[r] \o t \in Seq(Events)
  BY DEF TypeOK
<1>2. log' \in [Runs -> Seq(Events)] /\ log'[r] = log[r] \o t
  BY <1>1 DEF TypeOK
<1>3. \A q \in Runs : q # r => log'[q] = log[q]
  BY DEF TypeOK
<1>4. QED
  BY <1>1, <1>2, <1>3, ExtendHas

\* Nothing that becomes active was not.
LEMMA NoNewActive ==
    ASSUME OneUncancelled, \A r \in Runs : Uncancelled(r)' => Uncancelled(r)
    PROVE  OneUncancelled'
BY DEF OneUncancelled

-----------------------------------------------------------------------------
\* The empty conversation.
LEMMA InitInv == Init => Inv
<1> SUFFICES ASSUME Init
             PROVE  Inv
  OBVIOUS
<1> USE DEF Init
<1>1. TypeOK
  <2>1. <<>> \in Seq(Events) /\ 0 \in 0..MaxStarts
    BY ConstantsAssumption
  <2>2. QED
    BY <2>1 DEF TypeOK, Missing
<1>2. LockedExist /\ Untouched /\ Claimed /\ OneUncancelled
  BY DEF LockedExist, Untouched, Claimed, OneUncancelled, Uncancelled, Active
<1>3. Unanswered /\ LoggedOnce
  BY DEF Unanswered, LoggedOnce, Has, Once
<1>4. QED
  BY <1>1, <1>2, <1>3 DEF Inv, TInv

\* Steps that leave the rows of the runs alone: those of streams, the reads of
\* a cancellation, and archiving.
LEMMA IdleSteps ==
    ASSUME Inv,
           \/ UpdateConversation
           \/ \E r \in Runs : CancelRead(r) \/ CancelLock(r)
           \/ \E x \in Streams : Stream(x)
    PROVE  Inv'
<1>1. UNCHANGED <<run, answer, log, draft, exec>>
  BY DEF UpdateConversation, CancelRead, CancelLock, Stream, Connect, ReadEvents, ReadStatus,
         Disconnect, rowVars, streamVars
<1>2. /\ conversation' \in {"active", "archived", "deleted"}
      /\ cancel' \in [Runs -> {"off", "seen", "locked"}]
      /\ LockedExist'
  BY DEF UpdateConversation, CancelRead, CancelLock, Stream, Connect, ReadEvents, ReadStatus,
         Disconnect, rowVars, streamVars, Inv, TInv, TypeOK, LockedExist
<1>3. /\ starts' \in [Runs -> 0..MaxStarts]
      /\ at' \in [Streams -> Stages]
      /\ reads' \in [Streams -> Runs \cup {None}]
      /\ shown' \in [Streams -> BOOLEAN]
  <2>1. /\ starts \in [Runs -> 0..MaxStarts]
        /\ at \in [Streams -> Stages]
        /\ reads \in [Streams -> Runs \cup {None}]
        /\ shown \in [Streams -> BOOLEAN]
    BY DEF Inv, TInv, TypeOK, Stages
  <2>2. CASE UpdateConversation \/ \E r \in Runs : CancelRead(r) \/ CancelLock(r)
    BY <2>1, <2>2 DEF UpdateConversation, CancelRead, CancelLock, streamVars
  <2>3. ASSUME NEW x \in Streams, NEW r \in Runs, NEW seen \in BOOLEAN, Connect(x, r, seen)
        PROVE  /\ starts' \in [Runs -> 0..MaxStarts]
               /\ at' \in [Streams -> Stages]
               /\ reads' \in [Streams -> Runs \cup {None}]
               /\ shown' \in [Streams -> BOOLEAN]
    <3>1. starts[r] < MaxStarts => starts[r] + 1 \in 0..MaxStarts
      BY <2>1, ConstantsAssumption
    <3>2. starts' \in [Runs -> 0..MaxStarts]
      BY <2>1, <2>3, <3>1 DEF Connect
    <3>3. "reading" \in Stages
      BY DEF Stages
    <3>4. at' \in [Streams -> Stages] /\ reads' \in [Streams -> Runs \cup {None}]
      BY <2>1, <2>3, <3>3 DEF Connect
    <3>5. shown' \in [Streams -> BOOLEAN]
      BY <2>1, <2>3 DEF Connect
    <3>6. QED
      BY <3>2, <3>4, <3>5
  <2>4. ASSUME NEW x \in Streams, ReadEvents(x) \/ ReadStatus(x) \/ Disconnect(x)
        PROVE  /\ starts' \in [Runs -> 0..MaxStarts]
               /\ at' \in [Streams -> Stages]
               /\ reads' \in [Streams -> Runs \cup {None}]
               /\ shown' \in [Streams -> BOOLEAN]
    <3>1. starts' \in [Runs -> 0..MaxStarts] /\ reads' \in [Streams -> Runs \cup {None}]
      BY <2>1, <2>4 DEF ReadEvents, ReadStatus, Disconnect
    <3>2. at' \in [Streams -> Stages]
      BY <2>1, <2>4 DEF ReadEvents, ReadStatus, Disconnect, Stages
    <3>3. \A r : TellsEnd(r) \in BOOLEAN
      BY DEF TellsEnd
    <3>4. shown' \in [Streams -> BOOLEAN]
      BY <2>1, <2>4, <3>3 DEF ReadEvents, ReadStatus, Disconnect
    <3>5. QED
      BY <3>1, <3>2, <3>4
  <2>5. QED
    BY <2>2, <2>3, <2>4 DEF Stream
<1>4. QED
  BY <1>1, <1>2, <1>3 DEF Inv, TInv, TypeOK, Stages, Untouched, Unanswered, LoggedOnce, Claimed,
                          OneUncancelled, Uncancelled

-----------------------------------------------------------------------------
RowTypes ==
    /\ run \in [Runs -> Active \cup Terminal \cup Missing]
    /\ answer \in [Runs -> {"none", "pending"} \cup Terminal]
    /\ log \in [Runs -> Seq(Events)]
    /\ \A r \in Runs : run[r] \in Missing <=> answer[r] = "none"
    /\ \A r \in Runs : run[r] \in Missing => log[r] = <<>>
ExecTypes == exec \in [Runs -> Working \cup {"idle", "ended", "lost"}]

\* The types of the rows after a transaction that leaves the run there.
LEMMA RecordTypes ==
    ASSUME TypeOK, NEW r \in Runs, NEW st \in Active \cup Terminal,
           NEW a \in {"pending"} \cup Terminal, NEW t \in Seq(Events), Record(r, st, a, t)
    PROVE  /\ RowTypes'
           /\ \A q \in Runs : q # r => run'[q] = run[q] /\ log'[q] = log[q]
           /\ run'[r] = st
           /\ \A event : Has(log'[r], event) <=> Has(log[r], event) \/ Has(t, event)
<1>1. log' = [log EXCEPT ![r] = log[r] \o t]
  BY DEF Record
<1>2. /\ log' \in [Runs -> Seq(Events)]
      /\ \A q \in Runs : q # r => log'[q] = log[q]
      /\ \A event : Has(log'[r], event) <=> Has(log[r], event) \/ Has(t, event)
  BY <1>1, Recorded
<1>3. /\ run' \in [Runs -> Active \cup Terminal \cup Missing]
      /\ answer' \in [Runs -> {"none", "pending"} \cup Terminal]
      /\ run'[r] = st /\ answer'[r] = a
      /\ \A q \in Runs : q # r => run'[q] = run[q] /\ answer'[q] = answer[q]
  BY DEF Record, TypeOK
<1>4. st \notin Missing /\ a # "none"
  BY DEF Active, Terminal, Missing
<1>5. \A q \in Runs : (run'[q] \in Missing <=> answer'[q] = "none") /\ (run'[q] \in Missing => log'[q] = <<>>)
  BY <1>2, <1>3, <1>4 DEF TypeOK
<1>6. QED
  BY <1>2, <1>3, <1>5 DEF RowTypes

\* A message is sent: the one step that makes a run active.
LEMMA SendSteps ==
    ASSUME Inv, NEW r \in Runs, SendMessage(r)
    PROVE  Inv'
<1> USE DEF Inv, TInv
<1>1. Record(r, "queued", "pending", <<>>) /\ "queued" \in Active \cup Terminal
      /\ <<>> \in Seq(Events)
  BY DEF SendMessage, Active
<1>2. /\ RowTypes'
      /\ \A q \in Runs : q # r => run'[q] = run[q] /\ log'[q] = log[q]
      /\ run'[r] = "queued"
      /\ \A event : Has(log'[r], event) <=> Has(log[r], event)
  <2>1. \A event : ~Has(<<>>, event)
    BY DEF Has
  <2>2. QED
    BY <1>1, <2>1, RecordTypes
<1>3. log'[r] = <<>> /\ log[r] = <<>> /\ exec[r] = "idle" /\ run[r] = "none"
  BY DEF SendMessage, Untouched, Record, TypeOK
<1>4. UNCHANGED <<conversation, draft, exec, cancel, starts, at, reads, shown>>
  BY DEF SendMessage, streamVars
<1>5. TypeOK'
  BY <1>2, <1>4 DEF TypeOK, RowTypes
<1>6. LockedExist' /\ Untouched'
  BY <1>2, <1>3, <1>4 DEF LockedExist, Untouched, Missing
<1>7. Unanswered' /\ LoggedOnce'
  <2>1. \A event : Once(log'[r], event)
    BY <1>3 DEF Once
  <2>2. QED
    BY <1>2, <1>4, <2>1 DEF Unanswered, LoggedOnce
<1>8. Claimed'
  BY <1>2, <1>3, <1>4 DEF Claimed
<1>9. OneUncancelled'
  BY <1>2 DEF OneUncancelled, Uncancelled, SendMessage
<1>10. QED
  BY <1>5, <1>6, <1>7, <1>8, <1>9

\* Deleting the conversation empties the logs.
LEMMA DeleteSteps ==
    ASSUME Inv, DeleteConversation
    PROVE  Inv'
<1> USE DEF Inv, TInv
<1>1. /\ \A q \in Runs : run'[q] = "deleted" /\ log'[q] = <<>>
      /\ UNCHANGED <<draft, exec, cancel, starts, at, reads, shown>>
      /\ \A q \in Runs : cancel[q] # "locked"
  BY DEF DeleteConversation, streamVars
<1>2. TypeOK'
  <2>1. <<>> \in Seq(Events)
    OBVIOUS
  <2>2. RowTypes' /\ conversation' = "deleted"
    BY <2>1 DEF DeleteConversation, RowTypes, Missing
  <2>3. QED
    BY <1>1, <2>2 DEF TypeOK, RowTypes
<1>3. LockedExist' /\ Untouched' /\ Claimed' /\ OneUncancelled'
  BY <1>1 DEF LockedExist, Untouched, Claimed, OneUncancelled, Uncancelled, Active
<1>4. Unanswered' /\ LoggedOnce'
  BY <1>1 DEF Unanswered, LoggedOnce, Has, Once
<1>5. QED
  BY <1>2, <1>3, <1>4

\* A cancellation commits.
LEMMA CancelSteps ==
    ASSUME Inv, NEW r \in Runs, CancelWrite(r)
    PROVE  Inv'
<1> USE DEF Inv, TInv
<1> DEFINE t == <<"cancelled">>
<1>1. Record(r, "cancelled", "cancelled", t) /\ "cancelled" \in Terminal
      /\ t \in Seq(Events)
  <2>1. "cancelled" \in Events
    BY DEF Events
  <2>2. QED
    BY <2>1 DEF CancelWrite, Terminal
<1>2. /\ RowTypes'
      /\ \A q \in Runs : q # r => run'[q] = run[q] /\ log'[q] = log[q]
      /\ run'[r] = "cancelled"
      /\ \A event : Has(log'[r], event) <=> Has(log[r], event) \/ Has(t, event)
  BY <1>1, RecordTypes
<1>3. Has(t, "cancelled") /\ \A event : event # "cancelled" => ~Has(t, event)
  BY DEF Has
<1>4. /\ UNCHANGED <<conversation, draft, exec, starts, at, reads, shown>>
      /\ cancel' = [cancel EXCEPT ![r] = "off"]
  BY DEF CancelWrite, streamVars
<1>5. TypeOK'
  BY <1>2, <1>4 DEF TypeOK, RowTypes
<1>6. LockedExist' /\ Untouched'
  BY <1>2, <1>4 DEF LockedExist, Untouched, Missing, TypeOK
<1>7. Unanswered'
  BY <1>2, <1>3, <1>4 DEF Unanswered
<1>8. LoggedOnce'
  <2>1. \A event \in Singular : Once(log[r] \o t, event)
    <3>1. \A event \in Singular : Once(t, event) /\ ~Has(t, event)
      BY <1>3 DEF Once, Singular
    <3>2. QED
      BY <1>1, <3>1, ExtendOnce DEF LoggedOnce, TypeOK
  <2>2. log'[r] = log[r] \o t
    BY <1>1 DEF Record, TypeOK
  <2>3. QED
    BY <1>2, <2>1, <2>2 DEF LoggedOnce
<1>9. Claimed'
  BY <1>2, <1>3, <1>4 DEF Claimed
<1>10. OneUncancelled'
  <2>1. \A q \in Runs : Uncancelled(q)' => Uncancelled(q)
    BY <1>2, <1>3 DEF Uncancelled
  <2>2. QED
    BY <2>1, NoNewActive
<1>11. QED
  BY <1>5, <1>6, <1>7, <1>8, <1>9, <1>10

\* An executor tries to claim its run.
LEMMA ClaimSteps ==
    ASSUME Inv, NEW r \in Runs, Claim(r)
    PROVE  Inv'
<1> USE DEF Inv, TInv
<1> DEFINE t == <<"started">>
<1>1. /\ starts' \in [Runs -> 0..MaxStarts]
      /\ UNCHANGED <<conversation, draft, cancel, at, reads, shown>>
  <2>1. starts \in [Runs -> 0..MaxStarts] /\ starts' = [starts EXCEPT ![r] = starts[r] - 1]
        /\ starts[r] > 0
    BY DEF Claim, TypeOK
  <2>2. starts[r] - 1 \in 0..MaxStarts
    BY <2>1, ConstantsAssumption
  <2>3. QED
    BY <2>1, <2>2 DEF Claim, streamVars
<1>2. CASE run[r] # "queued"
  <2>1. UNCHANGED <<run, answer, log, exec>>
    BY <1>2 DEF Claim
  <2>2. QED
    BY <1>1, <2>1 DEF TypeOK, LockedExist, Untouched, Unanswered, LoggedOnce, Claimed,
                      OneUncancelled, Uncancelled
<1>3. CASE run[r] = "queued"
  <2>1. /\ Record(r, "retrieving", answer[r], t)
        /\ exec' = [exec EXCEPT ![r] = "recall"]
    BY <1>3 DEF Claim, Goto
  <2>2. /\ t \in Seq(Events)
        /\ "retrieving" \in Active \cup Terminal
        /\ answer[r] \in {"pending"} \cup Terminal
    <3>1. "started" \in Events /\ run[r] \notin Missing
      BY <1>3 DEF Events, Missing
    <3>2. QED
      BY <3>1 DEF TypeOK, Active
  <2>3. /\ RowTypes'
        /\ \A q \in Runs : q # r => run'[q] = run[q] /\ log'[q] = log[q]
        /\ run'[r] = "retrieving"
        /\ \A event : Has(log'[r], event) <=> Has(log[r], event) \/ Has(t, event)
    BY <2>1, <2>2, RecordTypes
  <2>4. /\ log[r] = <<>>
        /\ \A event : ~Has(log[r], event)
        /\ \A event : event # "started" => ~Has(t, event)
    BY <1>3 DEF Untouched, Has
  <2>5. /\ ExecTypes'
        /\ exec'[r] = "recall"
        /\ \A q \in Runs : q # r => exec'[q] = exec[q]
    BY <2>1 DEF TypeOK, ExecTypes, Working
  <2>6. TypeOK'
    BY <1>1, <2>3, <2>5 DEF TypeOK, RowTypes, ExecTypes
  <2>7. LockedExist' /\ Untouched' /\ Claimed'
    BY <1>1, <2>3, <2>5 DEF LockedExist, Untouched, Claimed, Missing, Active
  <2>8. Unanswered'
    BY <2>3, <2>4, <2>5 DEF Unanswered
  <2>9. LoggedOnce'
    <3>1. \A event : Once(<<>> \o t, event)
      <4>1. <<>> \o t = t
        BY <2>2
      <4>2. QED
        BY <4>1 DEF Once
    <3>2. log'[r] = <<>> \o t
      BY <2>1, <2>4 DEF Record, TypeOK
    <3>3. QED
      BY <2>3, <3>1, <3>2 DEF LoggedOnce
  <2>10. OneUncancelled'
    <3>1. \A q \in Runs : Uncancelled(q)' => Uncancelled(q)
      BY <1>3, <2>3 DEF Uncancelled, Active
    <3>2. QED
      BY <3>1, NoNewActive
  <2>11. QED
    BY <2>6, <2>7, <2>8, <2>9, <2>10
<1>4. QED
  BY <1>2, <1>3

\* Steps that only move an executor, on to a stage in which it has done no more
\* than before, or to its end.
LEMMA MoveSteps ==
    ASSUME Inv, NEW r \in Runs, NEW stage \in Working \cup {"ended"},
           exec[r] \in Working,
           stage # "recall",
           stage = "mark" => run[r] \in Active \/ Has(log[r], "cancelled"),
           exec' = [exec EXCEPT ![r] = stage],
           draft' \in [Runs -> BOOLEAN],
           UNCHANGED <<conversation, run, answer, log, cancel, starts, at, reads, shown>>
    PROVE  Inv'
<1> USE DEF Inv, TInv
<1>1. TypeOK'
  BY DEF TypeOK
<1>2. exec'[r] = stage /\ \A q \in Runs : q # r => exec'[q] = exec[q]
  BY DEF TypeOK
<1>3. Untouched' /\ Unanswered' /\ Claimed'
  BY <1>2 DEF Untouched, Unanswered, Claimed, Working
<1>4. LockedExist' /\ LoggedOnce' /\ OneUncancelled'
  BY DEF LockedExist, LoggedOnce, OneUncancelled, Uncancelled
<1>5. QED
  BY <1>1, <1>3, <1>4

\* The reads of an executor, its calls, and the transaction it loses to a
\* cancellation.
LEMMA WorkSteps ==
    ASSUME Inv, NEW r \in Runs,
           \/ MarkRead(r) \/ FinishRead(r) \/ FailRead(r)
           \/ Respond(r) \/ Propose(r) \/ Deadlock(r)
    PROVE  Inv'
<1> USE DEF Inv, TInv
<1>1. CASE MarkRead(r)
  <2>1. /\ exec[r] = "recall"
        /\ UNCHANGED <<conversation, run, answer, log, draft, cancel, starts, at, reads, shown>>
        /\ exec' = [exec EXCEPT ![r] = IF run[r] \in Missing \cup {"cancelled"}
                                      THEN "ended" ELSE "mark"]
    BY <1>1 DEF MarkRead, ReadRun, Goto, rowVars, streamVars
  <2>2. run[r] \notin Missing \cup {"cancelled"} =>
            run[r] \in Active \/ Has(log[r], "cancelled")
    BY <2>1 DEF Claimed, Missing
  <2>3. CASE run[r] \in Missing \cup {"cancelled"}
    BY <2>1, <2>3, MoveSteps DEF Working, TypeOK
  <2>4. CASE run[r] \notin Missing \cup {"cancelled"}
    BY <2>1, <2>2, <2>4, MoveSteps DEF Working, TypeOK
  <2>5. QED
    BY <2>3, <2>4
<1>2. CASE FinishRead(r) \/ FailRead(r) \/ Respond(r) \/ Deadlock(r)
  <2>1. /\ exec[r] \in Working
        /\ UNCHANGED <<conversation, run, answer, log, draft, cancel, starts, at, reads, shown>>
    BY <1>2 DEF FinishRead, FailRead, ReadRun, Respond, Deadlock, Working, rowVars, streamVars
  <2>2. PICK stage \in (Working \cup {"ended"}) \ {"recall", "mark"} :
            exec' = [exec EXCEPT ![r] = stage]
    BY <1>2 DEF FinishRead, FailRead, ReadRun, Respond, Deadlock, Goto, Working
  <2>3. QED
    BY <2>1, <2>2, MoveSteps DEF TypeOK
<1>3. CASE Propose(r)
  <2>1. /\ exec[r] = "propose"
        /\ UNCHANGED <<conversation, run, answer, log, cancel, starts, at, reads, shown>>
        /\ draft' \in [Runs -> BOOLEAN]
    BY <1>3 DEF Propose, streamVars, TypeOK
  <2>2. PICK stage \in {"finish", "fail"} : exec' = [exec EXCEPT ![r] = stage]
    BY <1>3 DEF Propose, Goto
  <2>3. QED
    BY <2>1, <2>2, MoveSteps DEF Working
<1>4. QED
  BY <1>1, <1>2, <1>3

\* An executor marks its run.
LEMMA MarkSteps ==
    ASSUME Inv, NEW r \in Runs, MarkWrite(r)
    PROVE  Inv'
<1> USE DEF Inv, TInv
<1> DEFINE t == <<"retrieved">>
<1>1. /\ exec[r] = "mark"
      /\ UNCHANGED <<conversation, draft, cancel, starts, at, reads, shown>>
  BY DEF MarkWrite, streamVars
<1>2. CASE run[r] \in Missing
  <2>1. exec' = [exec EXCEPT ![r] = "ended"] /\ UNCHANGED <<run, answer, log>>
    BY <1>2 DEF MarkWrite, Goto
  <2>2. QED
    BY <1>1, <2>1, MoveSteps DEF Working, TypeOK
<1>3. CASE run[r] \notin Missing
  <2>1. /\ Record(r, "generating", answer[r], t)
        /\ exec' = [exec EXCEPT ![r] = "respond"]
    BY <1>3 DEF MarkWrite, Goto
  <2>2. /\ t \in Seq(Events)
        /\ "generating" \in Active \cup Terminal
        /\ answer[r] \in {"pending"} \cup Terminal
    <3>1. "retrieved" \in Events
      BY DEF Events
    <3>2. QED
      BY <1>3, <3>1 DEF TypeOK, Active
  <2>3. /\ RowTypes'
        /\ \A q \in Runs : q # r => run'[q] = run[q] /\ log'[q] = log[q]
        /\ run'[r] = "generating"
        /\ \A event : Has(log'[r], event) <=> Has(log[r], event) \/ Has(t, event)
    BY <2>1, <2>2, RecordTypes
  <2>4. \A event : event # "retrieved" => ~Has(t, event)
    BY DEF Has
  <2>5. /\ ExecTypes'
        /\ exec'[r] = "respond"
        /\ \A q \in Runs : q # r => exec'[q] = exec[q]
    BY <2>1 DEF TypeOK, ExecTypes, Working
  <2>6. TypeOK'
    BY <1>1, <2>3, <2>5 DEF TypeOK, RowTypes, ExecTypes
  <2>7. LockedExist' /\ Untouched' /\ Claimed'
    BY <1>1, <2>3, <2>5 DEF LockedExist, Untouched, Claimed, Missing
  <2>8. Unanswered'
    BY <1>1, <2>3, <2>4, <2>5 DEF Unanswered, Working
  <2>9. LoggedOnce'
    <3>1. \A event \in Singular : Once(t, event) /\ ~Has(t, event)
      BY <2>4 DEF Once, Singular
    <3>2. \A event \in Singular : Once(log[r] \o t, event)
      BY <2>2, <3>1, ExtendOnce DEF LoggedOnce, TypeOK
    <3>3. log'[r] = log[r] \o t
      BY <2>1 DEF Record, TypeOK
    <3>4. QED
      BY <2>3, <3>2, <3>3 DEF LoggedOnce
  <2>10. OneUncancelled'
    <3>1. run[r] \in Active \/ Has(log[r], "cancelled")
      BY <1>1, <1>3 DEF Claimed, Missing
    <3>2. \A q \in Runs : Uncancelled(q)' => Uncancelled(q)
      BY <2>3, <3>1 DEF Uncancelled
    <3>3. QED
      BY <3>2, NoNewActive
  <2>11. QED
    BY <2>6, <2>7, <2>8, <2>9, <2>10
<1>4. QED
  BY <1>2, <1>3

\* The last write of an executor, whatever it tells.
LEMMA LastWriteSteps ==
    ASSUME Inv, NEW r \in Runs, NEW stage \in {"finishing", "failing"},
           NEW outcome \in Terminal, NEW t \in Seq(Events),
           \A event \in Singular : Once(t, event), ~Has(t, "started"),
           LastWrite(r, stage, outcome, t)
    PROVE  Inv'
<1> USE DEF Inv, TInv
<1>1. /\ exec[r] \in Working
      /\ exec' = [exec EXCEPT ![r] = "ended"]
      /\ UNCHANGED <<conversation, draft, starts, at, reads, shown>>
  BY DEF LastWrite, Goto, Working, streamVars
<1>2. CASE run[r] \in Missing
  <2>1. UNCHANGED <<run, answer, log, cancel>>
    BY <1>2 DEF LastWrite
  <2>2. QED
    BY <1>1, <2>1, MoveSteps DEF Working, TypeOK
<1>3. CASE run[r] \notin Missing
  <2>1. /\ Record(r, outcome, outcome, t)
        /\ cancel' = [cancel EXCEPT ![r] = IF cancel[r] = "locked" THEN "off" ELSE cancel[r]]
    BY <1>3 DEF LastWrite
  <2>2. /\ RowTypes'
        /\ \A q \in Runs : q # r => run'[q] = run[q] /\ log'[q] = log[q]
        /\ run'[r] = outcome
        /\ \A event : Has(log'[r], event) <=> Has(log[r], event) \/ Has(t, event)
    BY <2>1, RecordTypes
  <2>3. /\ ExecTypes'
        /\ exec'[r] = "ended"
        /\ \A q \in Runs : q # r => exec'[q] = exec[q]
    BY <1>1 DEF TypeOK, ExecTypes
  <2>4. /\ cancel' \in [Runs -> {"off", "seen", "locked"}]
        /\ \A q \in Runs : cancel'[q] = "locked" => q # r /\ cancel[q] = "locked"
    BY <2>1 DEF TypeOK
  <2>5. TypeOK'
    BY <1>1, <2>2, <2>3, <2>4 DEF TypeOK, RowTypes, ExecTypes
  <2>6. LockedExist' /\ Untouched' /\ Claimed' /\ Unanswered'
    BY <2>2, <2>3, <2>4 DEF LockedExist, Untouched, Claimed, Unanswered, Terminal, Working
  <2>7. LoggedOnce'
    <3>1. ~Has(log[r], "answer") /\ ~Has(log[r], "proposal")
      BY <1>1 DEF Unanswered
    <3>2. \A event \in Singular : Once(log[r] \o t, event)
      BY <3>1, ExtendOnce DEF LoggedOnce, TypeOK, Singular
    <3>3. log'[r] = log[r] \o t
      BY <2>1 DEF Record, TypeOK
    <3>4. QED
      BY <2>2, <3>2, <3>3 DEF LoggedOnce
  <2>8. OneUncancelled'
    <3>1. \A q \in Runs : Uncancelled(q)' => Uncancelled(q)
      BY <2>2 DEF Uncancelled, Active, Terminal
    <3>2. QED
      BY <3>1, NoNewActive
  <2>9. QED
    BY <2>5, <2>6, <2>7, <2>8
<1>4. QED
  BY <1>2, <1>3

\* An executor ends its run.
LEMMA EndSteps ==
    ASSUME Inv, NEW r \in Runs, FinishWrite(r) \/ FailWrite(r)
    PROVE  Inv'
<1>1. CASE FinishWrite(r)
  <2> DEFINE t == IF draft[r] THEN <<"answer", "proposal", "completed">>
                              ELSE <<"answer", "completed">>
  <2>1. t \in {<<"answer", "completed">>, <<"answer", "proposal", "completed">>}
    OBVIOUS
  <2>2. t \in Seq(Events)
    <3>1. {"answer", "proposal", "completed"} \subseteq Events
      BY DEF Events
    <3>2. QED
      BY <2>1, <3>1, ShortLogs
  <2>3. (\A event \in Singular : Once(t, event)) /\ ~Has(t, "started")
    BY <2>1 DEF Singular, Once, Has
  <2>4. LastWrite(r, "finishing", "completed", t)
    BY <1>1 DEF FinishWrite
  <2>5. QED
    BY <2>2, <2>3, <2>4, LastWriteSteps DEF Terminal
<1>2. CASE FailWrite(r)
  <2> DEFINE t == <<"failed">>
  <2>1. "failed" \in Events
    BY DEF Events
  <2>2. t \in Seq(Events)
    BY <2>1
  <2>3. (\A event \in Singular : Once(t, event)) /\ ~Has(t, "started")
    BY DEF Singular, Once, Has
  <2>4. LastWrite(r, "failing", "failed", t)
    BY <1>2 DEF FailWrite
  <2>5. QED
    BY <2>2, <2>3, <2>4, LastWriteSteps DEF Terminal
<1>3. QED
  BY <1>1, <1>2

\* The server restarts.
LEMMA RestartSteps ==
    ASSUME Inv, Restart
    PROVE  Inv'
<1> USE DEF Inv, TInv
<1>1. /\ UNCHANGED <<conversation, run, answer, log, draft>>
      /\ \A r \in Runs : cancel'[r] = "off"
      /\ \A r \in Runs : exec'[r] \in Working \cup {"idle"} => exec'[r] = exec[r]
      /\ \A r \in Runs : exec'[r] \notin Working
      /\ \A r \in Runs : exec[r] = "idle" => exec'[r] = "idle"
  BY DEF Restart, rowVars, Working
<1>2. TypeOK'
  <2>1. 0 \in 0..MaxStarts
    BY ConstantsAssumption
  <2>2. starts' \in [Runs -> 0..MaxStarts]
    BY <2>1 DEF Restart
  <2>3. ExecTypes'
    BY DEF Restart, ExecTypes, TypeOK
  <2>4. QED
    BY <1>1, <2>2, <2>3 DEF Restart, TypeOK, ExecTypes
<1>3. LockedExist' /\ Untouched' /\ Unanswered' /\ Claimed'
  BY <1>1 DEF LockedExist, Untouched, Unanswered, Claimed, Working
<1>4. LoggedOnce' /\ OneUncancelled'
  BY <1>1 DEF LoggedOnce, OneUncancelled, Uncancelled
<1>5. QED
  BY <1>2, <1>3, <1>4

-----------------------------------------------------------------------------
\* Every step keeps the inductive invariant.
LEMMA StepInv == Inv /\ [Next]_vars => Inv'
<1> SUFFICES ASSUME Inv, [Next]_vars
             PROVE  Inv'
  OBVIOUS
<1>1. CASE \/ UpdateConversation
           \/ \E r \in Runs : CancelRead(r) \/ CancelLock(r)
           \/ \E x \in Streams : Stream(x)
  BY <1>1, IdleSteps
<1>2. CASE DeleteConversation
  BY <1>2, DeleteSteps
<1>3. CASE Restart
  BY <1>3, RestartSteps
<1>4. CASE \E r \in Runs : SendMessage(r) \/ CancelWrite(r) \/ Claim(r)
  BY <1>4, SendSteps, CancelSteps, ClaimSteps
<1>5. CASE \E r \in Runs : Execute(r)
  BY <1>5, WorkSteps, MarkSteps, EndSteps DEF Execute
<1>6. CASE UNCHANGED vars
  BY <1>6 DEF vars, rowVars, streamVars, Inv, TInv, TypeOK, LockedExist, Untouched, Unanswered,
              LoggedOnce, Claimed, OneUncancelled, Uncancelled
<1>7. QED
  BY <1>1, <1>2, <1>3, <1>4, <1>5, <1>6 DEF Next, Cancel

\* The inductive invariant holds in every reachable state.
LEMMA Invariance == Spec => []Inv
<1>1. Init => Inv
  BY InitInv
<1>2. Inv /\ [Next]_vars => Inv'
  BY StepInv
<1>3. QED
  BY <1>1, <1>2, PTL DEF Spec

\* Every variable has its type, and a run exists together with its message.
THEOREM ConversationTypes == Spec => []TypeOK
<1>1. Inv => TypeOK
  BY DEF Inv, TInv
<1>2. QED
  BY <1>1, Invariance, PTL

\* However many streams are opened on a run, one executor answers it once.
THEOREM RunsExecuteOnce == Spec => []ExecutedOnce
<1>1. Inv => ExecutedOnce
  <2> SUFFICES ASSUME Inv, NEW r \in Runs, NEW event \in Singular
               PROVE  Cardinality(Occurrences(r, event)) <= 1
    BY DEF ExecutedOnce, Singular
  <2>1. log[r] \in Seq(Events) /\ Once(log[r], event)
    BY DEF Inv, TInv, TypeOK, LoggedOnce
  <2>2. QED
    BY <2>1, OnceIsOne
<1>2. QED
  BY <1>1, Invariance, PTL

\* At most one run of the conversation is active, those that were cancelled
\* once left aside.
THEOREM OneRunUncancelled == Spec => []OneActiveUncancelled
<1>1. Inv => OneActiveUncancelled
  <2> SUFFICES ASSUME Inv, NEW q \in Runs, NEW r \in Runs,
                      run[q] \in Active, Occurrences(q, "cancelled") = {},
                      run[r] \in Active, Occurrences(r, "cancelled") = {}
               PROVE  q = r
    BY DEF OneActiveUncancelled
  <2>1. ~Has(log[q], "cancelled") /\ ~Has(log[r], "cancelled")
    BY DEF Has, Occurrences
  <2>2. QED
    BY <2>1 DEF Inv, OneUncancelled, Uncancelled
<1>2. QED
  BY <1>1, Invariance, PTL

-----------------------------------------------------------------------------
Last(s) == s[Len(s)]

\* A transaction that leaves the run active, or tells its end in all three
\* places, keeps run, message and log together.
LEMMA RecordTogether ==
    ASSUME TypeOK, EndsTogether, NEW r \in Runs, NEW st, NEW a, NEW t \in Seq(Events),
           Record(r, st, a, t),
           st \in Terminal => a = st /\ t # <<>> /\ Last(t) = st
    PROVE  EndsTogether'
<1>1. /\ \A q \in Runs : q # r => run'[q] = run[q] /\ answer'[q] = answer[q] /\ log'[q] = log[q]
      /\ run'[r] = st /\ answer'[r] = a /\ log'[r] = log[r] \o t
      /\ log[r] \in Seq(Events)
  BY DEF Record, TypeOK
<1>2. st \in Terminal => log[r] \o t # <<>> /\ (log[r] \o t)[Len(log[r] \o t)] = st
  <2>1. Len(log[r] \o t) = Len(log[r]) + Len(t) /\ Len(t) \in Nat /\ Len(log[r]) \in Nat
    BY <1>1
  <2>2. t # <<>> => Len(t) > 0
    BY <2>1
  <2>3. Len(t) > 0 => (log[r] \o t)[Len(log[r]) + Len(t)] = t[Len(t)]
    BY <1>1, <2>1
  <2>4. Len(t) > 0 => log[r] \o t # <<>>
    BY <2>1
  <2>5. QED
    BY <2>1, <2>2, <2>3, <2>4 DEF Last
<1>3. QED
  BY <1>1, <1>2 DEF EndsTogether

\* Every step keeps run, message and log together.
LEMMA StepTogether == Inv /\ EndsTogether /\ [Next]_vars => EndsTogether'
<1> SUFFICES ASSUME Inv, EndsTogether, [Next]_vars
             PROVE  EndsTogether'
  OBVIOUS
<1>1. TypeOK /\ {"started", "retrieved", "failed", "cancelled", "answer", "proposal", "completed"}
                 \subseteq Events
  BY DEF Inv, TInv, Events
<1>2. CASE UNCHANGED <<run, answer, log>>
  BY <1>2 DEF EndsTogether
<1>3. CASE DeleteConversation
  BY <1>3 DEF DeleteConversation, EndsTogether, Terminal
<1>4. ASSUME NEW r \in Runs, SendMessage(r)
      PROVE  EndsTogether'
  <2>1. Record(r, "queued", "pending", <<>>) /\ <<>> \in Seq(Events) /\ "queued" \notin Terminal
    BY <1>4 DEF SendMessage, Terminal
  <2>2. QED
    BY <1>1, <2>1, RecordTogether
<1>5. ASSUME NEW r \in Runs, Claim(r), ~UNCHANGED <<run, answer, log>>
      PROVE  EndsTogether'
  <2>1. Record(r, "retrieving", answer[r], <<"started">>) /\ "retrieving" \notin Terminal
    BY <1>5 DEF Claim, Terminal
  <2>2. QED
    BY <1>1, <2>1, RecordTogether, ShortLogs
<1>6. ASSUME NEW r \in Runs, MarkWrite(r), ~UNCHANGED <<run, answer, log>>
      PROVE  EndsTogether'
  <2>1. Record(r, "generating", answer[r], <<"retrieved">>) /\ "generating" \notin Terminal
    BY <1>6 DEF MarkWrite, Terminal
  <2>2. QED
    BY <1>1, <2>1, RecordTogether, ShortLogs
<1>7. ASSUME NEW r \in Runs, CancelWrite(r)
      PROVE  EndsTogether'
  <2> DEFINE t == <<"cancelled">>
  <2>1. Record(r, "cancelled", "cancelled", t) /\ t \in Seq(Events)
    BY <1>1, <1>7, ShortLogs DEF CancelWrite
  <2>2. t # <<>> /\ Last(t) = "cancelled"
    BY DEF Last
  <2>3. QED
    BY <1>1, <2>1, <2>2, RecordTogether
<1>8. ASSUME NEW r \in Runs, FailWrite(r), ~UNCHANGED <<run, answer, log>>
      PROVE  EndsTogether'
  <2> DEFINE t == <<"failed">>
  <2>1. Record(r, "failed", "failed", t) /\ t \in Seq(Events)
    BY <1>1, <1>8, ShortLogs DEF FailWrite, LastWrite
  <2>2. t # <<>> /\ Last(t) = "failed"
    BY DEF Last
  <2>3. QED
    BY <1>1, <2>1, <2>2, RecordTogether
<1>9. ASSUME NEW r \in Runs, FinishWrite(r), ~UNCHANGED <<run, answer, log>>
      PROVE  EndsTogether'
  <2>1. PICK t \in {<<"answer", "completed">>, <<"answer", "proposal", "completed">>} :
            Record(r, "completed", "completed", t)
    BY <1>9 DEF FinishWrite, LastWrite
  <2>2. t \in Seq(Events)
    BY <1>1, <2>1, ShortLogs
  <2>3. t # <<>> /\ Last(t) = "completed"
    <3>1. CASE t = <<"answer", "completed">>
      <4>1. Len(t) = 2 /\ t[2] = "completed"
        BY <3>1
      <4>2. QED
        BY <4>1 DEF Last
    <3>2. CASE t = <<"answer", "proposal", "completed">>
      <4>1. Len(t) = 3 /\ t[3] = "completed"
        BY <3>2
      <4>2. QED
        BY <4>1 DEF Last
    <3>3. QED
      BY <2>1, <3>1, <3>2
  <2>4. QED
    BY <1>1, <2>1, <2>2, <2>3, RecordTogether
<1>10. CASE /\ ~UNCHANGED <<run, answer, log>>
            /\ ~DeleteConversation
            /\ \A r \in Runs : ~(SendMessage(r) \/ Claim(r) \/ MarkWrite(r) \/ CancelWrite(r)
                                  \/ FailWrite(r) \/ FinishWrite(r))
  <2>1. ASSUME UpdateConversation \/ Restart
        PROVE  UNCHANGED <<run, answer, log>>
    BY <2>1 DEF UpdateConversation, Restart, rowVars
  <2>2. ASSUME NEW x \in Streams, Stream(x)
        PROVE  UNCHANGED <<run, answer, log>>
    BY <2>2 DEF Stream, Connect, ReadEvents, ReadStatus, Disconnect, rowVars
  <2>3. ASSUME NEW r \in Runs,
               \/ CancelRead(r) \/ CancelLock(r) \/ MarkRead(r) \/ Respond(r) \/ Propose(r)
               \/ FinishRead(r) \/ FailRead(r) \/ Deadlock(r)
        PROVE  UNCHANGED <<run, answer, log>>
    BY <2>3 DEF CancelRead, CancelLock, MarkRead, Respond, Propose, FinishRead, FailRead,
                ReadRun, Deadlock, rowVars
  <2>4. ASSUME UNCHANGED vars
        PROVE  UNCHANGED <<run, answer, log>>
    BY <2>4 DEF vars, rowVars
  <2>5. QED
    BY <1>10, <2>1, <2>2, <2>3, <2>4 DEF Next, Cancel, Execute
<1>11. QED
  BY <1>2, <1>3, <1>4, <1>5, <1>6, <1>7, <1>8, <1>9, <1>10

\* The run, its assistant message and its last event agree on how it ended.
THEOREM RunsEndTogether == Spec => []EndsTogether
<1>1. Init => EndsTogether
  BY DEF Init, EndsTogether, Terminal
<1>2. QED
  BY <1>1, StepTogether, Invariance, PTL DEF Spec
=============================================================================
