----------------------------- MODULE DraftStore -----------------------------
(***************************************************************************)
(* What the server promises of the drafts of memories: a draft that waits  *)
(* is confirmed, rejected or expires, once; a memory comes into being with *)
(* the confirmation of a draft that proposes it, and is the only one of    *)
(* its id; and what has led to a memory is kept as long as the memory.     *)
(***************************************************************************)
CONSTANTS Jobs, Memories, Nobody, Bare

VARIABLES
    life,       \* what became of each job and its draft
    proposed,   \* the memory that a draft proposes
    holder,     \* the job that led to a memory; Nobody while there is none
    erased      \* the memories that were deleted

draftStoreVars == <<life, proposed, holder, erased>>

DraftStoreInit ==
    /\ life = [j \in Jobs |-> "none"] /\ proposed = [j \in Jobs |-> Nobody]
    /\ holder = [m \in Memories |-> Nobody] /\ erased = {}

Becomes(j, before, after) == life[j] \in before /\ life' = [life EXCEPT ![j] = after]

Open(j) == Becomes(j, {"none", "open"}, "open") /\ UNCHANGED <<proposed, holder, erased>>

Propose(j, m) ==
    /\ Becomes(j, {"none", "open"}, "waiting") /\ proposed' = [proposed EXCEPT ![j] = m]
    /\ UNCHANGED <<holder, erased>>

\* Of a draft that waits, or that is made to be confirmed.
Confirm(j, m) ==
    /\ Becomes(j, {"none", "waiting"}, "confirmed")
    /\ life[j] = "waiting" => proposed[j] = m
    /\ holder[m] = Nobody /\ holder' = [holder EXCEPT ![m] = j]
    /\ proposed' = [proposed EXCEPT ![j] = m] /\ UNCHANGED erased

Withdraw(j) == Becomes(j, {"open", "waiting"}, "rejected") /\ UNCHANGED <<proposed, holder, erased>>
Expire(j) == Becomes(j, {"waiting"}, "expired") /\ UNCHANGED <<proposed, holder, erased>>

Forget(j) ==
    /\ Becomes(j, {"open", "confirmed", "rejected", "expired"}, "deleted")
    /\ \A m \in Memories : holder[m] # j
    /\ UNCHANGED <<proposed, holder, erased>>

Erase(m) ==
    /\ holder[m] # Nobody /\ holder' = [holder EXCEPT ![m] = Nobody]
    /\ erased' = erased \union {m} /\ UNCHANGED <<life, proposed>>

\* A save that found the memory may bring back one that was deleted meanwhile.
Restore(m) ==
    /\ m \in erased /\ holder[m] = Nobody /\ holder' = [holder EXCEPT ![m] = Bare]
    /\ UNCHANGED <<life, proposed, erased>>

DraftStoreNext ==
    \/ \E j \in Jobs : \/ Open(j) \/ Withdraw(j) \/ Expire(j) \/ Forget(j)
                       \/ \E m \in Memories : Propose(j, m) \/ Confirm(j, m)
    \/ \E m \in Memories : Erase(m) \/ Restore(m)

DraftStoreSpec == DraftStoreInit /\ [][DraftStoreNext]_draftStoreVars
=============================================================================
