---------------------------- MODULE MemoryOutbox ----------------------------
(***************************************************************************)
(* What the outbox of the memories promises.  Storing or deleting a memory *)
(* queues one entry, once for a version; an entry that waits is exported   *)
(* once, after the uploads of the earlier versions, or is given up until   *)
(* an operator puts it back; and a deletion voids every entry of the       *)
(* memory for good.                                                        *)
(***************************************************************************)
EXTENDS Integers

CONSTANTS Memories, Legacy, LastVersion

VARIABLES
    held,       \* the memories that are stored
    version,    \* the version of a memory, 0 when it has none
    entry       \* what became of each entry

memoryOutboxVars == <<held, version, entry>>

Entries == [mem : Memories, ver : 1..LastVersion, del : BOOLEAN]
Upload(m, v) == [mem |-> m, ver |-> v, del |-> FALSE]
Removal(m, v) == [mem |-> m, ver |-> v, del |-> TRUE]

MemoryOutboxInit ==
    /\ held = Legacy
    /\ version = [m \in Memories |-> 0]
    /\ entry = [e \in Entries |-> "none"]

Queued(e, entries) == IF entries[e] = "none" THEN [entries EXCEPT ![e] = "waiting"] ELSE entries
Voided(m) == [e \in Entries |-> IF e.mem = m /\ entry[e] # "none" THEN "void" ELSE entry[e]]

\* A memory from before there were versions has had its first one.
NextVersion(m) == IF m \in held /\ version[m] = 0 THEN 2 ELSE version[m] + 1

Store(m) ==
    LET v == NextVersion(m)
    IN  /\ v < LastVersion
        /\ held' = held \cup {m}
        /\ version' = [version EXCEPT ![m] = v]
        /\ entry' = Queued(Upload(m, v), entry)

Delete(m) ==
    /\ m \in held /\ held' = held \ {m}
    /\ version' = [version EXCEPT ![m] = 0]
    /\ entry' = Queued(Removal(m, version[m] + 1), Voided(m))

Becomes(e, before, after) ==
    entry[e] = before /\ entry' = [entry EXCEPT ![e] = after] /\ UNCHANGED <<held, version>>

\* Nothing of an earlier version is sent any more.
InTurn(e) ==
    \A f \in Entries : f.mem = e.mem /\ f.ver < e.ver /\ ~f.del => entry[f] \in {"sent", "void"}

Export(e) == (e.mem \notin Legacy => InTurn(e)) /\ Becomes(e, "waiting", "sent")
GiveUp(e) == Becomes(e, "waiting", "stuck")
PutBack(e) == Becomes(e, "stuck", "waiting")

MemoryOutboxNext ==
    \/ \E m \in Memories : Store(m) \/ Delete(m)
    \/ \E e \in Entries : Export(e) \/ GiveUp(e) \/ PutBack(e)

MemoryOutboxSpec == MemoryOutboxInit /\ [][MemoryOutboxNext]_memoryOutboxVars
=============================================================================
