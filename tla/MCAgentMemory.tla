--------------------------- MODULE MCAgentMemory ---------------------------
(* Instances of AgentMemory for model checking. *)
EXTENDS AgentMemory, TLC

CONSTANTS m1, w1, w2

OneMemory == {m1}
OneWorker == {w1}
TwoWorkers == {w1, w2}
NoMemory == {}

WorkerSymmetry == Permutations({w1, w2})
=============================================================================
