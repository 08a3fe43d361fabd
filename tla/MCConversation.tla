--------------------------- MODULE MCConversation ---------------------------
(* Instances of Conversation for model checking. *)
EXTENDS Conversation, TLC

CONSTANTS r1, r2, x1, x2

OneRun == {r1}
TwoRuns == {r1, r2}
OneStream == {x1}
TwoStreams == {x1, x2}

RunSymmetry == Permutations(TwoRuns)
=============================================================================
