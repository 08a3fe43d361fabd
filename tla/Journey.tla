------------------------------- MODULE Journey -------------------------------
(***************************************************************************)
(* What travelling in the universe promises: one is at a place and bound   *)
(* for at most one other; one arrives where one was bound, or gives it up. *)
(* The only other way to change the place is to be recalled home, which is *)
(* what a cosmos loaded anew does.                                         *)
(***************************************************************************)
CONSTANTS Places, Home, Nowhere

VARIABLES place, bound

JourneyInit == place = Home /\ bound = Nowhere

SetOut == bound = Nowhere /\ bound' \in Places /\ UNCHANGED place
GiveUp == bound # Nowhere /\ bound' = Nowhere /\ UNCHANGED place
Reach == bound # Nowhere /\ place' = bound /\ bound' = Nowhere
Recalled == place' = Home /\ UNCHANGED bound

JourneyNext == SetOut \/ GiveUp \/ Reach \/ Recalled
JourneySpec == JourneyInit /\ [][JourneyNext]_<<place, bound>>
=============================================================================
