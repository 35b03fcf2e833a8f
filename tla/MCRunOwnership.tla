--------------------------- MODULE MCRunOwnership ---------------------------
(* RunOwnership on small instances. *)
EXTENDS RunOwnership, TLC

CONSTANTS r1, r2

\* r1 goes through effects, parks and wakes; r2 competes with it for the slot.
Depth == [r \in Runs |-> IF r = r1 THEN 3 ELSE 1]

Symmetry == Permutations(Pids)
=============================================================================
