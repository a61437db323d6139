----------------------------- MODULE MCSpscRing -----------------------------
(* The ring with a few slots and a position type that wraps soon. *)
EXTENDS SpscRing, TLC

CONSTANTS v1, v2

MCValue == {v1, v2}
Symmetry == Permutations(Value)
=============================================================================
