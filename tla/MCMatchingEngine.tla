-------------------------- MODULE MCMatchingEngine --------------------------
(* Instances of the matching engine, with the market it implements.            *)
EXTENDS MatchingRefinement, TLC

CONSTANTS o1, o2, o3

MCOrderId == {o1, o2, o3}
MCPrice == 1 .. 2
Symmetry == Permutations(OrderId)
=============================================================================
