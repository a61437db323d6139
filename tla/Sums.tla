-------------------------------- MODULE Sums --------------------------------
(* Sums of quantities, as the number of their units: a sum of naturals is the   *)
(* cardinality of a disjoint union, about which there are theorems to cite.     *)
EXTENDS Integers, FiniteSets

\* A unit for every one of f[x], apart for every x of S.
Units(f, S) == UNION {{x} \X (1 .. f[x]) : x \in S}

\* The sum of f[x], a natural number, over the x of S.
SumOver(f, S) == Cardinality(Units(f, S))
=============================================================================
