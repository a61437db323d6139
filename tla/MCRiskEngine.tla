---------------------------- MODULE MCRiskEngine ----------------------------
(* Two clients that meet in one symbol, one of them in a second symbol too,    *)
(* and limits tight enough for each of them to bind.                          *)
EXTENDS RiskEngine, TLC

CONSTANTS c1, c2, s1, s2, o1, o2

MCClient == {c1, c2}
MCSymbol == {s1, s2}
MCOrderId == {o1, o2}
MCPrice == {1, -2}
MCTraded == [c \in Client |-> IF c = c1 THEN {s1, s2} ELSE {s1}]

Symmetry == Permutations(OrderId)
=============================================================================
