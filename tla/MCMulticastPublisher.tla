------------------------ MODULE MCMulticastPublisher ------------------------
(* The multicast publisher with a few producer threads. *)
EXTENDS MulticastPublisher, TLC

CONSTANTS p1, p2, p3

TwoProducers == {p1, p2}
ThreeProducers == {p1, p2, p3}
OnceEach == [t \in Producer |-> 1]
OneSendsTwice == [t \in Producer |-> IF t = p1 THEN 2 ELSE 1]
SymmetryOfOthers == Permutations(Producer \ {p1})
=============================================================================
