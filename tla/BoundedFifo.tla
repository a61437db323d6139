----------------------------- MODULE BoundedFifo -----------------------------
(* What a bounded queue between two threads promises: values come out in the  *)
(* order they went in, none is lost or made up, and no more than Capacity wait. *)
EXTENDS Integers, Sequences

CONSTANTS Value, Capacity, NoValue

VARIABLES
    items,     \* the values that wait, oldest first
    received   \* the last value taken out

vars == <<items, received>>

Init == items = <<>> /\ received = NoValue

Insert(v) == Len(items) < Capacity /\ items' = Append(items, v) /\ UNCHANGED received

Take == items # <<>> /\ received' = Head(items) /\ items' = Tail(items)

\* The owner empties the queue while nobody uses it.
Clear == items' = <<>> /\ received' = NoValue

Next == (\E v \in Value : Insert(v)) \/ Take \/ Clear

Spec == Init /\ [][Next]_vars
=============================================================================
