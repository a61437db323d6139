-------------------------------- MODULE Maps --------------------------------
(* Functions with a growing and shrinking domain: the std::map and             *)
(* std::unordered_map members of the code.                                     *)
EXTENDS Functions

\* f is a partial function from K to V.
IsMap(f, K, V) == DOMAIN f \subseteq K /\ f \in [DOMAIN f -> V]

EmptyMap == [x \in {} |-> {}]

Put(f, k, v) == [x \in DOMAIN f \cup {k} |-> IF x = k THEN v ELSE f[x]]

\* erase of a key that may be absent
Erase(f, k) == Restrict(f, DOMAIN f \ {k})
=============================================================================
