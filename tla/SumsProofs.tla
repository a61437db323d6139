----------------------------- MODULE SumsProofs -----------------------------
(***************************************************************************)
(* SumOver is what a sum should be: zero of nothing, and the sum of the    *)
(* rest and one element's share for any element. Order and names of the    *)
(* elements do not matter.                                                 *)
(***************************************************************************)
EXTENDS Sums, FiniteSetTheorems, TLAPS

Summable(f, S) == IsFiniteSet(S) /\ \A x \in S : f[x] \in Nat

\* The share of one element.
LEMMA OwnUnits ==
    ASSUME NEW x, NEW n \in Nat
    PROVE  IsFiniteSet({x} \X (1 .. n)) /\ Cardinality({x} \X (1 .. n)) = n
<1>1. IsFiniteSet(1 .. n) /\ Cardinality(1 .. n) = n
  BY FS_Interval
<1>2. IsFiniteSet({x}) /\ Cardinality({x}) = 1
  BY FS_Singleton
<1>3. IsFiniteSet({x} \X (1 .. n)) /\ Cardinality({x} \X (1 .. n)) = 1 * n
  BY <1>1, <1>2, FS_Product
<1>4. Cardinality({x} \X (1 .. n)) = n
  BY <1>3
<1> QED  BY <1>3, <1>4

\* The sum of finitely many naturals is a natural.
LEMMA SumIsNat ==
    ASSUME NEW f, NEW S, Summable(f, S)
    PROVE  IsFiniteSet(Units(f, S)) /\ SumOver(f, S) \in Nat
<1> DEFINE family == {{x} \X (1 .. f[x]) : x \in S}
           share == [x \in S |-> {x} \X (1 .. f[x])]
<1>1. share \in Surjection(S, family)
  BY DEF Surjection
<1>2. IsFiniteSet(family)
  <2> HIDE DEF family, share
  <2> QED  BY <1>1, FS_Surjection DEF Summable
<1>3. \A T \in family : IsFiniteSet(T)
  <2>1. ASSUME NEW x \in S
        PROVE  IsFiniteSet({x} \X (1 .. f[x]))
    BY OwnUnits DEF Summable
  <2> QED  BY <2>1
<1>4. IsFiniteSet(Units(f, S))
  BY <1>2, <1>3, FS_UNION DEF Units
<1> QED  BY <1>4, FS_CardinalityType DEF SumOver

LEMMA SumOfNone ==
    ASSUME NEW f
    PROVE  SumOver(f, {}) = 0
BY FS_EmptySet DEF SumOver, Units

\* Only the values on S count.
LEMMA SumSame ==
    ASSUME NEW f, NEW g, NEW S, \A x \in S : g[x] = f[x]
    PROVE  SumOver(g, S) = SumOver(f, S)
BY DEF SumOver, Units

\* An element adds its value.
LEMMA SumWithout ==
    ASSUME NEW f, NEW S, Summable(f, S), NEW x \in S
    PROVE  SumOver(f, S \ {x}) \in Nat /\ SumOver(f, S) = SumOver(f, S \ {x}) + f[x]
<1> DEFINE rest == Units(f, S \ {x})
           own == {x} \X (1 .. f[x])
<1>1. f[x] \in Nat /\ Summable(f, S \ {x})
  BY FS_RemoveElement DEF Summable
<1>2. IsFiniteSet(rest) /\ Cardinality(rest) \in Nat
  BY <1>1, SumIsNat DEF SumOver
<1>3. IsFiniteSet(own) /\ Cardinality(own) = f[x]
  BY <1>1, OwnUnits
<1>4. Units(f, S) = rest \cup own
  BY DEF Units
<1>5. rest \cap own = {}
  BY DEF Units
<1>6. Cardinality(rest \cap own) = 0
  BY <1>5, FS_EmptySet
<1>7. Cardinality(rest \cup own) = Cardinality(rest) + Cardinality(own) - Cardinality(rest \cap own)
  BY <1>2, <1>3, FS_Union
<1> QED  BY <1>1, <1>2, <1>3, <1>4, <1>6, <1>7 DEF SumOver

\* Renaming the elements does not change the sum.
LEMMA SumRenamed ==
    ASSUME NEW f, NEW S, Summable(f, S), NEW g, NEW T, NEW h \in Bijection(S, T),
           \A x \in S : g[h[x]] = f[x]
    PROVE  SumOver(g, T) = SumOver(f, S)
<1> DEFINE rename == [u \in Units(f, S) |-> <<h[u[1]], u[2]>>]
<1>1. /\ h \in [S -> T]
      /\ \A x, y \in S : h[x] = h[y] => x = y
      /\ \A t \in T : \E x \in S : h[x] = t
  BY DEF Bijection, Injection, Surjection, IsInjective
<1>2. ASSUME NEW u \in Units(f, S)
      PROVE  u[1] \in S /\ u[2] \in 1 .. f[u[1]] /\ u = <<u[1], u[2]>>
  BY DEF Units
<1>3. ASSUME NEW v \in Units(g, T)
      PROVE  v[1] \in T /\ v[2] \in 1 .. g[v[1]] /\ v = <<v[1], v[2]>>
  BY DEF Units
<1>4. rename \in [Units(f, S) -> Units(g, T)]
  <2> SUFFICES ASSUME NEW u \in Units(f, S)
               PROVE  <<h[u[1]], u[2]>> \in Units(g, T)
    OBVIOUS
  <2>1. h[u[1]] \in T /\ u[2] \in 1 .. g[h[u[1]]]
    BY <1>1, <1>2
  <2> QED  BY <2>1 DEF Units
<1>5. \A u, w \in Units(f, S) : rename[u] = rename[w] => u = w
  <2> SUFFICES ASSUME NEW u \in Units(f, S), NEW w \in Units(f, S), rename[u] = rename[w]
               PROVE  u = w
    OBVIOUS
  <2>1. h[u[1]] = h[w[1]] /\ u[2] = w[2]
    OBVIOUS
  <2> QED  BY <1>1, <1>2, <2>1
<1>6. \A v \in Units(g, T) : \E u \in Units(f, S) : rename[u] = v
  <2> SUFFICES ASSUME NEW v \in Units(g, T)
               PROVE  \E u \in Units(f, S) : rename[u] = v
    OBVIOUS
  <2>1. PICK x \in S : h[x] = v[1]
    BY <1>1, <1>3
  <2>2. v[2] \in 1 .. f[x]
    BY <1>3, <2>1
  <2>3. <<x, v[2]>> \in Units(f, S)
    BY <2>2 DEF Units
  <2>4. rename[<<x, v[2]>>] = <<h[x], v[2]>>
    BY <2>3
  <2> QED  BY <1>3, <2>1, <2>3, <2>4
<1>7. rename \in Bijection(Units(f, S), Units(g, T))
  BY <1>4, <1>5, <1>6 DEF Bijection, Injection, Surjection, IsInjective
<1>8. ExistsBijection(Units(f, S), Units(g, T))
  BY <1>7 DEF ExistsBijection
<1> QED  BY <1>8, SumIsNat, FS_Bijection DEF SumOver

\* A larger value at every element, a larger sum.
LEMMA SumMonotone ==
    ASSUME NEW f, NEW g, NEW S, Summable(f, S), Summable(g, S), \A x \in S : f[x] <= g[x]
    PROVE  SumOver(f, S) <= SumOver(g, S)
<1>1. Units(f, S) \subseteq Units(g, S)
  <2> SUFFICES ASSUME NEW x \in S PROVE {x} \X (1 .. f[x]) \subseteq {x} \X (1 .. g[x])
    BY DEF Units
  <2>1. f[x] \in Nat /\ g[x] \in Nat /\ f[x] <= g[x]
    BY DEF Summable
  <2>2. 1 .. f[x] \subseteq 1 .. g[x]
    BY <2>1
  <2> QED  BY <2>2
<1>2. IsFiniteSet(Units(g, S))
  BY SumIsNat
<1> QED  BY <1>1, <1>2, FS_Subset DEF SumOver

\* One value changes: the sum changes by as much.
LEMMA SumChanged ==
    ASSUME NEW f, NEW g, NEW S, Summable(f, S), NEW x \in S, g[x] \in Nat,
           \A y \in S \ {x} : g[y] = f[y]
    PROVE  /\ SumOver(f, S) \in Nat
           /\ SumOver(g, S) = (SumOver(f, S) - f[x]) + g[x]
<1>1. Summable(g, S)
  BY DEF Summable
<1>2. SumOver(g, S \ {x}) = SumOver(f, S \ {x})
  BY SumSame
<1>3. SumOver(f, S \ {x}) \in Nat /\ SumOver(f, S) = SumOver(f, S \ {x}) + f[x]
  BY SumWithout
<1>4. SumOver(g, S) = SumOver(g, S \ {x}) + g[x]
  BY <1>1, SumWithout
<1>5. f[x] \in Nat
  BY DEF Summable
<1> QED  BY <1>2, <1>3, <1>4, <1>5

\* A list becomes longer by one value.
LEMMA SumExtended ==
    ASSUME NEW n \in Nat, NEW f, NEW g, \A i \in 1 .. n : f[i] \in Nat,
           \A i \in 1 .. n : g[i] = f[i], g[n + 1] \in Nat
    PROVE  /\ SumOver(f, 1 .. n) \in Nat
           /\ SumOver(g, 1 .. n + 1) = SumOver(f, 1 .. n) + g[n + 1]
<1>1. IsFiniteSet(1 .. n) /\ IsFiniteSet(1 .. n + 1)
  BY FS_Interval
<1>2. Summable(f, 1 .. n)
  BY <1>1 DEF Summable
<1>3. Summable(g, 1 .. n + 1)
  <2>1. \A i \in 1 .. n + 1 : i \in 1 .. n \/ i = n + 1
    OBVIOUS
  <2> QED  BY <1>1, <2>1 DEF Summable
<1>4. n + 1 \in 1 .. n + 1 /\ (1 .. n + 1) \ {n + 1} = 1 .. n
  OBVIOUS
<1>5. SumOver(g, 1 .. n + 1) = SumOver(g, (1 .. n + 1) \ {n + 1}) + g[n + 1]
  BY <1>3, <1>4, SumWithout
<1>6. SumOver(g, 1 .. n) = SumOver(f, 1 .. n)
  BY SumSame
<1> QED  BY <1>2, <1>4, <1>5, <1>6, SumIsNat

\* A list loses its i-th value and closes up.
LEMMA SumClosedUp ==
    ASSUME NEW n \in Nat, NEW f, NEW g, NEW i \in 1 .. n, \A k \in 1 .. n : f[k] \in Nat,
           \A k \in 1 .. n - 1 : k < i => g[k] = f[k],
           \A k \in 1 .. n - 1 : ~(k < i) => g[k] = f[k + 1]
    PROVE  /\ SumOver(g, 1 .. n - 1) \in Nat
           /\ SumOver(f, 1 .. n) = SumOver(g, 1 .. n - 1) + f[i]
<1> DEFINE old == [k \in 1 .. n - 1 |-> IF k < i THEN k ELSE k + 1]
<1>1. IsFiniteSet(1 .. n) /\ IsFiniteSet(1 .. n - 1)
  BY FS_Interval
<1>2. Summable(f, 1 .. n)
  BY <1>1 DEF Summable
<1>3. \A k \in 1 .. n - 1 : old[k] \in (1 .. n) \ {i} /\ g[k] = f[old[k]]
  OBVIOUS
<1>4. Summable(g, 1 .. n - 1)
  BY <1>1, <1>3 DEF Summable
<1>5. old \in Bijection(1 .. n - 1, (1 .. n) \ {i})
  <2>1. old \in [1 .. n - 1 -> (1 .. n) \ {i}]
    OBVIOUS
  <2>2. \A k, m \in 1 .. n - 1 : old[k] = old[m] => k = m
    OBVIOUS
  <2>3. ASSUME NEW m \in (1 .. n) \ {i}
        PROVE  \E k \in 1 .. n - 1 : old[k] = m
    <3>1. CASE m < i
      <4>1. m \in 1 .. n - 1 /\ old[m] = m
        BY <3>1
      <4> QED  BY <4>1
    <3>2. CASE m > i
      <4>1. m - 1 \in 1 .. n - 1 /\ old[m - 1] = m
        BY <3>2
      <4> QED  BY <4>1
    <3> QED  BY <3>1, <3>2
  <2> HIDE DEF old
  <2> QED  BY <2>1, <2>2, <2>3 DEF Bijection, Injection, Surjection, IsInjective
<1> HIDE DEF old
<1>6. SumOver(f, (1 .. n) \ {i}) = SumOver(g, 1 .. n - 1)
  BY <1>3, <1>4, <1>5, SumRenamed
<1>7. SumOver(f, 1 .. n) = SumOver(f, (1 .. n) \ {i}) + f[i]
  BY <1>2, SumWithout
<1> QED  BY <1>4, <1>6, <1>7, SumIsNat

\* Disjoint sets together have the sum of their sizes.
LEMMA SumOfSizes ==
    ASSUME NEW S, IsFiniteSet(S), NEW D, NEW f,
           \A x \in S : IsFiniteSet(D[x]) /\ f[x] = Cardinality(D[x]),
           \A x, y \in S : x # y => D[x] \cap D[y] = {}
    PROVE  Cardinality(UNION {D[x] : x \in S}) = SumOver(f, S)
<1> DEFINE all == UNION {D[x] : x \in S}
           count == [x \in S |-> CHOOSE g : g \in Bijection(1 .. f[x], D[x])]
           member == [u \in Units(f, S) |-> count[u[1]][u[2]]]
<1>1. Summable(f, S)
  <2> SUFFICES ASSUME NEW x \in S PROVE f[x] \in Nat
    BY DEF Summable
  <2>1. IsFiniteSet(D[x]) /\ f[x] = Cardinality(D[x])
    OBVIOUS
  <2> QED  BY <2>1, FS_CardinalityType
<1>2. ASSUME NEW x \in S PROVE count[x] \in Bijection(1 .. f[x], D[x])
  <2>0. IsFiniteSet(D[x]) /\ f[x] = Cardinality(D[x])
    OBVIOUS
  <2>1. ExistsBijection(1 .. f[x], D[x])
    BY <2>0, FS_CardinalityType
  <2>2. \E g : g \in Bijection(1 .. f[x], D[x])
    BY <2>1 DEF ExistsBijection
  <2> QED  BY <2>2
<1> HIDE DEF count
<1>3. ASSUME NEW x \in S
      PROVE  /\ count[x] \in [1 .. f[x] -> D[x]]
             /\ \A i, j \in 1 .. f[x] : count[x][i] = count[x][j] => i = j
             /\ \A d \in D[x] : \E i \in 1 .. f[x] : count[x][i] = d
  <2> DEFINE g == count[x]
             T == 1 .. f[x]
             U == D[x]
  <2>1. g \in Bijection(T, U)
    BY <1>2
  <2> HIDE DEF g, T, U
  <2>2. /\ g \in [T -> U]
        /\ \A i, j \in T : g[i] = g[j] => i = j
        /\ \A d \in U : \E i \in T : g[i] = d
    BY <2>1 DEF Bijection, Injection, Surjection, IsInjective
  <2> QED  BY <2>2 DEF g, T, U
<1>4. ASSUME NEW u \in Units(f, S)
      PROVE  u[1] \in S /\ u[2] \in 1 .. f[u[1]] /\ u = <<u[1], u[2]>>
  BY DEF Units
<1>5. \A u \in Units(f, S) : member[u] \in D[u[1]]
  <2> SUFFICES ASSUME NEW u \in Units(f, S) PROVE count[u[1]][u[2]] \in D[u[1]]
    OBVIOUS
  <2>1. u[1] \in S /\ u[2] \in 1 .. f[u[1]]
    BY <1>4
  <2>2. count[u[1]] \in [1 .. f[u[1]] -> D[u[1]]]
    BY <1>3, <2>1
  <2> QED  BY <2>1, <2>2
<1>6. member \in [Units(f, S) -> all]
  BY <1>4, <1>5
<1>7. \A u, w \in Units(f, S) : member[u] = member[w] => u = w
  <2> SUFFICES ASSUME NEW u \in Units(f, S), NEW w \in Units(f, S), member[u] = member[w]
               PROVE  u = w
    OBVIOUS
  <2>1. u[1] = w[1]
    BY <1>4, <1>5
  <2>2. count[u[1]][u[2]] = count[u[1]][w[2]]
    BY <2>1
  <2>3. u[2] = w[2]
    BY <1>3, <1>4, <2>1, <2>2
  <2> QED  BY <1>4, <2>1, <2>3
<1>8. \A d \in all : \E u \in Units(f, S) : member[u] = d
  <2> SUFFICES ASSUME NEW x \in S, NEW d \in D[x]
               PROVE  \E u \in Units(f, S) : member[u] = d
    OBVIOUS
  <2>1. PICK i \in 1 .. f[x] : count[x][i] = d
    BY <1>3
  <2>2. <<x, i>> \in Units(f, S)
    BY DEF Units
  <2> QED  BY <2>1, <2>2
<1> HIDE DEF member, all
<1>9. member \in Bijection(Units(f, S), all)
  BY <1>6, <1>7, <1>8 DEF Bijection, Injection, Surjection, IsInjective
<1>10. ExistsBijection(Units(f, S), all)
  BY <1>9 DEF ExistsBijection
<1> QED  BY <1>1, <1>10, SumIsNat, FS_Bijection DEF SumOver, all

\* Values of at most m add up to at most m for every element.
LEMMA SumBounded ==
    ASSUME NEW f, NEW S, Summable(f, S), NEW m \in Nat, \A x \in S : f[x] <= m
    PROVE  Cardinality(S) \in Nat /\ SumOver(f, S) <= Cardinality(S) * m
<1>1. IsFiniteSet(1 .. m) /\ Cardinality(1 .. m) = m
  BY FS_Interval
<1>2. IsFiniteSet(S \X (1 .. m)) /\ Cardinality(S \X (1 .. m)) = Cardinality(S) * Cardinality(1 .. m)
  BY <1>1, FS_Product DEF Summable
<1>3. Units(f, S) \subseteq S \X (1 .. m)
  <2> SUFFICES ASSUME NEW x \in S PROVE {x} \X (1 .. f[x]) \subseteq S \X (1 .. m)
    BY DEF Units
  <2>1. 1 .. f[x] \subseteq 1 .. m
    BY DEF Summable
  <2> QED  BY <2>1
<1>4. Cardinality(Units(f, S)) <= Cardinality(S \X (1 .. m))
  BY <1>2, <1>3, FS_Subset
<1> QED  BY <1>1, <1>2, <1>4, FS_CardinalityType DEF SumOver, Summable
=============================================================================
