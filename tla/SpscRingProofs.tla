--------------------------- MODULE SpscRingProofs ---------------------------
(***************************************************************************)
(* The ring is safe for every capacity and every width of its positions:   *)
(* the two callbacks never meet in a slot, and the ring implements a       *)
(* bounded first-in first-out queue.                                       *)
(***************************************************************************)
EXTENDS SpscRing, SequenceTheorems, TLAPS

-----------------------------------------------------------------------------
(* Arithmetic of positions *)

\* Unsigned subtraction without the remainder: the difference, or the difference
\* from one round further.
LEMMA DistanceIs ==
    ASSUME NEW a \in Position, NEW b \in Position
    PROVE  /\ Distance(a, b) = IF a <= b THEN b - a ELSE b - a + PositionModulus
           /\ Distance(a, b) \in Position
  <1> USE PositionAssumption DEF Position
  <1>1. CASE a <= b
    <2>1. b - a \in 0 .. PositionModulus - 1
      BY <1>1
    <2>2. (b - a) % PositionModulus = b - a
      BY <2>1
    <2> QED
      BY <1>1, <2>1, <2>2 DEF Distance
  <1>2. CASE ~(a <= b)
    <2>1. b - a \in -PositionModulus .. -1
      BY <1>2
    <2>2. (b - a) % PositionModulus = b - a + PositionModulus
      BY <2>1
    <2> QED
      BY <1>2, <2>1, <2>2 DEF Distance
  <1> QED
    BY <1>1, <1>2

\* The next position, without the remainder.
LEMMA AdvanceIs ==
    ASSUME NEW a \in Position
    PROVE  /\ Advance(a) = IF a + 1 = PositionModulus THEN 0 ELSE a + 1
           /\ Advance(a) \in Position
  <1> USE PositionAssumption DEF Position
  <1>1. CASE a + 1 = PositionModulus
    BY <1>1 DEF Advance
  <1>2. CASE a + 1 # PositionModulus
    <2>1. a + 1 \in 0 .. PositionModulus - 1
      BY <1>2
    <2>2. (a + 1) % PositionModulus = a + 1
      BY <2>1
    <2> QED
      BY <1>2, <2>1, <2>2 DEF Advance
  <1> QED
    BY <1>1, <1>2

\* Only a position itself is at distance zero.
LEMMA DistanceZero ==
    ASSUME NEW a \in Position, NEW b \in Position
    PROVE  Distance(a, b) >= 0 /\ (Distance(a, b) = 0 <=> a = b)
  <1>1. Distance(a, b) = IF a <= b THEN b - a ELSE b - a + PositionModulus
    BY DistanceIs
  <1> QED
    BY <1>1, PositionAssumption DEF Position

\* A position b on the way from a to c divides the way.
LEMMA DistanceAdds ==
    ASSUME NEW a \in Position, NEW b \in Position, NEW c \in Position
    PROVE  /\ Distance(a, b) <= Distance(a, c) =>
                 Distance(b, c) = Distance(a, c) - Distance(a, b)
           /\ Distance(b, c) <= Distance(a, c) =>
                 Distance(a, b) = Distance(a, c) - Distance(b, c)
  <1>1. /\ Distance(a, b) = IF a <= b THEN b - a ELSE b - a + PositionModulus
        /\ Distance(b, c) = IF b <= c THEN c - b ELSE c - b + PositionModulus
        /\ Distance(a, c) = IF a <= c THEN c - a ELSE c - a + PositionModulus
    BY DistanceIs
  <1> QED
    BY <1>1, PositionAssumption DEF Position

\* The end of the way moves on: it grows by one, short of a whole round.
LEMMA DistanceToNext ==
    ASSUME NEW a \in Position, NEW b \in Position, Distance(a, b) < PositionModulus - 1
    PROVE  Distance(a, Advance(b)) = Distance(a, b) + 1
  <1>1. Advance(b) \in Position /\ Advance(b) = IF b + 1 = PositionModulus THEN 0 ELSE b + 1
    BY AdvanceIs
  <1>2. /\ Distance(a, b) = IF a <= b THEN b - a ELSE b - a + PositionModulus
        /\ Distance(a, Advance(b)) = IF a <= Advance(b) THEN Advance(b) - a
                                      ELSE Advance(b) - a + PositionModulus
    BY <1>1, DistanceIs
  <1> QED
    BY <1>1, <1>2, PositionAssumption DEF Position

\* The start of the way moves on: it shrinks by one.
LEMMA DistanceFromNext ==
    ASSUME NEW a \in Position, NEW b \in Position, a # b
    PROVE  Distance(Advance(a), b) = Distance(a, b) - 1
  <1>1. Advance(a) \in Position /\ Advance(a) = IF a + 1 = PositionModulus THEN 0 ELSE a + 1
    BY AdvanceIs
  <1>2. /\ Distance(a, b) = IF a <= b THEN b - a ELSE b - a + PositionModulus
        /\ Distance(Advance(a), b) = IF Advance(a) <= b THEN b - Advance(a)
                                      ELSE b - Advance(a) + PositionModulus
    BY <1>1, DistanceIs
  <1> QED
    BY <1>1, <1>2, PositionAssumption DEF Position

\* A slot number is the index of a slot.
LEMMA SlotTyped ==
    ASSUME NEW x \in Int
    PROVE  SlotOf(x) \in 0 .. Capacity - 1
  BY RingCapacityAssumption DEF SlotOf

\* Slot numbers repeat after a whole number of rounds through the ring.
LEMMA SlotRepeats ==
    ASSUME NEW x \in Int, NEW k \in Int
    PROVE  SlotOf(x + Capacity * k) = SlotOf(x)
  <1> DEFINE q == x \div Capacity
             m == x % Capacity
  <1>1. q \in Int /\ m \in 0 .. Capacity - 1 /\ x = (Capacity * q) + m
    BY RingCapacityAssumption
  <1> HIDE DEF q, m
  <1>2. x + Capacity * k = (Capacity * (q + k)) + m
    BY <1>1, RingCapacityAssumption
  <1>3. ((Capacity * (q + k)) + m) % Capacity = m
    <2>1. q + k \in Int
      BY <1>1
    <2> QED
      BY <2>1, <1>1, RingCapacityAssumption
  <1> QED
    BY <1>2, <1>3 DEF SlotOf, m

\* The width of a position holds a whole number of rounds.
LEMMA SlotOfWrapped ==
    ASSUME NEW x \in Int
    PROVE  SlotOf(x + PositionModulus) = SlotOf(x)
  <1>1. PICK k \in Int : PositionModulus = Capacity * k
    <2>1. PositionModulus \div Capacity \in Int
      BY PositionAssumption, RingCapacityAssumption
    <2>2. PositionModulus = Capacity * (PositionModulus \div Capacity)
      BY PositionAssumption, RingCapacityAssumption
    <2> QED
      BY <2>1, <2>2
  <1> QED
    BY <1>1, SlotRepeats

\* Fewer than Capacity positions apart, two positions have different slots.
LEMMA SlotsDiffer ==
    ASSUME NEW x \in Int, NEW d \in 1 .. Capacity - 1
    PROVE  SlotOf(x) # SlotOf(x + d)
  <1> SUFFICES ASSUME SlotOf(x) = SlotOf(x + d)
               PROVE  FALSE
    OBVIOUS
  <1> DEFINE q1 == x \div Capacity
             q2 == (x + d) \div Capacity
             m == x % Capacity
  <1>1. q1 \in Int /\ m \in Int /\ x = (Capacity * q1) + m
    BY RingCapacityAssumption
  <1>2. q2 \in Int /\ x + d = (Capacity * q2) + m
    BY RingCapacityAssumption DEF SlotOf
  <1> HIDE DEF q1, q2, m
  <1>3. d = Capacity * (q2 - q1)
    BY <1>1, <1>2, RingCapacityAssumption
  <1>4. q2 - q1 \in Int
    BY <1>1, <1>2
  <1>5. ASSUME NEW k \in Int, d = Capacity * k
        PROVE  FALSE
    <2>1. CASE k <= 0
      BY <2>1, <1>5, RingCapacityAssumption
    <2>2. CASE k >= 1
      BY <2>2, <1>5, RingCapacityAssumption
    <2> QED
      BY <2>1, <2>2
  <1> QED
    BY <1>3, <1>4, <1>5

\* The larger of two numbers.
LEMMA MaxOfTwo ==
    ASSUME NEW a \in Int, NEW b \in Int
    PROVE  Max({a, b}) = IF a >= b THEN a ELSE b
  <1> DEFINE m == IF a >= b THEN a ELSE b
  <1>1. m \in {a, b} /\ \A y \in {a, b} : m >= y
    OBVIOUS
  <1>2. \A x \in {a, b} : (\A y \in {a, b} : x >= y) => x = m
    OBVIOUS
  <1> QED
    BY <1>1, <1>2 DEF Max

-----------------------------------------------------------------------------
(* The inductive invariant *)

\* The positions in the order in which they were passed: the cached read position,
\* the read position, the cached write position, the write position, all within one
\* round of the ring.
PositionsOrdered ==
    /\ Distance(cached_read_position, write_position) <= Capacity
    /\ CachesLagBehind

\* What the two threads learned before they touch a slot still holds when they do.
LooksStillHold ==
    /\ producer.pc \in {"write", "publish"} =>
          ~LooksFull(cached_read_position, write_position)
    /\ consumer.pc \in {"read", "advance"} => read_position # cached_write_position

\* What a callback wrote or saw stays in the slot until the position moves on.
SlotsHoldStill ==
    /\ producer.pc = "publish" => slots[SlotOf(write_position)] = producer.value
    /\ consumer.pc = "advance" => slots[SlotOf(read_position)] = consumer.value

RingInv ==
    /\ TypeOK
    /\ PositionsOrdered
    /\ LooksStillHold
    /\ SlotsHoldStill
    /\ HighWaterMarkCovers

\* The write position is the read position moved on by the depth, up to a wrap, so it
\* has that slot.
LEMMA SlotAtDistance ==
    ASSUME NEW r \in Position, NEW w \in Position
    PROVE  SlotOf(r + Distance(r, w)) = SlotOf(w)
  <1>1. CASE r <= w
    BY <1>1, DistanceIs, PositionAssumption DEF Position
  <1>2. CASE ~(r <= w)
    <2>1. r + Distance(r, w) = w + PositionModulus
      BY <1>2, DistanceIs, PositionAssumption DEF Position
    <2> QED
      BY <2>1, SlotOfWrapped DEF Position
  <1> QED
    BY <1>1, <1>2

\* The slots after a position are those after the next one, one step earlier.
LEMMA SlotAfterAdvance ==
    ASSUME NEW r \in Position, NEW i \in Int
    PROVE  SlotOf(Advance(r) + i) = SlotOf(r + 1 + i)
  <1>1. CASE r + 1 # PositionModulus
    BY <1>1, AdvanceIs, PositionAssumption DEF Position
  <1>2. CASE r + 1 = PositionModulus
    <2>1. Advance(r) + i = i /\ r + 1 + i = i + PositionModulus
      BY <1>2, AdvanceIs, PositionAssumption DEF Position
    <2> QED
      BY <2>1, SlotOfWrapped DEF Position
  <1> QED
    BY <1>1, <1>2

\* The invariant keeps the two callbacks out of each other's slot: the producer has
\* a free slot, the consumer a full one, and fewer than Capacity positions are between.
LEMMA InvNoSlotRace == RingInv => NoSlotRace
  <1> SUFFICES ASSUME RingInv, producer.pc \in {"write", "publish"},
                      consumer.pc \in {"read", "advance"}
               PROVE  SlotOf(write_position) # SlotOf(read_position)
    BY DEF NoSlotRace
  <1> DEFINE d == Distance(read_position, write_position)
  <1>1. /\ write_position \in Position /\ read_position \in Position
        /\ cached_read_position \in Position /\ cached_write_position \in Position
    BY DEF RingInv, TypeOK
  <1>2. d < Capacity
    BY <1>1, DistanceIs, RingCapacityAssumption, PositionAssumption
       DEF RingInv, PositionsOrdered, CachesLagBehind, LooksStillHold, LooksFull, Position
  <1>3. d >= 1
    <2>1. Distance(read_position, cached_write_position) >= 1
      <3>1. read_position # cached_write_position
        BY DEF RingInv, LooksStillHold
      <3>2. Distance(read_position, cached_write_position) \in Position
        BY <1>1, DistanceIs
      <3> QED
        BY <1>1, <3>1, <3>2, DistanceZero DEF Position
    <2>2. Distance(read_position, cached_write_position) <= d
      BY DEF RingInv, PositionsOrdered, CachesLagBehind
    <2> QED
      BY <1>1, <2>1, <2>2, DistanceIs DEF Position
  <1>4. d \in 1 .. Capacity - 1 /\ read_position \in Int
    BY <1>1, <1>2, <1>3, DistanceIs, RingCapacityAssumption DEF Position
  <1> QED
    BY <1>1, <1>4, SlotsDiffer, SlotAtDistance

\* The ring starts in the invariant.
LEMMA InitRingInv == Init => RingInv
  <1> SUFFICES ASSUME Init
               PROVE  RingInv
    OBVIOUS
  <1>1. 0 \in Position
    BY RingCapacityAssumption, PositionAssumption DEF Position
  <1>2. Distance(0, 0) = 0
    BY <1>1, DistanceIs
  <1>3. TypeOK
    BY <1>1 DEF Init, TypeOK
  <1> QED
    BY <1>2, <1>3, RingCapacityAssumption
       DEF Init, RingInv, PositionsOrdered, CachesLagBehind, LooksStillHold, SlotsHoldStill,
           HighWaterMarkCovers

\* Every step keeps the types.
LEMMA NextTypeOK == TypeOK /\ [Next]_vars => TypeOK'
  <1> SUFFICES ASSUME TypeOK, [Next]_vars
               PROVE  TypeOK'
    OBVIOUS
  <1>0. 0 \in Position /\ Capacity \in Position
    BY RingCapacityAssumption, PositionAssumption DEF Position
  <1>1. ASSUME NEW w \in Position, NEW r \in Position
        PROVE  size_approx(w, r) \in Position
    BY <1>0, DistanceIs DEF size_approx
  <1>2. ASSUME NEW v \in Value, EmplaceBegin(v)
        PROVE  TypeOK'
    BY <1>2 DEF TypeOK, EmplaceBegin, measures
  <1>3. CASE EmplaceReload
    BY <1>3 DEF TypeOK, EmplaceReload, Loadable, measures
  <1>4. CASE EmplaceWrite
    BY <1>4 DEF TypeOK, EmplaceWrite, measures
  <1>5. CASE EmplacePublish
    BY <1>5, AdvanceIs DEF TypeOK, EmplacePublish, measures
  <1>6. CASE UpdateMaxDepth
    <2>1. PICK p \in Position : max_depth' = Max({max_depth, size_approx(write_position, p)})
      BY <1>6 DEF UpdateMaxDepth, Loadable
    <2>2. max_depth \in Position /\ size_approx(write_position, p) \in Position
      BY <1>1 DEF TypeOK
    <2>3. max_depth' \in {max_depth, size_approx(write_position, p)}
      BY <2>1, <2>2, MaxOfTwo DEF Position
    <2> QED
      BY <1>6, <2>2, <2>3 DEF TypeOK, UpdateMaxDepth
  <1>7. CASE ConsumeBegin
    BY <1>7 DEF TypeOK, ConsumeBegin, measures
  <1>8. CASE ConsumeReload
    BY <1>8 DEF TypeOK, ConsumeReload, Loadable, measures
  <1>9. CASE ConsumeRead
    <2>1. slots[SlotOf(read_position)] \in Value
      BY SlotTyped DEF TypeOK, Position
    <2> QED
      BY <1>9, <2>1 DEF TypeOK, ConsumeRead, measures
  <1>10. CASE ConsumeAdvance
    BY <1>10, AdvanceIs DEF TypeOK, ConsumeAdvance, measures
  <1>11. CASE ObserveWrite
    BY <1>11 DEF TypeOK, ObserveWrite
  <1>12. CASE ObserveRead
    <2>1. size_approx(observer.write, read_position) \in Position
      BY <1>1 DEF TypeOK
    <2> QED
      BY <1>0, <1>12, <2>1 DEF TypeOK, ObserveRead
  <1>13. CASE Reset
    BY <1>0, <1>13 DEF TypeOK, Reset
  <1>14. CASE UNCHANGED vars
    BY <1>14 DEF TypeOK, vars
  <1> QED
    BY <1>2, <1>3, <1>4, <1>5, <1>6, <1>7, <1>8, <1>9, <1>10, <1>11, <1>12, <1>13, <1>14
       DEF Next

\* Every step keeps the order of the positions: each moves only towards the next.
LEMMA NextPositionsOrdered ==
    ASSUME TypeOK, PositionsOrdered, LooksStillHold, [Next]_vars
    PROVE  PositionsOrdered'
  <1> DEFINE r == read_position
             w == write_position
             cr == cached_read_position
             cw == cached_write_position
  <1>1. r \in Position /\ w \in Position /\ cr \in Position /\ cw \in Position
    BY DEF TypeOK
  <1>2. /\ Distance(cr, w) \in Nat /\ Distance(r, w) \in Nat /\ Distance(r, cw) \in Nat
        /\ Capacity \in Nat /\ PositionModulus \in Nat /\ Capacity < PositionModulus
    <2>1. Distance(cr, w) \in Position /\ Distance(r, w) \in Position
          /\ Distance(r, cw) \in Position
      BY <1>1, DistanceIs
    <2> QED
      BY <2>1, RingCapacityAssumption, PositionAssumption DEF Position
  <1>3. /\ Distance(cr, w) <= Capacity
        /\ Distance(r, w) <= Distance(cr, w)
        /\ Distance(r, cw) <= Distance(r, w)
    BY <1>2 DEF PositionsOrdered, CachesLagBehind
  <1>4. CASE UNCHANGED <<write_position, read_position, cached_read_position,
                         cached_write_position>>
    BY <1>4 DEF PositionsOrdered, CachesLagBehind
  <1>5. CASE EmplaceReload
    <2>1. PICK p \in Loadable(cr, r) : cached_read_position' = p
      BY <1>5 DEF EmplaceReload
    <2>2. p \in Position /\ Distance(cr, p) <= Distance(cr, r)
      BY <2>1 DEF Loadable
    <2>3. Distance(cr, p) \in Nat /\ Distance(p, w) \in Nat /\ Distance(cr, r) \in Nat
      BY <1>1, <2>2, DistanceIs DEF Position
    <2>4. Distance(cr, r) = Distance(cr, w) - Distance(r, w)
      BY <1>1, <1>3, DistanceAdds
    <2>5. Distance(p, w) = Distance(cr, w) - Distance(cr, p)
      <3>1. Distance(cr, p) <= Distance(cr, w)
        BY <1>2, <2>2, <2>3, <2>4
      <3> QED
        BY <1>1, <2>2, <3>1, DistanceAdds
    <2>6. Distance(p, w) <= Capacity /\ Distance(p, w) >= Distance(r, w)
      BY <1>2, <1>3, <2>2, <2>3, <2>4, <2>5
    <2> QED
      BY <1>2, <1>3, <1>5, <2>1, <2>6 DEF EmplaceReload, PositionsOrdered, CachesLagBehind
  <1>6. CASE ConsumeReload
    <2>1. PICK p \in Loadable(cw, w) : cached_write_position' = p
      BY <1>6 DEF ConsumeReload
    <2>2. p \in Position /\ Distance(cw, p) <= Distance(cw, w)
      BY <2>1 DEF Loadable
    <2>3. Distance(cw, p) \in Nat /\ Distance(p, w) \in Nat /\ Distance(cw, w) \in Nat
          /\ Distance(r, p) \in Nat
      BY <1>1, <2>2, DistanceIs DEF Position
    <2>4. Distance(cw, w) = Distance(r, w) - Distance(r, cw)
      BY <1>1, <1>3, DistanceAdds
    <2>5. Distance(p, w) = Distance(cw, w) - Distance(cw, p)
      BY <1>1, <2>2, DistanceAdds
    <2>6. Distance(r, p) = Distance(r, w) - Distance(p, w)
      <3>1. Distance(p, w) <= Distance(r, w)
        BY <1>2, <2>3, <2>4, <2>5
      <3> QED
        BY <1>1, <2>2, <3>1, DistanceAdds
    <2>7. Distance(r, p) <= Distance(r, w)
      BY <1>2, <2>3, <2>6
    <2> QED
      BY <1>2, <1>3, <1>6, <2>1, <2>7 DEF ConsumeReload, PositionsOrdered, CachesLagBehind
  <1>7. CASE EmplacePublish
    <2>1. Distance(cr, w) < Capacity
      BY <1>2, <1>7 DEF EmplacePublish, LooksStillHold, LooksFull
    <2>2. Distance(cr, Advance(w)) = Distance(cr, w) + 1
      BY <1>1, <1>2, <2>1, DistanceToNext
    <2>3. Distance(r, Advance(w)) = Distance(r, w) + 1
      BY <1>1, <1>2, <1>3, <2>1, DistanceToNext
    <2>4. /\ Distance(cr, Advance(w)) <= Capacity
          /\ Distance(cr, Advance(w)) >= Distance(r, Advance(w))
          /\ Distance(r, cw) <= Distance(r, Advance(w))
      BY <1>2, <1>3, <2>1, <2>2, <2>3
    <2> QED
      BY <1>7, <2>4 DEF EmplacePublish, PositionsOrdered, CachesLagBehind
  <1>8. CASE ConsumeAdvance
    <2>1. r # cw
      BY <1>8 DEF ConsumeAdvance, LooksStillHold
    <2>2. Distance(r, cw) >= 1 /\ r # w
      BY <1>1, <1>2, <1>3, <2>1, DistanceZero
    <2>3. /\ Distance(Advance(r), w) = Distance(r, w) - 1
          /\ Distance(Advance(r), cw) = Distance(r, cw) - 1
      BY <1>1, <2>1, <2>2, DistanceFromNext
    <2>4. /\ Distance(cr, w) >= Distance(Advance(r), w)
          /\ Distance(Advance(r), cw) <= Distance(Advance(r), w)
      BY <1>2, <1>3, <2>3
    <2> QED
      BY <1>3, <1>8, <2>4 DEF ConsumeAdvance, PositionsOrdered, CachesLagBehind
  <1>9. CASE Reset
    <2>1. 0 \in Position
      BY <1>2 DEF Position
    <2>2. Distance(0, 0) = 0
      BY <2>1, DistanceIs
    <2> QED
      BY <1>2, <1>9, <2>2 DEF Reset, PositionsOrdered, CachesLagBehind
  <1> QED
    BY <1>4, <1>5, <1>6, <1>7, <1>8, <1>9
       DEF Next, EmplaceBegin, EmplaceWrite, UpdateMaxDepth, ConsumeBegin, ConsumeRead,
           ObserveWrite, ObserveRead, vars

\* Every step keeps what the threads learned from their looks at the positions.
LEMMA NextLooksStillHold ==
    ASSUME TypeOK, PositionsOrdered, LooksStillHold, [Next]_vars
    PROVE  LooksStillHold'
  <1>1. CASE UNCHANGED vars
    BY <1>1 DEF LooksStillHold, vars
  <1>2. CASE \E v \in Value : EmplaceBegin(v)
    BY <1>2 DEF LooksStillHold, EmplaceBegin
  <1>3. CASE EmplaceReload
    BY <1>3 DEF LooksStillHold, EmplaceReload, TypeOK
  <1>4. CASE EmplaceWrite
    BY <1>4 DEF LooksStillHold, EmplaceWrite, TypeOK
  <1>5. CASE EmplacePublish
    BY <1>5 DEF LooksStillHold, EmplacePublish, TypeOK
  <1>6. CASE UpdateMaxDepth
    BY <1>6 DEF LooksStillHold, UpdateMaxDepth, TypeOK
  <1>7. CASE ConsumeBegin
    BY <1>7 DEF LooksStillHold, ConsumeBegin, TypeOK
  <1>8. CASE ConsumeReload
    BY <1>8 DEF LooksStillHold, ConsumeReload, TypeOK
  <1>9. CASE ConsumeRead
    BY <1>9 DEF LooksStillHold, ConsumeRead, TypeOK
  <1>10. CASE ConsumeAdvance
    BY <1>10 DEF LooksStillHold, ConsumeAdvance, TypeOK
  <1>11. CASE ObserveWrite \/ ObserveRead
    BY <1>11 DEF LooksStillHold, ObserveWrite, ObserveRead
  <1>12. CASE Reset
    BY <1>12 DEF LooksStillHold, Reset, TypeOK
  <1> QED
    BY <1>1, <1>2, <1>3, <1>4, <1>5, <1>6, <1>7, <1>8, <1>9, <1>10, <1>11, <1>12 DEF Next

\* Every step keeps the slots still that a thread works on: the only store to a slot,
\* the producer's, does not reach the slot the consumer reads.
LEMMA NextSlotsHoldStill ==
    ASSUME RingInv, [Next]_vars
    PROVE  SlotsHoldStill'
  <1> USE DEF RingInv
  <1>1. CASE UNCHANGED vars
    BY <1>1 DEF SlotsHoldStill, vars
  <1>2. CASE \E v \in Value : EmplaceBegin(v)
    BY <1>2 DEF SlotsHoldStill, EmplaceBegin
  <1>3. CASE EmplaceReload
    BY <1>3 DEF SlotsHoldStill, EmplaceReload, TypeOK
  <1>4. CASE EmplaceWrite
    <2>1. SlotOf(write_position) \in DOMAIN slots
      BY SlotTyped DEF TypeOK, Position
    <2>2. slots'[SlotOf(write_position)] = producer.value /\ producer'.value = producer.value
      BY <1>4, <2>1 DEF EmplaceWrite, TypeOK
    <2>3. consumer.pc = "advance" =>
             slots'[SlotOf(read_position)] = slots[SlotOf(read_position)]
      <3>1. consumer.pc = "advance" => SlotOf(write_position) # SlotOf(read_position)
        BY <1>4, InvNoSlotRace DEF EmplaceWrite, NoSlotRace
      <3>2. SlotOf(read_position) \in DOMAIN slots
        BY SlotTyped DEF TypeOK, Position
      <3> QED
        BY <1>4, <3>1, <3>2 DEF EmplaceWrite
    <2> QED
      BY <1>4, <2>2, <2>3 DEF EmplaceWrite, SlotsHoldStill
  <1>5. CASE EmplacePublish
    BY <1>5 DEF SlotsHoldStill, EmplacePublish, TypeOK
  <1>6. CASE UpdateMaxDepth
    BY <1>6 DEF SlotsHoldStill, UpdateMaxDepth, TypeOK
  <1>7. CASE ConsumeBegin
    BY <1>7 DEF SlotsHoldStill, ConsumeBegin, TypeOK
  <1>8. CASE ConsumeReload
    BY <1>8 DEF SlotsHoldStill, ConsumeReload, TypeOK
  <1>9. CASE ConsumeRead
    BY <1>9 DEF SlotsHoldStill, ConsumeRead, TypeOK
  <1>10. CASE ConsumeAdvance
    BY <1>10 DEF SlotsHoldStill, ConsumeAdvance, TypeOK
  <1>11. CASE ObserveWrite \/ ObserveRead
    BY <1>11 DEF SlotsHoldStill, ObserveWrite, ObserveRead
  <1>12. CASE Reset
    BY <1>12 DEF SlotsHoldStill, Reset, TypeOK
  <1> QED
    BY <1>1, <1>2, <1>3, <1>4, <1>5, <1>6, <1>7, <1>8, <1>9, <1>10, <1>11, <1>12 DEF Next

\* What the producer measures is at least what is in the ring: a position of the
\* consumer that is too old makes the difference larger, and it is capped at what
\* the ring can hold.
LEMMA MeasuredCovers ==
    ASSUME TypeOK, PositionsOrdered, NEW p \in Loadable(cached_read_position, read_position)
    PROVE  /\ size_approx(write_position, p) \in Nat
           /\ Distance(read_position, write_position) <= size_approx(write_position, p)
  <1> DEFINE r == read_position
             w == write_position
             cr == cached_read_position
  <1>1. /\ r \in Position /\ w \in Position /\ cr \in Position /\ p \in Position
        /\ Distance(cr, p) <= Distance(cr, r)
    BY DEF TypeOK, Loadable
  <1>2. /\ Distance(cr, w) \in Nat /\ Distance(r, w) \in Nat /\ Distance(cr, r) \in Nat
        /\ Distance(cr, p) \in Nat /\ Distance(p, w) \in Nat /\ Capacity \in Nat
    <2>1. /\ Distance(cr, w) \in Position /\ Distance(r, w) \in Position
          /\ Distance(cr, r) \in Position /\ Distance(cr, p) \in Position
          /\ Distance(p, w) \in Position
      BY <1>1, DistanceIs
    <2> QED
      BY <2>1, RingCapacityAssumption DEF Position
  <1>3. Distance(cr, w) <= Capacity /\ Distance(r, w) <= Distance(cr, w)
    BY <1>2 DEF PositionsOrdered, CachesLagBehind
  <1>4. Distance(cr, r) = Distance(cr, w) - Distance(r, w)
    BY <1>1, <1>3, DistanceAdds
  <1>5. Distance(cr, p) <= Distance(cr, w)
    BY <1>1, <1>2, <1>4
  <1>6. Distance(p, w) = Distance(cr, w) - Distance(cr, p)
    BY <1>1, <1>5, DistanceAdds
  <1>7. Distance(p, w) >= Distance(r, w)
    BY <1>1, <1>2, <1>4, <1>6
  <1> QED
    BY <1>2, <1>3, <1>7 DEF size_approx

\* Every step keeps the mark above the depth: only the publish store makes the ring
\* deeper, by one, and the producer measures before it publishes again.
LEMMA NextHighWaterMarkCovers ==
    ASSUME TypeOK, PositionsOrdered, LooksStillHold, HighWaterMarkCovers, [Next]_vars
    PROVE  HighWaterMarkCovers'
  <1> DEFINE r == read_position
             w == write_position
             cr == cached_read_position
             cw == cached_write_position
  <1>1. /\ r \in Position /\ w \in Position /\ cr \in Position /\ cw \in Position
        /\ max_depth \in Nat
    BY DEF TypeOK, Position
  <1>2. /\ Distance(cr, w) \in Nat /\ Distance(r, w) \in Nat /\ Distance(r, cw) \in Nat
        /\ Capacity \in Nat /\ PositionModulus \in Nat /\ Capacity < PositionModulus
    <2>1. Distance(cr, w) \in Position /\ Distance(r, w) \in Position
          /\ Distance(r, cw) \in Position
      BY <1>1, DistanceIs
    <2> QED
      BY <2>1, RingCapacityAssumption, PositionAssumption DEF Position
  <1>3. CASE /\ UNCHANGED <<write_position, read_position, max_depth>>
             /\ producer.pc # "measure" /\ producer'.pc # "measure"
    BY <1>3 DEF HighWaterMarkCovers
  <1>4. CASE UNCHANGED <<write_position, read_position, max_depth, producer>>
    BY <1>4 DEF HighWaterMarkCovers
  <1>5. CASE EmplacePublish
    <2>1. Distance(r, w) < Capacity
      BY <1>2, <1>5 DEF EmplacePublish, LooksStillHold, LooksFull, PositionsOrdered,
                        CachesLagBehind
    <2>2. Distance(r, Advance(w)) = Distance(r, w) + 1
      BY <1>1, <1>2, <2>1, DistanceToNext
    <2>3. Distance(r, w) <= max_depth
      BY <1>1, <1>2, <1>5 DEF EmplacePublish, HighWaterMarkCovers
    <2>4. producer'.pc = "measure"
      BY <1>5 DEF EmplacePublish, TypeOK
    <2> QED
      BY <1>1, <1>2, <1>5, <2>2, <2>3, <2>4
         DEF EmplacePublish, measures, HighWaterMarkCovers
  <1>6. CASE UpdateMaxDepth
    <2>1. PICK p \in Loadable(cr, r) :
              max_depth' = Max({max_depth, size_approx(write_position, p)})
      BY <1>6 DEF UpdateMaxDepth
    <2>2. /\ size_approx(write_position, p) \in Nat
          /\ Distance(r, w) <= size_approx(write_position, p)
      BY <2>1, MeasuredCovers
    <2>3. max_depth' \in Nat /\ max_depth' >= size_approx(write_position, p)
      BY <1>1, <2>1, <2>2, MaxOfTwo
    <2>4. Distance(r, w) <= max_depth'
      BY <1>2, <2>2, <2>3
    <2> QED
      BY <1>2, <1>6, <2>3, <2>4 DEF UpdateMaxDepth, HighWaterMarkCovers
  <1>7. CASE ConsumeAdvance
    <2>1. r # cw
      BY <1>7 DEF ConsumeAdvance, LooksStillHold
    <2>2. Distance(r, cw) >= 1 /\ Distance(r, cw) <= Distance(r, w)
      BY <1>1, <1>2, <2>1, DistanceZero DEF PositionsOrdered, CachesLagBehind
    <2>3. r # w
      BY <1>1, <1>2, <2>2, DistanceZero
    <2>4. Distance(Advance(r), w) = Distance(r, w) - 1
      BY <1>1, <2>3, DistanceFromNext
    <2> QED
      BY <1>1, <1>2, <1>7, <2>4 DEF ConsumeAdvance, measures, HighWaterMarkCovers
  <1>8. CASE Reset
    <2>1. Distance(0, 0) = 0
      BY <1>2, DistanceIs DEF Position
    <2> QED
      BY <1>8, <2>1 DEF Reset, HighWaterMarkCovers
  <1>9. CASE (\E v \in Value : EmplaceBegin(v)) \/ EmplaceReload \/ EmplaceWrite
    BY <1>3, <1>9 DEF EmplaceBegin, EmplaceReload, EmplaceWrite, TypeOK, measures
  <1>10. CASE \/ ConsumeBegin \/ ConsumeReload \/ ConsumeRead
              \/ ObserveWrite \/ ObserveRead \/ UNCHANGED vars
    BY <1>4, <1>10 DEF ConsumeBegin, ConsumeReload, ConsumeRead, ObserveWrite, ObserveRead,
                       measures, vars
  <1> QED
    BY <1>5, <1>6, <1>7, <1>8, <1>9, <1>10 DEF Next

\* The invariant holds in every state.
LEMMA SpecRingInv == Spec => []RingInv
  <1>1. RingInv /\ [Next]_vars => RingInv'
    BY NextTypeOK, NextPositionsOrdered, NextLooksStillHold, NextSlotsHoldStill,
       NextHighWaterMarkCovers DEF RingInv
  <1> QED
    BY InitRingInv, <1>1, PTL DEF Spec

-----------------------------------------------------------------------------
(* The theorems about the ring *)

\* try_emplace, try_consume, size_approx and reset keep every field of the ring in
\* its type.
THEOREM RingTypeCorrect == Spec => []TypeOK
  <1>1. RingInv => TypeOK
    BY DEF RingInv
  <1> QED
    BY SpecRingInv, <1>1, PTL

\* The writer's callback and the reader's callback never work on the same slot, for
\* any capacity, any width of the positions and any age of the loads.
THEOREM RingNoSlotRace == Spec => []NoSlotRace
  BY SpecRingInv, InvNoSlotRace, PTL

\* The cached positions never run ahead of the positions they stand for.
THEOREM RingCachesLagBehind == Spec => []CachesLagBehind
  <1>1. RingInv => CachesLagBehind
    BY DEF RingInv, PositionsOrdered
  <1> QED
    BY SpecRingInv, <1>1, PTL

\* The high-water mark bounds what the ring has held, whenever the producer has
\* measured, however the consumer moves and however old the loaded position is.
THEOREM RingHighWaterMarkCovers == Spec => []HighWaterMarkCovers
  <1>1. RingInv => HighWaterMarkCovers
    BY DEF RingInv
  <1> QED
    BY SpecRingInv, <1>1, PTL

-----------------------------------------------------------------------------
(* The ring implements BoundedFifo *)

\* The refinement mapping: the values between the read and the write position.
Waiting(s, r, w) == [i \in 1 .. Distance(r, w) |-> s[SlotOf(r + i - 1)]]

\* All but the first element of a sequence, one by one.
LEMMA TailIs ==
    ASSUME NEW S, NEW q \in Seq(S), q # <<>>
    PROVE  Tail(q) = [i \in 1 .. Len(q) - 1 |-> q[i + 1]]
  <1> DEFINE t == Tail(q)
  <1>1. /\ t \in Seq(S) /\ Len(t) = Len(q) - 1
        /\ \A i \in 1 .. Len(t) : t[i] = q[i + 1]
    BY HeadTailProperties
  <1> HIDE DEF t
  <1>2. t = [i \in 1 .. Len(t) |-> t[i]]
    BY <1>1
  <1>3. t = [i \in 1 .. Len(q) - 1 |-> q[i + 1]]
    BY <1>1, <1>2
  <1> QED
    BY <1>3 DEF t

\* The values that wait are a sequence as long as the positions are apart.
LEMMA WaitingTyped ==
    ASSUME NEW s \in [0 .. Capacity - 1 -> Value], NEW r \in Position, NEW w \in Position
    PROVE  /\ Waiting(s, r, w) \in Seq(Value)
           /\ Len(Waiting(s, r, w)) = Distance(r, w)
           /\ Distance(r, w) \in Nat
           /\ \A i \in 1 .. Distance(r, w) : Waiting(s, r, w)[i] = s[SlotOf(r + i - 1)]
  <1>1. Distance(r, w) \in Nat
    BY DistanceIs DEF Position
  <1>2. \A i \in 1 .. Distance(r, w) : s[SlotOf(r + i - 1)] \in Value
    <2> SUFFICES ASSUME NEW i \in 1 .. Distance(r, w)
                 PROVE  s[SlotOf(r + i - 1)] \in Value
      OBVIOUS
    <2>1. r + i - 1 \in Int
      BY <1>1 DEF Position
    <2> QED
      BY <2>1, SlotTyped
  <1> QED
    BY <1>1, <1>2 DEF Waiting

\* A store to a slot that no waiting value occupies changes nothing that waits.
LEMMA WaitingUntouched ==
    ASSUME NEW s \in [0 .. Capacity - 1 -> Value], NEW v \in Value,
           NEW r \in Position, NEW w \in Position, Distance(r, w) < Capacity
    PROVE  Waiting([s EXCEPT ![SlotOf(w)] = v], r, w) = Waiting(s, r, w)
  <1>1. ASSUME NEW i \in 1 .. Distance(r, w)
        PROVE  /\ SlotOf(r + i - 1) # SlotOf(w)
               /\ SlotOf(r + i - 1) \in 0 .. Capacity - 1
    <2>1. r \in Int /\ Distance(r, w) \in Nat /\ Capacity \in Nat
      BY DistanceIs, RingCapacityAssumption DEF Position
    <2> DEFINE x == r + i - 1
               d == Distance(r, w) - i + 1
    <2>2. x \in Int /\ d \in 1 .. Capacity - 1 /\ x + d = r + Distance(r, w)
      BY <2>1
    <2>3. SlotOf(x) # SlotOf(x + d)
      BY <2>2, SlotsDiffer
    <2> QED
      BY <2>2, <2>3, SlotAtDistance, SlotTyped
  <1>2. \A i \in 1 .. Distance(r, w) :
           [s EXCEPT ![SlotOf(w)] = v][SlotOf(r + i - 1)] = s[SlotOf(r + i - 1)]
    BY <1>1
  <1> QED
    BY <1>2 DEF Waiting

\* Publishing a slot appends the value in it to those that wait.
LEMMA WaitingAppends ==
    ASSUME NEW s \in [0 .. Capacity - 1 -> Value], NEW r \in Position, NEW w \in Position,
           Distance(r, w) < Capacity
    PROVE  Waiting(s, r, Advance(w)) = Append(Waiting(s, r, w), s[SlotOf(w)])
  <1> DEFINE d == Distance(r, w)
             new == Waiting(s, r, Advance(w))
             old == Waiting(s, r, w)
  <1>1. d \in Nat /\ r \in Int
    BY DistanceIs DEF Position
  <1>2. Distance(r, Advance(w)) = d + 1
    BY <1>1, RingCapacityAssumption, PositionAssumption, DistanceToNext
  <1>3. old \in Seq(Value) /\ Len(old) = d
    BY WaitingTyped
  <1>4. new = [i \in 1 .. d + 1 |-> s[SlotOf(r + i - 1)]]
    BY <1>2 DEF Waiting
  <1>5. s[SlotOf(r + (d + 1) - 1)] = s[SlotOf(w)]
    <2>1. r + (d + 1) - 1 = r + d
      BY <1>1
    <2> QED
      BY <2>1, SlotAtDistance
  <1>6. Append(old, s[SlotOf(w)])
           = [i \in 1 .. d + 1 |-> IF i = d + 1 THEN s[SlotOf(w)] ELSE old[i]]
    BY <1>1, <1>3
  <1>7. \A i \in 1 .. d + 1 :
           s[SlotOf(r + i - 1)] = IF i = d + 1 THEN s[SlotOf(w)] ELSE old[i]
    <2> SUFFICES ASSUME NEW i \in 1 .. d + 1
                 PROVE  s[SlotOf(r + i - 1)] = IF i = d + 1 THEN s[SlotOf(w)] ELSE old[i]
      OBVIOUS
    <2>1. CASE i = d + 1
      BY <2>1, <1>5
    <2>2. CASE i # d + 1
      <3>1. i \in 1 .. d
        BY <2>2, <1>1
      <3> QED
        BY <2>2, <3>1 DEF Waiting
    <2> QED
      BY <2>1, <2>2
  <1> HIDE DEF d, new, old
  <1>8. new = Append(old, s[SlotOf(w)])
    BY <1>4, <1>6, <1>7
  <1> QED
    BY <1>8 DEF new, old

\* Freeing a slot takes the oldest value from those that wait.
LEMMA WaitingTakes ==
    ASSUME NEW s \in [0 .. Capacity - 1 -> Value], NEW r \in Position, NEW w \in Position,
           r # w
    PROVE  /\ Waiting(s, r, w) # <<>>
           /\ Head(Waiting(s, r, w)) = s[SlotOf(r)]
           /\ Waiting(s, Advance(r), w) = Tail(Waiting(s, r, w))
  <1> DEFINE d == Distance(r, w)
             new == Waiting(s, Advance(r), w)
             old == Waiting(s, r, w)
  <1>1. d \in Nat \ {0} /\ r \in Int
    <2>1. d \in Position /\ d # 0
      BY DistanceIs, DistanceZero
    <2> QED
      BY <2>1 DEF Position
  <1>2. Distance(Advance(r), w) = d - 1
    BY DistanceFromNext
  <1>3. old \in Seq(Value) /\ Len(old) = d /\ \A i \in 1 .. d : old[i] = s[SlotOf(r + i - 1)]
    BY WaitingTyped
  <1>4. old # <<>> /\ Head(old) = s[SlotOf(r)]
    <2>1. old[1] = s[SlotOf(r + 1 - 1)] /\ r + 1 - 1 = r
      BY <1>1, <1>3
    <2> QED
      BY <1>1, <1>3, <2>1
  <1>5. new = [i \in 1 .. d - 1 |-> s[SlotOf(Advance(r) + i - 1)]]
    BY <1>2 DEF Waiting
  <1>6. Tail(old) = [i \in 1 .. d - 1 |-> old[i + 1]]
    <2>1. Tail(old) = [i \in 1 .. Len(old) - 1 |-> old[i + 1]]
      BY <1>3, <1>4, TailIs
    <2> QED
      BY <1>3, <2>1
  <1>7. \A i \in 1 .. d - 1 : s[SlotOf(Advance(r) + i - 1)] = old[i + 1]
    <2> SUFFICES ASSUME NEW i \in 1 .. d - 1
                 PROVE  s[SlotOf(Advance(r) + i - 1)] = old[i + 1]
      OBVIOUS
    <2>1. i - 1 \in Int /\ i + 1 \in 1 .. d
      BY <1>1
    <2>2. SlotOf(Advance(r) + (i - 1)) = SlotOf(r + 1 + (i - 1))
      BY <2>1, SlotAfterAdvance
    <2>3. Advance(r) \in Int
      BY AdvanceIs DEF Position
    <2>4. Advance(r) + (i - 1) = Advance(r) + i - 1 /\ r + 1 + (i - 1) = r + (i + 1) - 1
      BY <1>1, <2>3
    <2> QED
      BY <1>3, <2>1, <2>2, <2>4
  <1> HIDE DEF d, new, old
  <1>8. new = Tail(old)
    BY <1>5, <1>6, <1>7
  <1> QED
    BY <1>4, <1>8 DEF new, old

\* Every step of the ring is a step of the queue or leaves the queue as it is: the two
\* stores to the positions insert and take, reset clears, and no other step shows.
LEMMA RingStepSimulates ==
    ASSUME RingInv, [Next]_vars
    PROVE  [Fifo!Next]_(Fifo!vars)
  <1> DEFINE s == slots
             r == read_position
             w == write_position
             items == Waiting(s, r, w)
  <1>1. /\ s \in [0 .. Capacity - 1 -> Value] /\ r \in Position /\ w \in Position
        /\ cached_read_position \in Position /\ cached_write_position \in Position
    BY DEF RingInv, TypeOK
  <1>2. CASE UNCHANGED <<slots, read_position, write_position, received>>
    BY <1>2 DEF Fifo!vars
  <1>3. CASE EmplaceWrite
    <2>1. Distance(r, w) < Capacity
      <3>1. Distance(r, w) <= Distance(cached_read_position, w)
            /\ Distance(cached_read_position, w) < Capacity
        BY <1>1, <1>3, DistanceIs, RingCapacityAssumption
           DEF RingInv, PositionsOrdered, CachesLagBehind, LooksStillHold, LooksFull,
               EmplaceWrite, Position
      <3>2. Distance(r, w) \in Int /\ Distance(cached_read_position, w) \in Int
        BY <1>1, DistanceIs DEF Position
      <3> QED
        BY <3>1, <3>2, RingCapacityAssumption
    <2>2. producer.value \in Value
      BY DEF RingInv, TypeOK
    <2>3. items' = items
      BY <1>1, <1>3, <2>1, <2>2, WaitingUntouched DEF EmplaceWrite
    <2> QED
      BY <1>3, <2>3 DEF EmplaceWrite, Fifo!vars, Waiting
  <1>4. CASE EmplacePublish
    <2>1. Distance(r, w) < Capacity
      <3>1. Distance(r, w) <= Distance(cached_read_position, w)
            /\ Distance(cached_read_position, w) < Capacity
        BY <1>1, <1>4, DistanceIs, RingCapacityAssumption
           DEF RingInv, PositionsOrdered, CachesLagBehind, LooksStillHold, LooksFull,
               EmplacePublish, Position
      <3>2. Distance(r, w) \in Int /\ Distance(cached_read_position, w) \in Int
        BY <1>1, DistanceIs DEF Position
      <3> QED
        BY <3>1, <3>2, RingCapacityAssumption
    <2>2. producer.value \in Value /\ s[SlotOf(w)] = producer.value
      BY <1>4 DEF RingInv, TypeOK, SlotsHoldStill, EmplacePublish
    <2>3. items' = Append(items, producer.value)
      BY <1>1, <1>4, <2>1, <2>2, WaitingAppends DEF EmplacePublish
    <2>4. Len(items) < Capacity
      BY <1>1, <2>1, WaitingTyped
    <2>5. Fifo!Insert(producer.value)
      BY <1>4, <2>3, <2>4 DEF EmplacePublish, Fifo!Insert, Waiting
    <2> QED
      BY <2>2, <2>5 DEF Fifo!Next
  <1>5. CASE ConsumeAdvance
    <2>1. r # w
      <3>1. r # cached_write_position /\ Distance(r, cached_write_position) <= Distance(r, w)
        BY <1>5 DEF RingInv, PositionsOrdered, CachesLagBehind, LooksStillHold, ConsumeAdvance
      <3>2. /\ Distance(r, cached_write_position) \in Int /\ Distance(r, w) \in Int
            /\ Distance(r, cached_write_position) >= 0
            /\ Distance(r, cached_write_position) # 0
        BY <1>1, <3>1, DistanceIs, DistanceZero DEF Position
      <3>3. Distance(r, w) # 0
        BY <3>1, <3>2
      <3> QED
        BY <1>1, <3>3, DistanceZero
    <2>2. received' = s[SlotOf(r)]
      BY <1>5 DEF RingInv, SlotsHoldStill, ConsumeAdvance
    <2>3. items # <<>> /\ Head(items) = s[SlotOf(r)] /\ items' = Tail(items)
      BY <1>1, <1>5, <2>1, WaitingTakes DEF ConsumeAdvance
    <2>4. Fifo!Take
      BY <2>2, <2>3 DEF Fifo!Take, Waiting
    <2> QED
      BY <2>4 DEF Fifo!Next
  <1>6. CASE Reset
    <2>1. 0 \in Position
      BY RingCapacityAssumption, PositionAssumption DEF Position
    <2>2. Distance(read_position', write_position') = 0
      BY <1>6, <2>1, DistanceZero DEF Reset
    <2>3. items' = <<>>
      BY <2>2 DEF Waiting
    <2>4. Fifo!Clear
      BY <1>6, <2>3 DEF Reset, Fifo!Clear, Waiting
    <2> QED
      BY <2>4 DEF Fifo!Next
  <1> QED
    BY <1>2, <1>3, <1>4, <1>5, <1>6
       DEF Next, EmplaceBegin, EmplaceReload, UpdateMaxDepth, ConsumeBegin, ConsumeReload,
           ConsumeRead, ObserveWrite, ObserveRead, vars

\* The ring implements the bounded queue: what comes out is what went in, in order,
\* with nothing lost, made up or repeated, across every wrap of the positions.
THEOREM RingImplementsFifo == Spec => ImplementsFifo
  <1>1. Init => Fifo!Init
    <2> SUFFICES ASSUME Init
                 PROVE  Fifo!Init
      OBVIOUS
    <2>1. 0 \in Position
      BY RingCapacityAssumption, PositionAssumption DEF Position
    <2>2. Distance(read_position, write_position) = 0
      BY <2>1, DistanceZero DEF Init
    <2> QED
      BY <2>2 DEF Init, Fifo!Init
  <1>2. RingInv /\ [Next]_vars => [Fifo!Next]_(Fifo!vars)
    BY RingStepSimulates
  <1> QED
    BY SpecRingInv, <1>1, <1>2, PTL DEF Spec, ImplementsFifo, Fifo!Spec
=============================================================================
