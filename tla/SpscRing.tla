------------------------------ MODULE SpscRing ------------------------------
(***************************************************************************)
(* SpscRing (lock_free_ring.hpp) as MulticastPublisher uses it: one        *)
(* producer, which notes the depth after each insertion, one consumer, and *)
(* a third thread that asks for the depth (stats). One action is one       *)
(* access to memory that the threads share.                                *)
(*                                                                         *)
(* Positions count up for ever in a size_t; they are kept modulo           *)
(* PositionModulus (2^64 in the code) and subtracted as unsigned integers. *)
(*                                                                         *)
(* An acquire load of the other thread's position may return any value     *)
(* that position had since this thread last looked: the caches keep the    *)
(* oldest possible one, and a stale value is a nondeterministic choice.    *)
(***************************************************************************)
EXTENDS Integers, Sequences, FiniteSetsExt

CONSTANTS
    Value,            \* what the slots hold
    NoValue,          \* nothing received yet
    Capacity,         \* slots, a power of two in the code
    PositionModulus   \* number of values of std::size_t

ASSUME RingCapacityAssumption == Capacity \in Nat \ {0}
ASSUME PositionAssumption ==
    /\ PositionModulus \in Nat
    /\ PositionModulus > Capacity
    /\ PositionModulus % Capacity = 0

VARIABLES
    slots,                   \* slots_
    write_position,          \* write_position_
    read_position,           \* read_position_
    cached_read_position,    \* producer's last look at read_position
    cached_write_position,   \* consumer's last look at write_position
    producer,                \* [pc, value]: try_emplace
    consumer,                \* [pc, value]: try_consume
    received,                \* the last value whose callback has run to its end
    max_depth,               \* ProducerShard::max_depth
    observer                 \* [pc, write, size]: size_approx, by a third thread

vars == <<slots, write_position, read_position, cached_read_position,
          cached_write_position, producer, consumer, received, max_depth,
          observer>>

measures == <<max_depth, observer>>

Position == 0 .. PositionModulus - 1

\* Mutant of Distance: the subtraction is signed.
Distance_signed(from, to) == to - from

\* Unsigned subtraction and addition of positions.
Distance(from, to) == (to - from) % PositionModulus
Advance(position) == (position + 1) % PositionModulus
SlotOf(position) == position % Capacity

TypeOK ==
    /\ slots \in [0 .. Capacity - 1 -> Value]
    /\ {write_position, read_position, cached_read_position, cached_write_position}
          \subseteq Position
    /\ producer \in [pc : {"idle", "reload", "write", "publish", "measure"}, value : Value]
    /\ consumer \in [pc : {"idle", "reload", "read", "advance"}, value : Value]
    /\ received \in Value \cup {NoValue}
    /\ max_depth \in Position
    /\ observer \in [pc : {"idle", "loaded"}, write : Position, size : Position]

Init ==
    /\ \E v \in Value : /\ slots = [i \in 0 .. Capacity - 1 |-> v]
                        /\ producer = [pc |-> "idle", value |-> v]
                        /\ consumer = [pc |-> "idle", value |-> v]
    /\ write_position = 0 /\ read_position = 0
    /\ cached_read_position = 0 /\ cached_write_position = 0
    /\ received = NoValue
    /\ max_depth = 0
    /\ observer = [pc |-> "idle", write |-> 0, size |-> 0]

\* The values a load of a position may return that was seen as seen and is now.
Loadable(seen, now) ==
    {p \in Position : Distance(seen, p) <= Distance(seen, now)}

\* Mutant of LooksFull: one slot too many.
LooksFull_late(read, write) == Distance(read, write) > Capacity

\* No slot is free, going by this read position.
LooksFull(read, write) == Distance(read, write) >= Capacity

-----------------------------------------------------------------------------
(* try_emplace, by the producer *)

EmplaceBegin(v) ==
    /\ producer.pc = "idle"
    /\ producer' = [value |-> v,
                    pc |-> IF LooksFull(cached_read_position, write_position)
                           THEN "reload" ELSE "write"]
    /\ UNCHANGED <<slots, write_position, read_position, cached_read_position,
                   cached_write_position, consumer, received, measures>>

\* Looks full: load the consumer's position. Still full: return false.
EmplaceReload ==
    /\ producer.pc = "reload"
    /\ \E p \in Loadable(cached_read_position, read_position) :
          /\ cached_read_position' = p
          /\ producer' = [producer EXCEPT !.pc =
                             IF LooksFull(p, write_position) THEN "idle" ELSE "write"]
    /\ UNCHANGED <<slots, write_position, read_position, cached_write_position, consumer,
                   received, measures>>

\* The caller's writer fills the slot.
EmplaceWrite ==
    /\ producer.pc = "write"
    /\ slots' = [slots EXCEPT ![SlotOf(write_position)] = producer.value]
    /\ producer' = [producer EXCEPT !.pc = "publish"]
    /\ UNCHANGED <<write_position, read_position, cached_read_position,
                   cached_write_position, consumer, received, measures>>

EmplacePublish ==
    /\ producer.pc = "publish"
    /\ write_position' = Advance(write_position)
    /\ producer' = [producer EXCEPT !.pc = "measure"]
    /\ UNCHANGED <<slots, read_position, cached_read_position, cached_write_position,
                   consumer, received, measures>>

\* Mutant of size_approx: the difference is masked like a slot, so that full is empty.
size_approx_masked(write, read) == Distance(read, write) % Capacity

size_approx(write, read) ==
    IF Distance(read, write) > Capacity THEN Capacity ELSE Distance(read, write)

\* send() goes on with update_max_depth(size_approx()): only this thread writes
\* the high-water mark, so its compare-and-exchange loop is one step.
UpdateMaxDepth ==
    /\ producer.pc = "measure"
    /\ \E p \in Loadable(cached_read_position, read_position) :
          max_depth' = Max({max_depth, size_approx(write_position, p)})
    /\ producer' = [producer EXCEPT !.pc = "idle"]
    /\ UNCHANGED <<slots, write_position, read_position, cached_read_position,
                   cached_write_position, consumer, received, observer>>

-----------------------------------------------------------------------------
(* try_consume, by the consumer *)

ConsumeBegin ==
    /\ consumer.pc = "idle"
    /\ consumer' = [consumer EXCEPT !.pc =
                       IF read_position = cached_write_position THEN "reload" ELSE "read"]
    /\ UNCHANGED <<slots, write_position, read_position, cached_read_position,
                   cached_write_position, producer, received, measures>>

\* Looks empty: load the producer's position. Still empty: return false.
ConsumeReload ==
    /\ consumer.pc = "reload"
    /\ \E p \in Loadable(cached_write_position, write_position) :
          /\ cached_write_position' = p
          /\ consumer' = [consumer EXCEPT !.pc = IF read_position = p THEN "idle" ELSE "read"]
    /\ UNCHANGED <<slots, write_position, read_position, cached_read_position, producer,
                   received, measures>>

\* The caller's reader works on the slot in place.
ConsumeRead ==
    /\ consumer.pc = "read"
    /\ consumer' = [pc |-> "advance", value |-> slots[SlotOf(read_position)]]
    /\ UNCHANGED <<slots, write_position, read_position, cached_read_position,
                   cached_write_position, producer, received, measures>>

ConsumeAdvance ==
    /\ consumer.pc = "advance"
    /\ read_position' = Advance(read_position)
    /\ received' = consumer.value
    /\ consumer' = [consumer EXCEPT !.pc = "idle"]
    /\ UNCHANGED <<slots, write_position, cached_read_position, cached_write_position,
                   producer, measures>>

-----------------------------------------------------------------------------
(* size_approx by a third thread: the write position first, then the read     *)
(* position, which may have run past it meanwhile                             *)

ObserveWrite ==
    /\ observer.pc = "idle"
    /\ observer' = [observer EXCEPT !.pc = "loaded", !.write = write_position]
    /\ UNCHANGED <<slots, write_position, read_position, cached_read_position,
                   cached_write_position, producer, consumer, received, max_depth>>

ObserveRead ==
    /\ observer.pc = "loaded"
    /\ observer' = [pc |-> "idle", write |-> 0,
                    size |-> size_approx(observer.write, read_position)]
    /\ UNCHANGED <<slots, write_position, read_position, cached_read_position,
                   cached_write_position, producer, consumer, received, max_depth>>

-----------------------------------------------------------------------------

\* Mutant of Reset: the cached positions are forgotten.
Reset_keeps_caches ==
    /\ producer.pc = "idle" /\ consumer.pc = "idle" /\ observer.pc = "idle"
    /\ write_position' = 0 /\ read_position' = 0
    /\ received' = NoValue
    /\ max_depth' = 0
    /\ UNCHANGED <<slots, cached_read_position, cached_write_position, producer, consumer,
                   observer>>

\* reset() is only called while producer and consumer are stopped; start() also
\* clears the high-water mark.
Reset ==
    /\ producer.pc = "idle" /\ consumer.pc = "idle" /\ observer.pc = "idle"
    /\ write_position' = 0 /\ read_position' = 0
    /\ cached_read_position' = 0 /\ cached_write_position' = 0
    /\ received' = NoValue
    /\ max_depth' = 0
    /\ UNCHANGED <<slots, producer, consumer, observer>>

Next ==
    \/ \E v \in Value : EmplaceBegin(v)
    \/ EmplaceReload \/ EmplaceWrite \/ EmplacePublish \/ UpdateMaxDepth
    \/ ConsumeBegin \/ ConsumeReload \/ ConsumeRead \/ ConsumeAdvance
    \/ ObserveWrite \/ ObserveRead
    \/ Reset

Spec == Init /\ [][Next]_vars

-----------------------------------------------------------------------------
(* Properties *)

\* The producer never writes a slot while the consumer's callback works on it:
\* the plain memory accesses of the two callbacks do not race.
NoSlotRace ==
    ~ /\ producer.pc \in {"write", "publish"}
      /\ consumer.pc \in {"read", "advance"}
      /\ SlotOf(write_position) = SlotOf(read_position)

\* The caches are never ahead of the positions they stand for, so neither a free
\* nor a published slot is ever taken for granted too early.
CachesLagBehind ==
    /\ Distance(cached_read_position, write_position)
          >= Distance(read_position, write_position)
    /\ Distance(read_position, cached_write_position)
          <= Distance(read_position, write_position)

\* "This is an upper bound on simultaneous aggregate depth": a ring never holds more
\* than its high-water mark says, but for one slot that is published and not yet
\* measured, although the consumer moves on while the producer measures and the
\* position it loads may be old.
HighWaterMarkCovers ==
    Distance(read_position, write_position)
        <= max_depth + (IF producer.pc = "measure" THEN 1 ELSE 0)

Fifo == INSTANCE BoundedFifo WITH
    items <- [i \in 1 .. Distance(read_position, write_position) |->
                 slots[SlotOf(read_position + i - 1)]]

\* The ring is a bounded first-in first-out queue: the publish store inserts, the
\* store that frees the slot takes out, also when the positions wrap around.
ImplementsFifo == Fifo!Spec
=============================================================================
