------------------------- MODULE MulticastPublisher -------------------------
(***************************************************************************)
(* MulticastPublisher (multicast_publisher.cpp): producer threads that     *)
(* queue datagrams in private rings, the publisher thread that drains them *)
(* and owns sendto(), and the thread that starts and stops it. One action  *)
(* is one access to shared memory; a ring is its queue of published slots  *)
(* (SpscRing shows that the ring behaves as one).                          *)
(*                                                                         *)
(* A release store followed by a load of another location may be reordered *)
(* by an x86-64 build: the store waits in the core's store buffer. The one *)
(* place where the publisher thread does this is the clear of              *)
(* wake_requested_ before it looks at the queues again; StoreBuffering     *)
(* says whether that clear may be delayed. Read-modify-write operations    *)
(* and the blocking path of wait() empty the buffer.                       *)
(***************************************************************************)
EXTENDS Integers, Sequences, FiniteSets

CONSTANTS
    Producer,         \* threads that call send()
    ShardCount,       \* kProducerShardCount: 256 in the code
    Capacity,         \* kQueueCapacityPerProducer: 32 in the code
    MaxSends,         \* bound: thread -> calls of send() in one generation
    MaxGenerations,   \* bound: calls of start()
    StoreBuffering    \* whether a release store may be delayed past a load

ASSUME ShardAssumption == ShardCount \in Nat \ {0}
ASSUME CapacityAssumption == Capacity \in Nat \ {0}
ASSUME BoundAssumption == MaxSends \in [Producer -> Nat] /\ MaxGenerations \in Nat
ASSUME StoreBufferingAssumption == StoreBuffering \in BOOLEAN

Shard == 0 .. ShardCount - 1
kInvalidShard == ShardCount

VARIABLES
    running,          \* running_
    generation,       \* generation_
    next_shard,       \* next_producer_shard_
    wake_requested,   \* wake_requested_, as other threads see it
    clear_buffered,   \* the publisher's clear is still in its store buffer
    queue,            \* shard -> published slots, oldest first
    active_sender,    \* shard -> ProducerShard::active_sender
    registration,     \* thread -> thread_local {generation, shard}
    pc,               \* producer thread -> where it is in send()
    calls,            \* producer thread -> calls of send() in this generation
    pub,              \* publisher thread: [pc, k (loop index), cursor]
    control,          \* controlling thread: where it is in start() / stop()
    accepted,         \* datagrams that try_emplace took (send() returns true)
    delivered,        \* datagrams handed to sendto(), sent or failed
    owed              \* datagrams accepted before stop() cleared running_

vars == <<running, generation, next_shard, wake_requested, clear_buffered, queue,
          active_sender, registration, pc, calls, pub, control, accepted, delivered, owed>>

senderVars == <<registration, pc, calls>>
ghostVars == <<accepted, delivered, owed>>

Datagram == UNION {{t} \X (1 .. MaxSends[t]) : t \in Producer}

SendPc == {"idle", "register", "activate", "recheck", "abort", "emplace", "full",
           "queued", "signal", "set", "notify"}
PubPc == {"none", "scan", "check_running", "drain_empty", "drain_active", "rescan",
          "recheck_running", "wait", "asleep", "exited"}

TypeOK ==
    /\ running \in BOOLEAN /\ wake_requested \in BOOLEAN /\ clear_buffered \in BOOLEAN
    /\ generation \in 0 .. MaxGenerations
    /\ next_shard \in Nat
    /\ queue \in [Shard -> Seq(Datagram)]
    /\ \A s \in Shard : Len(queue[s]) <= Capacity
    /\ active_sender \in [Shard -> BOOLEAN]
    /\ registration \in [Producer -> [generation : 0 .. MaxGenerations, shard : Shard]]
    /\ pc \in [Producer -> SendPc]
    /\ calls \in [Producer -> Nat] /\ \A t \in Producer : calls[t] <= MaxSends[t]
    /\ pub \in [pc : PubPc, k : 0 .. ShardCount, cursor : Shard]
    /\ control \in {"stopped", "started", "set_flag", "notify_all", "join"}
    /\ accepted \subseteq Datagram /\ delivered \subseteq Datagram /\ owed \subseteq Datagram

Init ==
    /\ running = FALSE
    /\ generation = 0
    /\ next_shard = 0
    /\ wake_requested = FALSE
    /\ clear_buffered = FALSE
    /\ queue = [s \in Shard |-> <<>>]
    /\ active_sender = [s \in Shard |-> FALSE]
    /\ registration = [t \in Producer |-> [generation |-> 0, shard |-> 0]]
    /\ pc = [t \in Producer |-> "idle"]
    /\ calls = [t \in Producer |-> 0]
    /\ pub = [pc |-> "none", k |-> 0, cursor |-> 0]
    /\ control = "stopped"
    /\ accepted = {} /\ delivered = {} /\ owed = {}

-----------------------------------------------------------------------------
(* start() and stop() *)

\* start() resets the rings, which SpscRing::reset only allows while no producer and no
\* consumer uses them. That nobody is inside send() is up to the caller: start() does not
\* look. The server keeps to it by making a new publisher for each of its starts.
Start ==
    /\ control = "stopped"
    /\ generation < MaxGenerations
    /\ \A t \in Producer : pc[t] = "idle"
    /\ queue' = [s \in Shard |-> <<>>]
    /\ active_sender' = [s \in Shard |-> FALSE]
    /\ next_shard' = 0
    /\ wake_requested' = FALSE
    /\ clear_buffered' = FALSE
    /\ generation' = generation + 1
    /\ running' = TRUE
    /\ pub' = [pc |-> "scan", k |-> 0, cursor |-> 0]
    /\ control' = "started"
    /\ calls' = [t \in Producer |-> 0]
    /\ accepted' = {} /\ delivered' = {} /\ owed' = {}
    /\ UNCHANGED <<registration, pc>>

StopClearsRunning ==
    /\ control = "started"
    /\ running' = FALSE
    /\ control' = "set_flag"
    /\ owed' = accepted
    /\ UNCHANGED <<generation, next_shard, wake_requested, clear_buffered, queue,
                   active_sender, senderVars, pub, accepted, delivered>>

StopSetsFlag ==
    /\ control = "set_flag"
    /\ wake_requested' = TRUE
    /\ control' = "notify_all"
    /\ UNCHANGED <<running, generation, next_shard, clear_buffered, queue, active_sender,
                   senderVars, pub, ghostVars>>

\* Mutant of Notified: the notification is left out.
Notified_nobody == pub

\* A thread blocked in wait() looks at the flag again when it is notified.
Notified == IF pub.pc = "asleep" THEN [pub EXCEPT !.pc = "wait"] ELSE pub

StopNotifies ==
    /\ control = "notify_all"
    /\ pub' = Notified
    /\ control' = "join"
    /\ UNCHANGED <<running, generation, next_shard, wake_requested, clear_buffered, queue,
                   active_sender, senderVars, ghostVars>>

\* join() returns once the thread has ended; the socket is closed.
StopJoins ==
    /\ control = "join"
    /\ pub.pc = "exited"
    /\ control' = "stopped"
    /\ pub' = [pub EXCEPT !.pc = "none"]
    /\ UNCHANGED <<running, generation, next_shard, wake_requested, clear_buffered, queue,
                   active_sender, senderVars, ghostVars>>

-----------------------------------------------------------------------------
(* send(), by thread t *)

Goto(t, where) == pc' = [pc EXCEPT ![t] = where]

MyShard(t) == registration[t].shard

\* The datagram of the call that t is in.
Current(t) == <<t, calls[t]>>

\* The first look at running_; a stopped publisher drops the datagram.
SendBegin(t) ==
    /\ pc[t] = "idle"
    /\ calls[t] < MaxSends[t]
    /\ generation > 0
    /\ calls' = [calls EXCEPT ![t] = @ + 1]
    /\ Goto(t, IF running THEN "register" ELSE "idle")
    /\ UNCHANGED <<running, generation, next_shard, wake_requested, clear_buffered, queue,
                   active_sender, registration, pub, control, ghostVars>>

\* Mutant of SendRegister: threads beyond the budget share the shards.
SendRegister_wraps(t) ==
    /\ pc[t] = "register"
    /\ Goto(t, "activate")
    /\ \/ /\ registration[t].generation = generation
          /\ UNCHANGED <<registration, next_shard>>
       \/ /\ registration[t].generation # generation
          /\ next_shard' = next_shard + 1
          /\ registration' = [registration EXCEPT
                 ![t] = [generation |-> generation, shard |-> next_shard % ShardCount]]
    /\ UNCHANGED <<running, generation, wake_requested, clear_buffered, queue,
                   active_sender, calls, pub, control, ghostVars>>

\* Mutant of SendRegister: the shard is not remembered between calls.
SendRegister_anew(t) ==
    /\ pc[t] = "register"
    /\ next_shard' = next_shard + 1
    /\ IF next_shard < kInvalidShard
       THEN /\ registration' = [registration EXCEPT
                  ![t] = [generation |-> generation, shard |-> next_shard]]
            /\ Goto(t, "activate")
       ELSE Goto(t, "idle") /\ UNCHANGED registration
    /\ UNCHANGED <<running, generation, wake_requested, clear_buffered, queue,
                   active_sender, calls, pub, control, ghostVars>>

\* producer_shard_for_current_thread: a thread keeps the shard it was given in
\* this generation; a thread beyond the budget gets none and drops.
SendRegister(t) ==
    /\ pc[t] = "register"
    /\ \/ /\ registration[t].generation = generation
          /\ Goto(t, "activate")
          /\ UNCHANGED <<registration, next_shard>>
       \/ /\ registration[t].generation # generation
          /\ next_shard' = next_shard + 1
          /\ IF next_shard < kInvalidShard
             THEN /\ registration' = [registration EXCEPT
                        ![t] = [generation |-> generation, shard |-> next_shard]]
                  /\ Goto(t, "activate")
             ELSE Goto(t, "idle") /\ UNCHANGED registration
    /\ UNCHANGED <<running, generation, wake_requested, clear_buffered, queue,
                   active_sender, calls, pub, control, ghostVars>>

SendActivate(t) ==
    /\ pc[t] = "activate"
    /\ active_sender' = [active_sender EXCEPT ![MyShard(t)] = TRUE]
    /\ Goto(t, "recheck")
    /\ UNCHANGED <<running, generation, next_shard, wake_requested, clear_buffered, queue,
                   registration, calls, pub, control, ghostVars>>

SendRecheck(t) ==
    /\ pc[t] = "recheck"
    /\ Goto(t, IF running THEN "emplace" ELSE "abort")
    /\ UNCHANGED <<running, generation, next_shard, wake_requested, clear_buffered, queue,
                   active_sender, registration, calls, pub, control, ghostVars>>

\* Mutant of SendEmplace: the ring takes one slot more than it has.
SendEmplace_one_more(t) ==
    /\ pc[t] = "emplace"
    /\ Len(queue[MyShard(t)]) <= Capacity
    /\ queue' = [queue EXCEPT ![MyShard(t)] = Append(@, Current(t))]
    /\ accepted' = accepted \cup {Current(t)}
    /\ Goto(t, "queued")
    /\ UNCHANGED <<running, generation, next_shard, wake_requested, clear_buffered,
                   active_sender, registration, calls, pub, control, delivered, owed>>

\* Mutant of SendEmplace: a full ring overwrites its oldest slot.
SendEmplace_overwrites(t) ==
    /\ pc[t] = "emplace"
    /\ queue' = [queue EXCEPT ![MyShard(t)] =
                     IF Len(@) < Capacity THEN Append(@, Current(t))
                     ELSE Append(Tail(@), Current(t))]
    /\ accepted' = accepted \cup {Current(t)}
    /\ Goto(t, "queued")
    /\ UNCHANGED <<running, generation, next_shard, wake_requested, clear_buffered,
                   active_sender, registration, calls, pub, control, delivered, owed>>

\* try_emplace: a full ring refuses, otherwise the slot is published.
SendEmplace(t) ==
    /\ pc[t] = "emplace"
    /\ \/ /\ Len(queue[MyShard(t)]) >= Capacity
          /\ Goto(t, "full")
          /\ UNCHANGED <<queue, accepted>>
       \/ /\ Len(queue[MyShard(t)]) < Capacity
          /\ queue' = [queue EXCEPT ![MyShard(t)] = Append(@, Current(t))]
          /\ accepted' = accepted \cup {Current(t)}
          /\ Goto(t, "queued")
    /\ UNCHANGED <<running, generation, next_shard, wake_requested, clear_buffered,
                   active_sender, registration, calls, pub, control, delivered, owed>>

\* active_sender is cleared whatever came of the call; only a thread that queued
\* something goes on to wake the publisher.
SendDeactivate(t) ==
    /\ pc[t] \in {"abort", "full", "queued"}
    /\ active_sender' = [active_sender EXCEPT ![MyShard(t)] = FALSE]
    /\ Goto(t, IF pc[t] = "queued" THEN "signal" ELSE "idle")
    /\ UNCHANGED <<running, generation, next_shard, wake_requested, clear_buffered, queue,
                   registration, calls, pub, control, ghostVars>>

\* signal_consumer: look at the flag, set it if it is clear, notify if this
\* thread is the one that set it.
SignalTest(t) ==
    /\ pc[t] = "signal"
    /\ Goto(t, IF wake_requested THEN "idle" ELSE "set")
    /\ UNCHANGED <<running, generation, next_shard, wake_requested, clear_buffered, queue,
                   active_sender, registration, calls, pub, control, ghostVars>>

SignalSet(t) ==
    /\ pc[t] = "set"
    /\ wake_requested' = TRUE
    /\ Goto(t, IF wake_requested THEN "idle" ELSE "notify")
    /\ UNCHANGED <<running, generation, next_shard, clear_buffered, queue, active_sender,
                   registration, calls, pub, control, ghostVars>>

SignalNotify(t) ==
    /\ pc[t] = "notify"
    /\ pub' = Notified
    /\ Goto(t, "idle")
    /\ UNCHANGED <<running, generation, next_shard, wake_requested, clear_buffered, queue,
                   active_sender, registration, calls, control, ghostVars>>

Send(t) ==
    \/ SendBegin(t) \/ SendRegister(t) \/ SendActivate(t) \/ SendRecheck(t)
    \/ SendEmplace(t) \/ SendDeactivate(t)
    \/ SignalTest(t) \/ SignalSet(t) \/ SignalNotify(t)

-----------------------------------------------------------------------------
(* publisher_loop() *)

PubUnchanged == UNCHANGED <<running, generation, next_shard, active_sender, senderVars, control>>

At(where) == [pc |-> where, k |-> 0, cursor |-> pub.cursor]

\* The round-robin look for a slot to send: one shard per step. A shard with
\* something in it is sent from, and the next round starts behind it.
PubScan ==
    /\ pub.pc = "scan"
    /\ LET s == (pub.cursor + pub.k) % ShardCount
       IN  \/ /\ queue[s] # <<>>
              /\ delivered' = delivered \cup {Head(queue[s])}
              /\ queue' = [queue EXCEPT ![s] = Tail(@)]
              /\ pub' = [pc |-> "scan", k |-> 0, cursor |-> (s + 1) % ShardCount]
           \/ /\ queue[s] = <<>>
              /\ pub' = IF pub.k + 1 < ShardCount THEN [pub EXCEPT !.k = @ + 1]
                        ELSE At("check_running")
              /\ UNCHANGED <<queue, delivered>>
    /\ UNCHANGED <<wake_requested, clear_buffered, accepted, owed>>
    /\ PubUnchanged

\* Stopped: see whether there is anything left. Running: clear the flag, to be
\* woken by whoever queues something from here on.
PubCheckRunning ==
    /\ pub.pc = "check_running"
    /\ IF ~running
       THEN pub' = At("drain_empty") /\ UNCHANGED <<wake_requested, clear_buffered>>
       ELSE /\ pub' = At("rescan")
            /\ IF StoreBuffering
               THEN clear_buffered' = TRUE /\ UNCHANGED wake_requested
               ELSE wake_requested' = FALSE /\ UNCHANGED clear_buffered
    /\ UNCHANGED <<queue, ghostVars>>
    /\ PubUnchanged

\* The delayed clear reaches memory.
ClearReachesMemory ==
    /\ clear_buffered
    /\ clear_buffered' = FALSE
    /\ wake_requested' = FALSE
    /\ UNCHANGED <<queue, pub, ghostVars>>
    /\ PubUnchanged

\* Mutant of LookAtQueues: only the first shard is looked at.
LookAtQueues_first(here, where) ==
    /\ pub.pc = here
    /\ pub' = IF queue[0] # <<>> THEN At("scan") ELSE At(where)
    /\ UNCHANGED <<wake_requested, clear_buffered, queue, ghostVars>>
    /\ PubUnchanged

\* all_queues_empty(), one shard per step: any slot sends the publisher back to
\* its scan; none, and it goes on to where.
LookAtQueues(here, where) ==
    /\ pub.pc = here
    /\ pub' = IF queue[pub.k] # <<>> THEN At("scan")
              ELSE IF pub.k + 1 < ShardCount THEN [pub EXCEPT !.k = @ + 1]
              ELSE At(where)
    /\ UNCHANGED <<wake_requested, clear_buffered, queue, ghostVars>>
    /\ PubUnchanged

PubDrainEmpty == LookAtQueues("drain_empty", "drain_active")

\* any_active_senders(), one shard per step; nobody active ends the thread.
PubDrainActive ==
    /\ pub.pc = "drain_active"
    /\ pub' = IF active_sender[pub.k] THEN At("scan")
              ELSE IF pub.k + 1 < ShardCount THEN [pub EXCEPT !.k = @ + 1]
              ELSE At("exited")
    /\ UNCHANGED <<wake_requested, clear_buffered, queue, ghostVars>>
    /\ PubUnchanged

PubRescan == LookAtQueues("rescan", "recheck_running")

PubRecheckRunning ==
    /\ pub.pc = "recheck_running"
    /\ pub' = IF running THEN At("wait") ELSE At("scan")
    /\ UNCHANGED <<wake_requested, clear_buffered, queue, ghostVars>>
    /\ PubUnchanged

\* wait(false): blocks while the flag is clear.
PubWait ==
    /\ pub.pc = "wait"
    /\ ~clear_buffered
    /\ pub' = IF wake_requested THEN At("scan") ELSE At("asleep")
    /\ UNCHANGED <<wake_requested, clear_buffered, queue, ghostVars>>
    /\ PubUnchanged

Publish ==
    \/ PubScan \/ PubCheckRunning \/ ClearReachesMemory \/ PubDrainEmpty
    \/ PubDrainActive \/ PubRescan \/ PubRecheckRunning \/ PubWait

Stop == StopClearsRunning \/ StopSetsFlag \/ StopNotifies \/ StopJoins

Next ==
    \/ Start
    \/ Stop
    \/ \E t \in Producer : Send(t)
    \/ Publish

Spec == Init /\ [][Next]_vars

\* Every thread is scheduled: a call of send() or stop() that was made goes on,
\* and so does the publisher. Nobody has to make a call.
SendContinues(t) == pc[t] # "idle" /\ Send(t)
StopContinues == control # "started" /\ Stop

FairSpec ==
    /\ Spec
    /\ \A t \in Producer : WF_vars(SendContinues(t))
    /\ WF_vars(StopContinues)
    /\ WF_vars(Publish)

-----------------------------------------------------------------------------
(* Properties *)

InQueues == UNION {{queue[s][i] : i \in DOMAIN queue[s]} : s \in Shard}

\* No datagram that send() took is lost or sent twice while the publisher works:
\* it is in exactly one place, a ring or the wire.
TakenOnce ==
    /\ accepted = InQueues \cup delivered
    /\ InQueues \cap delivered = {}
    /\ \A s1, s2 \in Shard : \A i \in DOMAIN queue[s1], j \in DOMAIN queue[s2] :
          queue[s1][i] = queue[s2][j] => s1 = s2 /\ i = j

\* "Each producer thread is assigned one private SPSC queue": never do two threads
\* that are inside send() use one ring.
PrivateQueues ==
    \A t, u \in Producer :
        /\ t # u
        /\ registration[t].generation = generation /\ registration[u].generation = generation
        /\ generation > 0
        => registration[t].shard # registration[u].shard

\* A producer's datagrams of one generation go out in the order it sent them, two of them
\* waiting in its queue, and registrations of the generation before still around.
InOrder ==
    [][\A d \in delivered' \ delivered : \A e \in delivered : e[1] = d[1] => e[2] < d[2]]_vars

\* What was queued before stop() was called is on the wire when stop() returns.
StopDrainsEarlierSends == pub.pc = "exited" => owed \subseteq delivered

\* "This prevents missed wake-ups": the publisher sleeps only while there is
\* nothing to do, or somebody is still on the way to wake it.
NoMissedWakeup ==
    pub.pc = "asleep" =>
        \/ InQueues = {} /\ running
        \/ control \in {"set_flag", "notify_all"}
        \/ \E t \in Producer : pc[t] \in {"queued", "signal", "set", "notify"}

\* A datagram that is queued while the publisher runs is sent, even if nobody
\* sends again and even if stop() is called meanwhile.
QueuedIsSent ==
    \A d \in Datagram : (d \in accepted /\ running) ~> (d \in delivered \/ d \notin accepted)

\* stop() returns.
StopReturns == (control = "set_flag") ~> (control = "stopped")
=============================================================================
