---------------------- MODULE MulticastPublisherProofs ----------------------
(***************************************************************************)
(* The publisher is safe for any number of threads, shards, slots and      *)
(* generations: rings stay private, no datagram is lost, doubled or        *)
(* overtaken, stop() drains what was queued before it, and, where a store  *)
(* is not delayed past a load, no wake-up is missed.                       *)
(***************************************************************************)
EXTENDS MulticastPublisher, SequenceTheorems, TLAPS

-----------------------------------------------------------------------------
(* The inductive invariant *)

\* A thread inside send() was let in by a started publisher, and has a shard of this
\* generation once it has registered.
Calling ==
    \A t \in Producer :
        /\ pc[t] # "idle" => generation > 0 /\ calls[t] >= 1
        /\ pc[t] \in {"activate", "recheck", "abort", "emplace", "full", "queued"} =>
              registration[t].generation = generation

\* Shards of this generation were given out by the counter, each one once.
Registered ==
    /\ \A t \in Producer :
          /\ registration[t].generation <= generation
          /\ generation > 0 /\ registration[t].generation = generation =>
                registration[t].shard < next_shard
    /\ PrivateQueues

\* A datagram is accepted in the call that it is numbered after.
Numbered ==
    \A d \in accepted :
        /\ d[2] <= calls[d[1]]
        /\ pc[d[1]] \in {"register", "activate", "recheck", "emplace"} => d[2] < calls[d[1]]

\* A ring holds datagrams of the thread that it belongs to, oldest first, all younger
\* than what that thread has on the wire.
QueueOrder ==
    \A s \in Shard : \A i \in DOMAIN queue[s] :
        /\ registration[queue[s][i][1]] = [generation |-> generation, shard |-> s]
        /\ \A j \in DOMAIN queue[s] : i < j => queue[s][i][2] < queue[s][j][2]
        /\ \A e \in delivered : e[1] = queue[s][i][1] => e[2] < queue[s][i][2]

\* What was accepted is in a ring or on the wire.
Accounted ==
    /\ delivered \subseteq accepted
    /\ \A s \in Shard : \A i \in DOMAIN queue[s] : queue[s][i] \in accepted
    /\ \A d \in accepted : d \in delivered \/ \E s \in Shard : \E i \in DOMAIN queue[s] : d = queue[s][i]

\* The shards before n hold nothing that was queued before stop().
NotOwed(n) == \A s \in Shard : s < n => \A i \in DOMAIN queue[s] : queue[s][i] \notin owed

\* The publisher only drains after stop() has cleared the flag, and what it has looked
\* at since then stays drained of earlier datagrams.
Drained ==
    /\ owed \subseteq accepted
    /\ running <=> control = "started"
    /\ pub.pc \in {"drain_empty", "drain_active", "exited"} => ~running
    /\ pub.pc = "drain_empty" => NotOwed(pub.k)
    /\ pub.pc \in {"drain_active", "exited"} => NotOwed(ShardCount)

\* The shards before n are empty.
EmptyTo(n) == \A s \in Shard : s < n => queue[s] = <<>>

\* Some thread has queued a datagram and has still to look at the flag or to set it.
Waker == \E t \in Producer : pc[t] \in {"queued", "signal", "set"}

\* From the clear of the flag on, a shard that is not empty any more has a thread on its
\* way to the flag, or the flag is set again; and a flag that is set while the publisher
\* sleeps has a thread on its way to notify it.
Awake ==
    /\ ~clear_buffered
    /\ pub.pc = "rescan" => wake_requested \/ Waker \/ EmptyTo(pub.k)
    /\ pub.pc = "recheck_running" => wake_requested \/ Waker \/ EmptyTo(ShardCount)
    /\ pub.pc \in {"wait", "asleep"} =>
          \/ wake_requested \/ Waker \/ control = "set_flag"
          \/ EmptyTo(ShardCount) /\ running
    /\ pub.pc = "asleep" /\ wake_requested =>
          control = "notify_all" \/ \E t \in Producer : pc[t] = "notify"

PublisherInv ==
    TypeOK /\ Calling /\ Registered /\ Numbered /\ QueueOrder /\ Accounted /\ Drained

-----------------------------------------------------------------------------
(* Data *)

\* The thread and the number of a datagram.
LEMMA DatagramParts ==
    ASSUME NEW d \in Datagram
    PROVE  d = <<d[1], d[2]>> /\ d[1] \in Producer /\ d[2] \in Nat
  BY BoundAssumption DEF Datagram

\* The datagram of a call within the bound.
LEMMA CurrentTyped ==
    ASSUME TypeOK, NEW t \in Producer, calls[t] >= 1
    PROVE  Current(t) \in Datagram /\ Current(t)[1] = t /\ Current(t)[2] = calls[t]
  <1>1. calls[t] \in 1 .. MaxSends[t]
    BY BoundAssumption DEF TypeOK
  <1>2. <<t, calls[t]>> \in {t} \X (1 .. MaxSends[t])
    BY <1>1
  <1> QED
    BY <1>2 DEF Current, Datagram

\* The rest of a ring, slot by slot.
LEMMA TailSlots ==
    ASSUME NEW q \in Seq(Datagram), q # <<>>
    PROVE  /\ Tail(q) \in Seq(Datagram) /\ Head(q) \in Datagram /\ Head(q) = q[1]
           /\ Len(Tail(q)) = Len(q) - 1
           /\ DOMAIN Tail(q) = 1 .. Len(q) - 1 /\ DOMAIN q = 1 .. Len(q) /\ Len(q) \in Nat \ {0}
           /\ \A i \in 1 .. Len(q) - 1 : Tail(q)[i] = q[i + 1]
  <1>1. /\ Tail(q) \in Seq(Datagram) /\ Head(q) \in Datagram
        /\ Len(Tail(q)) = Len(q) - 1
        /\ \A i \in 1 .. Len(Tail(q)) : Tail(q)[i] = q[i + 1]
    BY HeadTailProperties
  <1>2. Len(q) \in Nat \ {0} /\ DOMAIN q = 1 .. Len(q) /\ Head(q) = q[1]
    BY EmptySeq
  <1>3. DOMAIN Tail(q) = 1 .. Len(Tail(q))
    BY <1>1
  <1> QED
    BY <1>1, <1>2, <1>3

\* The shard that a round-robin look is at.
LEMMA ShardTyped ==
    ASSUME NEW x \in Int
    PROVE  x % ShardCount \in Shard
  BY ShardAssumption DEF Shard

-----------------------------------------------------------------------------
(* Types *)

\* The states of the publisher thread.
PubState == [pc : PubPc, k : 0 .. ShardCount, cursor : Shard]

\* The publisher thread goes to another place, or on to the next shard.
LEMMA PubMoves ==
    ASSUME TypeOK
    PROVE  /\ pub \in PubState
           /\ \A where \in PubPc : At(where) \in PubState
           /\ pub.k + 1 < ShardCount => [pub EXCEPT !.k = @ + 1] \in PubState
  <1>1. pub \in PubState
    BY DEF TypeOK, PubState
  <1>2. pub.cursor \in Shard /\ 0 \in 0 .. ShardCount
    BY <1>1, ShardAssumption DEF PubState
  <1>3. \A where \in PubPc : At(where) \in PubState
    BY <1>2 DEF At, PubState
  <1>4. pub.k + 1 < ShardCount => [pub EXCEPT !.k = @ + 1] \in PubState
    BY <1>1, ShardAssumption DEF PubState
  <1> QED
    BY <1>1, <1>3, <1>4

\* A step of the publisher thread that only moves it keeps the types.
LEMMA PubMoveTypeOK ==
    ASSUME TypeOK, pub' \in PubState, UNCHANGED <<wake_requested, clear_buffered, queue, ghostVars>>,
           PubUnchanged
    PROVE  TypeOK'
  BY DEF TypeOK, PubState, PubUnchanged, senderVars, ghostVars

\* The publisher starts in the invariant.
LEMMA InitPublisherInv == Init => PublisherInv /\ Awake
  <1> SUFFICES ASSUME Init
               PROVE  PublisherInv /\ Awake
    OBVIOUS
  <1>1. TypeOK
    <2>1. 0 \in Shard /\ 0 \in 0 .. ShardCount
      BY ShardAssumption DEF Shard
    <2>2. queue \in [Shard -> Seq(Datagram)] /\ \A s \in Shard : Len(queue[s]) <= Capacity
      BY CapacityAssumption DEF Init
    <2>3. calls \in [Producer -> Nat] /\ \A t \in Producer : calls[t] <= MaxSends[t]
      BY BoundAssumption DEF Init
    <2>4. generation \in 0 .. MaxGenerations /\ 0 \in 0 .. MaxGenerations
      BY BoundAssumption DEF Init
    <2> QED
      BY <2>1, <2>2, <2>3, <2>4 DEF Init, TypeOK, SendPc, PubPc
  <1>2. Calling /\ Registered
    BY DEF Init, Calling, Registered, PrivateQueues
  <1>3. Numbered /\ QueueOrder /\ Accounted /\ Drained /\ Awake
    BY DEF Init, Numbered, QueueOrder, Accounted, Drained, Awake
  <1> QED
    BY <1>1, <1>2, <1>3 DEF PublisherInv

\* The steps of start() and stop() keep the types.
LEMMA ControlTypeOK ==
    ASSUME TypeOK, Start \/ Stop
    PROVE  TypeOK'
  <1>1. CASE Start
    <2>1. 0 \in Shard /\ 0 \in 0 .. ShardCount
      BY ShardAssumption DEF Shard
    <2>2. queue' \in [Shard -> Seq(Datagram)] /\ \A s \in Shard : Len(queue'[s]) <= Capacity
      BY <1>1, CapacityAssumption DEF Start
    <2>3. calls' \in [Producer -> Nat] /\ \A t \in Producer : calls'[t] <= MaxSends[t]
      BY <1>1, BoundAssumption DEF Start
    <2>4. generation' \in 0 .. MaxGenerations
      BY <1>1, BoundAssumption DEF Start, TypeOK
    <2> QED
      BY <1>1, <2>1, <2>2, <2>3, <2>4 DEF Start, TypeOK, PubPc
  <1>2. CASE StopClearsRunning
    BY <1>2 DEF StopClearsRunning, TypeOK, senderVars
  <1>3. CASE StopSetsFlag
    BY <1>3 DEF StopSetsFlag, TypeOK, senderVars, ghostVars
  <1>4. CASE StopNotifies
    BY <1>4 DEF StopNotifies, Notified, TypeOK, senderVars, ghostVars, PubPc
  <1>5. CASE StopJoins
    BY <1>5 DEF StopJoins, TypeOK, senderVars, ghostVars, PubPc
  <1> QED
    BY <1>1, <1>2, <1>3, <1>4, <1>5 DEF Stop

\* The steps of send() keep the types.
LEMMA SendTypeOK ==
    ASSUME TypeOK, Calling, NEW t \in Producer, Send(t)
    PROVE  TypeOK'
  <1>1. CASE SendBegin(t)
    <2>1. calls[t] \in Nat /\ MaxSends[t] \in Nat /\ calls[t] < MaxSends[t]
      BY <1>1, BoundAssumption DEF SendBegin, TypeOK
    <2>2. \A u \in Producer : calls'[u] = IF u = t THEN calls[t] + 1 ELSE calls[u]
      BY <1>1 DEF SendBegin, TypeOK
    <2>3. calls' \in [Producer -> Nat] /\ \A u \in Producer : calls'[u] <= MaxSends[u]
      BY <1>1, <2>1, <2>2 DEF SendBegin, TypeOK
    <2> QED
      BY <1>1, <2>3 DEF SendBegin, Goto, TypeOK, ghostVars, SendPc
  <1>2. CASE SendRegister(t)
    <2>1. next_shard < kInvalidShard => next_shard \in Shard
      BY ShardAssumption DEF TypeOK, Shard, kInvalidShard
    <2>2. ASSUME next_shard < kInvalidShard,
                 registration' = [registration EXCEPT
                  ![t] = [generation |-> generation, shard |-> next_shard]]
          PROVE  registration' \in [Producer -> [generation : 0 .. MaxGenerations, shard : Shard]]
      BY <2>1, <2>2 DEF TypeOK
    <2>3. registration' \in [Producer -> [generation : 0 .. MaxGenerations, shard : Shard]]
      BY <1>2, <2>2 DEF SendRegister, TypeOK
    <2>4. next_shard' \in Nat
      BY <1>2 DEF SendRegister, TypeOK
    <2>5. pc' \in [Producer -> SendPc]
      BY <1>2 DEF SendRegister, Goto, TypeOK, SendPc
    <2> QED
      BY <1>2, <2>3, <2>4, <2>5 DEF SendRegister, TypeOK, ghostVars
  <1>3. CASE SendActivate(t)
    BY <1>3 DEF SendActivate, Goto, TypeOK, ghostVars, SendPc
  <1>4. CASE SendRecheck(t)
    BY <1>4 DEF SendRecheck, Goto, TypeOK, ghostVars, SendPc
  <1>5. CASE SendEmplace(t)
    <2>1. MyShard(t) \in Shard /\ queue[MyShard(t)] \in Seq(Datagram)
      BY DEF TypeOK, MyShard
    <2>2. Current(t) \in Datagram
      BY <1>5, CurrentTyped DEF Calling, SendEmplace
    <2>3. CASE UNCHANGED <<queue, accepted>>
      BY <1>5, <2>3 DEF SendEmplace, Goto, TypeOK, SendPc
    <2>4. CASE /\ Len(queue[MyShard(t)]) < Capacity
               /\ queue' = [queue EXCEPT ![MyShard(t)] = Append(@, Current(t))]
               /\ accepted' = accepted \cup {Current(t)}
      <3>1. /\ Append(queue[MyShard(t)], Current(t)) \in Seq(Datagram)
            /\ Len(Append(queue[MyShard(t)], Current(t))) <= Capacity
        BY <2>1, <2>2, <2>4, CapacityAssumption
      <3>2. queue' \in [Shard -> Seq(Datagram)] /\ \A s \in Shard : Len(queue'[s]) <= Capacity
        BY <2>1, <2>4, <3>1 DEF TypeOK
      <3> QED
        BY <1>5, <2>2, <2>4, <3>2 DEF SendEmplace, Goto, TypeOK, SendPc
    <2> QED
      BY <1>5, <2>3, <2>4 DEF SendEmplace
  <1>6. CASE SendDeactivate(t)
    BY <1>6 DEF SendDeactivate, Goto, TypeOK, ghostVars, SendPc
  <1>7. CASE SignalTest(t)
    BY <1>7 DEF SignalTest, Goto, TypeOK, ghostVars, SendPc
  <1>8. CASE SignalSet(t)
    BY <1>8 DEF SignalSet, Goto, TypeOK, ghostVars, SendPc
  <1>9. CASE SignalNotify(t)
    BY <1>9 DEF SignalNotify, Notified, Goto, TypeOK, ghostVars, SendPc, PubPc
  <1> QED
    BY <1>1, <1>2, <1>3, <1>4, <1>5, <1>6, <1>7, <1>8, <1>9 DEF Send

\* The steps of the publisher thread keep the types.
LEMMA PublishTypeOK ==
    ASSUME TypeOK, Publish
    PROVE  TypeOK'
  <1>1. CASE PubScan
    <2> DEFINE s == (pub.cursor + pub.k) % ShardCount
    <2>1. s \in Shard /\ (s + 1) % ShardCount \in Shard
      <3>1. pub.cursor + pub.k \in Int
        BY DEF TypeOK, Shard
      <3>2. s \in Shard
        BY <3>1, ShardTyped
      <3>3. s + 1 \in Int
        BY <3>2 DEF Shard
      <3> QED
        BY <3>2, <3>3, ShardTyped
    <2>2. queue[s] \in Seq(Datagram) /\ Len(queue[s]) <= Capacity
      BY <2>1 DEF TypeOK
    <2>3. CASE queue[s] = <<>>
      <3>1. pub' \in PubState
        BY <1>1, <2>3, PubMoves DEF PubScan, PubPc
      <3>2. UNCHANGED <<queue, delivered>>
        BY <1>1, <2>3 DEF PubScan
      <3> QED
        BY <1>1, <3>1, <3>2, PubMoveTypeOK DEF PubScan, ghostVars
    <2>4. CASE queue[s] # <<>>
      <3>1. /\ pub' = [pc |-> "scan", k |-> 0, cursor |-> (s + 1) % ShardCount]
            /\ delivered' = delivered \cup {Head(queue[s])}
            /\ queue' = [queue EXCEPT ![s] = Tail(@)]
        BY <1>1, <2>4 DEF PubScan
      <3>2. pub' \in PubState
        BY <2>1, <3>1, ShardAssumption DEF PubPc, PubState
      <3>3. /\ Tail(queue[s]) \in Seq(Datagram) /\ Head(queue[s]) \in Datagram
            /\ Len(Tail(queue[s])) <= Capacity
        BY <2>2, <2>4, TailSlots, CapacityAssumption
      <3>4. queue' \in [Shard -> Seq(Datagram)] /\ \A x \in Shard : Len(queue'[x]) <= Capacity
        BY <2>1, <3>1, <3>3 DEF TypeOK
      <3> QED
        BY <1>1, <3>1, <3>2, <3>3, <3>4 DEF PubScan, PubUnchanged, senderVars, TypeOK, PubState
    <2> QED
      BY <2>3, <2>4
  <1>2. CASE PubCheckRunning
    <2>1. pub' \in PubState
      BY <1>2, PubMoves DEF PubCheckRunning, PubPc
    <2>2. wake_requested' \in BOOLEAN /\ clear_buffered' \in BOOLEAN
      BY <1>2 DEF PubCheckRunning, TypeOK
    <2> QED
      BY <1>2, <2>1, <2>2
         DEF PubCheckRunning, PubUnchanged, senderVars, ghostVars, TypeOK, PubState
  <1>3. CASE ClearReachesMemory
    BY <1>3 DEF ClearReachesMemory, PubUnchanged, senderVars, ghostVars, TypeOK
  <1>4. CASE PubDrainEmpty \/ PubRescan
    <2>1. pub' \in PubState
      BY <1>4, PubMoves DEF PubDrainEmpty, PubRescan, LookAtQueues, PubPc
    <2> QED
      BY <1>4, <2>1, PubMoveTypeOK DEF PubDrainEmpty, PubRescan, LookAtQueues
  <1>5. CASE PubDrainActive
    <2>1. pub' \in PubState
      BY <1>5, PubMoves DEF PubDrainActive, PubPc
    <2> QED
      BY <1>5, <2>1, PubMoveTypeOK DEF PubDrainActive
  <1>6. CASE PubRecheckRunning
    <2>1. pub' \in PubState
      BY <1>6, PubMoves DEF PubRecheckRunning, PubPc
    <2> QED
      BY <1>6, <2>1, PubMoveTypeOK DEF PubRecheckRunning
  <1>7. CASE PubWait
    <2>1. pub' \in PubState
      BY <1>7, PubMoves DEF PubWait, PubPc
    <2> QED
      BY <1>7, <2>1, PubMoveTypeOK DEF PubWait
  <1> QED
    BY <1>1, <1>2, <1>3, <1>4, <1>5, <1>6, <1>7 DEF Publish

\* Every step keeps the types.
LEMMA NextTypeOK ==
    ASSUME TypeOK, Calling, [Next]_vars
    PROVE  TypeOK'
  <1>1. CASE UNCHANGED vars
    BY <1>1 DEF TypeOK, vars
  <1> QED
    BY <1>1, ControlTypeOK, SendTypeOK, PublishTypeOK DEF Next

-----------------------------------------------------------------------------
(* Threads and their shards *)

\* Goto moves one thread.
LEMMA GotoMoves ==
    ASSUME TypeOK, NEW t \in Producer, NEW where, Goto(t, where)
    PROVE  \A u \in Producer : pc'[u] = IF u = t THEN where ELSE pc[u]
  BY DEF Goto, TypeOK

\* What the steps of start(), stop() and the publisher leave alone.
LEMMA OthersLeaveSenders ==
    ASSUME Stop \/ Publish \/ UNCHANGED vars
    PROVE  UNCHANGED <<registration, pc, calls, generation, next_shard, active_sender>>
  BY DEF Stop, StopClearsRunning, StopSetsFlag, StopNotifies, StopJoins, Publish, PubScan,
         PubCheckRunning, ClearReachesMemory, PubDrainEmpty, PubDrainActive, PubRescan,
         LookAtQueues, PubRecheckRunning, PubWait, PubUnchanged, senderVars, vars

\* Every step keeps what is known of the threads inside send().
LEMMA NextCalling ==
    ASSUME TypeOK, Calling, [Next]_vars
    PROVE  Calling'
  <1>1. CASE Stop \/ Publish \/ UNCHANGED vars
    BY <1>1, OthersLeaveSenders DEF Calling
  <1>2. CASE Start
    BY <1>2 DEF Start, Calling
  <1>3. ASSUME NEW t \in Producer, Send(t)
        PROVE  Calling'
    <2>1. calls[t] \in Nat
      BY DEF TypeOK
    <2>2. CASE SendBegin(t)
      <3>1. \A u \in Producer : calls'[u] = IF u = t THEN calls[t] + 1 ELSE calls[u]
        BY <2>2 DEF SendBegin, TypeOK
      <3>2. \A u \in Producer : pc'[u] = IF u = t THEN IF running THEN "register" ELSE "idle"
                                         ELSE pc[u]
        BY <2>2, GotoMoves DEF SendBegin
      <3>3. UNCHANGED <<generation, registration>> /\ generation > 0
        BY <2>2 DEF SendBegin
      <3> QED
        BY <2>1, <3>1, <3>2, <3>3 DEF Calling
    <2>3. CASE SendRegister(t)
      <3>1. UNCHANGED <<generation, calls>> /\ pc[t] = "register"
        BY <2>3 DEF SendRegister
      <3>2. \A u \in Producer : u # t => pc'[u] = pc[u] /\ registration'[u] = registration[u]
        BY <2>3 DEF SendRegister, Goto, TypeOK
      <3>3. \/ pc'[t] = "idle"
            \/ pc'[t] = "activate" /\ registration'[t].generation = generation
        BY <2>3 DEF SendRegister, Goto, TypeOK
      <3> QED
        BY <3>1, <3>2, <3>3 DEF Calling
    <2>4. CASE SendActivate(t) \/ SendRecheck(t) \/ SendEmplace(t) \/ SendDeactivate(t)
               \/ SignalTest(t) \/ SignalSet(t) \/ SignalNotify(t)
      <3>1. UNCHANGED <<generation, calls, registration>>
        BY <2>4 DEF SendActivate, SendRecheck, SendEmplace, SendDeactivate, SignalTest,
                    SignalSet, SignalNotify
      <3>2. \A u \in Producer : u # t => pc'[u] = pc[u]
        BY <2>4, GotoMoves
           DEF SendActivate, SendRecheck, SendEmplace, SendDeactivate, SignalTest, SignalSet,
               SignalNotify
      <3>3. /\ pc[t] # "idle"
            /\ \/ pc[t] \in {"activate", "recheck", "abort", "emplace", "full", "queued"}
               \/ pc'[t] \notin {"activate", "recheck", "abort", "emplace", "full", "queued"}
        BY <2>4, GotoMoves
           DEF SendActivate, SendRecheck, SendEmplace, SendDeactivate, SignalTest, SignalSet,
               SignalNotify
      <3> QED
        BY <3>1, <3>2, <3>3 DEF Calling
    <2> QED
      BY <1>3, <2>2, <2>3, <2>4 DEF Send
  <1> QED
    BY <1>1, <1>2, <1>3 DEF Next

\* Every step keeps the shards private: a new generation has given out none, and the
\* counter only goes up within one.
LEMMA NextRegistered ==
    ASSUME TypeOK, Registered, [Next]_vars
    PROVE  Registered'
  <1>0. /\ generation \in Nat /\ next_shard \in Nat
        /\ \A t \in Producer : registration[t].generation \in Nat /\ registration[t].shard \in Nat
    BY ShardAssumption, BoundAssumption DEF TypeOK, Shard
  <1>1. CASE UNCHANGED <<registration, generation, next_shard>>
    BY <1>1 DEF Registered, PrivateQueues
  <1>2. CASE Start
    <2>1. \A t \in Producer : registration[t].generation < generation'
      BY <1>0, <1>2 DEF Start, Registered
    <2> QED
      BY <1>0, <1>2, <2>1 DEF Start, Registered, PrivateQueues
  <1>3. ASSUME NEW t \in Producer, SendRegister(t), ~UNCHANGED <<registration, generation, next_shard>>
        PROVE  Registered'
    <2>1. next_shard' = next_shard + 1 /\ UNCHANGED generation
      BY <1>3 DEF SendRegister
    <2>2. \A u \in Producer : u # t => registration'[u] = registration[u]
      BY <1>3 DEF SendRegister, TypeOK
    <2>3. \/ registration'[t] = [generation |-> generation, shard |-> next_shard]
          \/ registration'[t] = registration[t] /\ registration[t].generation # generation
      BY <1>3 DEF SendRegister, TypeOK
    <2>4. ASSUME NEW u \in Producer
          PROVE  /\ registration'[u].generation <= generation'
                 /\ generation' > 0 /\ registration'[u].generation = generation' =>
                       registration'[u].shard < next_shard'
      BY <1>0, <2>1, <2>2, <2>3 DEF Registered
    <2>5. ASSUME NEW u \in Producer, NEW v \in Producer, u # v,
                 registration'[u].generation = generation',
                 registration'[v].generation = generation', generation' > 0
          PROVE  registration'[u].shard # registration'[v].shard
      <3>1. CASE u # t /\ v # t
        BY <2>1, <2>2, <2>5, <3>1 DEF Registered, PrivateQueues
      <3>2. CASE u = t
        BY <1>0, <2>1, <2>2, <2>3, <2>5, <3>2 DEF Registered
      <3>3. CASE v = t
        BY <1>0, <2>1, <2>2, <2>3, <2>5, <3>3 DEF Registered
      <3> QED
        BY <3>1, <3>2, <3>3
    <2> QED
      BY <2>4, <2>5 DEF Registered, PrivateQueues
  <1>4. ASSUME NEW t \in Producer, Send(t), ~SendRegister(t)
        PROVE  UNCHANGED <<registration, generation, next_shard>>
    BY <1>4 DEF Send, SendBegin, SendActivate, SendRecheck, SendEmplace, SendDeactivate,
                SignalTest, SignalSet, SignalNotify
  <1> QED
    BY <1>1, <1>2, <1>3, <1>4, OthersLeaveSenders DEF Next

-----------------------------------------------------------------------------
(* Datagrams *)

\* The datagram of t is the new last slot of its ring.
Appended(t) ==
    LET s == MyShard(t)
        n == Len(queue[s])
    IN  /\ s \in Shard /\ n \in Nat /\ DOMAIN queue[s] = 1 .. n
        /\ accepted' = accepted \cup {Current(t)}
        /\ \A x \in Shard : x # s => queue'[x] = queue[x]
        /\ DOMAIN queue'[s] = 1 .. n + 1
        /\ \A i \in 1 .. n : queue'[s][i] = queue[s][i]
        /\ queue'[s][n + 1] = Current(t)

\* The first slot of ring s has been sent.
Removed(s) ==
    LET n == Len(queue[s])
    IN  /\ n \in Nat \ {0} /\ DOMAIN queue[s] = 1 .. n
        /\ delivered' = delivered \cup {queue[s][1]}
        /\ \A x \in Shard : x # s => queue'[x] = queue[x]
        /\ DOMAIN queue'[s] = 1 .. n - 1
        /\ \A i \in 1 .. n - 1 : queue'[s][i] = queue[s][i + 1]

\* try_emplace appends, or changes nothing.
LEMMA EmplaceEffect ==
    ASSUME TypeOK, NEW t \in Producer, SendEmplace(t)
    PROVE  \/ Appended(t) /\ pc'[t] = "queued"
           \/ UNCHANGED <<queue, accepted>> /\ pc'[t] = "full"
  <1> DEFINE s == MyShard(t)
             n == Len(queue[s])
  <1>1. s \in Shard /\ queue[s] \in Seq(Datagram)
    BY DEF TypeOK, MyShard
  <1>2. n \in Nat /\ DOMAIN queue[s] = 1 .. n
    BY <1>1
  <1>3. CASE n >= Capacity
    <2>1. UNCHANGED <<queue, accepted>> /\ Goto(t, "full")
      BY <1>2, <1>3, CapacityAssumption DEF SendEmplace
    <2> QED
      BY <2>1, GotoMoves
  <1>4. CASE n < Capacity
    <2>1. /\ queue' = [queue EXCEPT ![s] = Append(@, Current(t))]
          /\ accepted' = accepted \cup {Current(t)}
          /\ Goto(t, "queued")
      BY <1>2, <1>4, CapacityAssumption DEF SendEmplace
    <2>2. queue'[s] = Append(queue[s], Current(t)) /\ \A x \in Shard : x # s => queue'[x] = queue[x]
      BY <1>1, <2>1 DEF TypeOK
    <2>3. /\ DOMAIN queue'[s] = 1 .. n + 1
          /\ \A i \in 1 .. n : queue'[s][i] = queue[s][i]
          /\ queue'[s][n + 1] = Current(t)
      BY <1>1, <1>2, <2>2
    <2>4. Appended(t)
      BY <1>1, <1>2, <2>1, <2>2, <2>3 DEF Appended
    <2> QED
      BY <2>1, <2>4, GotoMoves
  <1> QED
    BY <1>2, <1>3, <1>4, CapacityAssumption

\* The scan sends the first slot of a ring, or changes no ring.
LEMMA ScanEffect ==
    ASSUME TypeOK, PubScan
    PROVE  UNCHANGED <<queue, delivered>> \/ \E s \in Shard : Removed(s)
  <1> DEFINE s == (pub.cursor + pub.k) % ShardCount
  <1>1. s \in Shard
    <2>1. pub.cursor + pub.k \in Int
      BY DEF TypeOK, Shard
    <2> QED
      BY <2>1, ShardTyped
  <1>2. queue[s] \in Seq(Datagram)
    BY <1>1 DEF TypeOK
  <1>3. CASE queue[s] = <<>>
    BY <1>3 DEF PubScan
  <1>4. CASE queue[s] # <<>>
    <2>1. /\ delivered' = delivered \cup {Head(queue[s])}
          /\ queue' = [queue EXCEPT ![s] = Tail(@)]
      BY <1>4 DEF PubScan
    <2>2. queue'[s] = Tail(queue[s]) /\ \A x \in Shard : x # s => queue'[x] = queue[x]
      BY <1>1, <2>1 DEF TypeOK
    <2>3. /\ Head(queue[s]) = queue[s][1]
          /\ DOMAIN Tail(queue[s]) = 1 .. Len(queue[s]) - 1
          /\ DOMAIN queue[s] = 1 .. Len(queue[s]) /\ Len(queue[s]) \in Nat \ {0}
          /\ \A i \in 1 .. Len(queue[s]) - 1 : Tail(queue[s])[i] = queue[s][i + 1]
      BY <1>2, <1>4, TailSlots
    <2> HIDE DEF s
    <2>4. Removed(s)
      BY <2>1, <2>2, <2>3 DEF Removed
    <2> QED
      BY <1>1, <2>4
  <1> QED
    BY <1>3, <1>4

\* Only send() changes what is accepted, and only the scan what is delivered.
LEMMA OthersLeaveDatagrams ==
    ASSUME [Next]_vars, ~Start
    PROVE  /\ (\A t \in Producer : ~SendEmplace(t)) => UNCHANGED accepted
           /\ ~PubScan => UNCHANGED delivered
           /\ (\A t \in Producer : ~SendEmplace(t)) /\ ~PubScan => UNCHANGED queue
           /\ \A t \in Producer : SendEmplace(t) =>
                 UNCHANGED <<registration, generation, calls, delivered, pub, owed, running, control>>
           /\ PubScan =>
                 UNCHANGED <<registration, generation, calls, accepted, pc, owed, running, control>>
  BY DEF Next, Stop, StopClearsRunning, StopSetsFlag, StopNotifies, StopJoins, Publish, PubScan,
         PubCheckRunning, ClearReachesMemory, PubDrainEmpty, PubDrainActive, PubRescan,
         LookAtQueues, PubRecheckRunning, PubWait, PubUnchanged, senderVars, ghostVars, vars,
         Send, SendBegin, SendRegister, SendActivate, SendRecheck, SendEmplace, SendDeactivate,
         SignalTest, SignalSet, SignalNotify

\* Every step keeps the numbering: a call is counted before its datagram is queued, and
\* queues it once.
LEMMA NextNumbered ==
    ASSUME TypeOK, Calling, Numbered, [Next]_vars
    PROVE  Numbered'
  <1> DEFINE Before == {"register", "activate", "recheck", "emplace"}
  <1>0. \A d \in accepted : d[1] \in Producer /\ d[2] \in Nat /\ calls[d[1]] \in Nat
    BY DatagramParts DEF TypeOK
  <1>1. CASE UNCHANGED <<accepted, calls, pc>>
    BY <1>1 DEF Numbered
  <1>2. CASE Start
    BY <1>2 DEF Start, Numbered
  <1>3. ASSUME NEW t \in Producer, SendBegin(t)
        PROVE  Numbered'
    <2>1. /\ UNCHANGED accepted
          /\ \A u \in Producer : calls'[u] = IF u = t THEN calls[t] + 1 ELSE calls[u]
      BY <1>3 DEF SendBegin, TypeOK, ghostVars
    <2>2. \A u \in Producer : u # t => pc'[u] = pc[u]
      BY <1>3, GotoMoves DEF SendBegin
    <2> QED
      BY <1>0, <2>1, <2>2 DEF Numbered
  <1>4. ASSUME NEW t \in Producer, SendEmplace(t)
        PROVE  Numbered'
    <2>1. UNCHANGED calls /\ pc'[t] \notin Before
      BY <1>4, EmplaceEffect DEF SendEmplace
    <2>2. \A u \in Producer : u # t => pc'[u] = pc[u]
      BY <1>4, GotoMoves DEF SendEmplace
    <2>3. Current(t)[1] = t /\ Current(t)[2] = calls[t] /\ calls[t] \in Nat
      BY <1>4, CurrentTyped DEF Calling, SendEmplace, TypeOK
    <2>4. accepted' \subseteq accepted \cup {Current(t)}
      BY <1>4 DEF SendEmplace
    <2> QED
      BY <1>0, <2>1, <2>2, <2>3, <2>4 DEF Numbered
  <1>5. ASSUME NEW t \in Producer, Send(t), ~SendBegin(t), ~SendEmplace(t)
        PROVE  Numbered'
    <2>1. UNCHANGED <<accepted, calls>>
      BY <1>5 DEF Send, SendRegister, SendActivate, SendRecheck, SendDeactivate, SignalTest,
                  SignalSet, SignalNotify, ghostVars
    <2>2. \A u \in Producer : u # t => pc'[u] = pc[u]
      BY <1>5, GotoMoves
         DEF Send, SendRegister, SendActivate, SendRecheck, SendDeactivate, SignalTest,
             SignalSet, SignalNotify
    <2>3. pc'[t] \in Before => pc[t] \in Before
      BY <1>5, GotoMoves
         DEF Send, SendRegister, SendActivate, SendRecheck, SendDeactivate, SignalTest,
             SignalSet, SignalNotify
    <2> QED
      BY <1>0, <2>1, <2>2, <2>3 DEF Numbered
  <1>6. CASE Stop \/ Publish \/ UNCHANGED vars
    <2>1. UNCHANGED <<calls, pc>>
      BY <1>6, OthersLeaveSenders
    <2>2. UNCHANGED accepted
      BY <1>6 DEF Stop, StopClearsRunning, StopSetsFlag, StopNotifies, StopJoins, Publish,
                  PubScan, PubCheckRunning, ClearReachesMemory, PubDrainEmpty, PubDrainActive,
                  PubRescan, LookAtQueues, PubRecheckRunning, PubWait, ghostVars, vars
    <2> QED
      BY <1>1, <2>1, <2>2
  <1> QED
    BY <1>2, <1>3, <1>4, <1>5, <1>6 DEF Next

\* Every step keeps account of what was accepted.
LEMMA NextAccounted ==
    ASSUME TypeOK, Accounted, [Next]_vars
    PROVE  Accounted'
  <1>1. CASE Start
    BY <1>1 DEF Start, Accounted
  <1>2. CASE UNCHANGED <<accepted, delivered, queue>>
    BY <1>2 DEF Accounted
  <1>3. ASSUME NEW t \in Producer, SendEmplace(t), ~Start
        PROVE  Accounted'
    <2>1. UNCHANGED delivered
      BY <1>3 DEF SendEmplace
    <2>2. CASE Appended(t)
      <3> DEFINE r == MyShard(t)
                 n == Len(queue[r])
      <3>1. /\ r \in Shard /\ n \in Nat /\ DOMAIN queue[r] = 1 .. n
            /\ accepted' = accepted \cup {Current(t)}
            /\ \A x \in Shard : x # r => queue'[x] = queue[x]
            /\ DOMAIN queue'[r] = 1 .. n + 1
            /\ \A i \in 1 .. n : queue'[r][i] = queue[r][i]
            /\ queue'[r][n + 1] = Current(t)
        BY <2>2 DEF Appended
      <3> HIDE DEF r, n
      <3>2. \A i \in 1 .. n + 1 : i \in 1 .. n \/ i = n + 1
        BY <3>1
      <3>3. \A i \in 1 .. n : i \in 1 .. n + 1
        BY <3>1
      <3>4. n + 1 \in 1 .. n + 1
        BY <3>1
      <3>5. \A s \in Shard : \A i \in DOMAIN queue'[s] : queue'[s][i] \in accepted'
        BY <3>1, <3>2 DEF Accounted
      <3>6. ASSUME NEW d \in accepted'
            PROVE  d \in delivered' \/ \E s \in Shard : \E i \in DOMAIN queue'[s] : d = queue'[s][i]
        <4>1. CASE d = Current(t)
          BY <3>1, <3>4, <4>1
        <4>2. CASE d \in delivered
          BY <2>1, <4>2
        <4>3. ASSUME NEW s \in Shard, NEW i \in DOMAIN queue[s], d = queue[s][i]
              PROVE  \E x \in Shard : \E j \in DOMAIN queue'[x] : d = queue'[x][j]
          <5>1. i \in DOMAIN queue'[s] /\ queue'[s][i] = d
            BY <3>1, <3>3, <4>3
          <5> QED
            BY <5>1
        <4> QED
          BY <3>1, <4>1, <4>2, <4>3 DEF Accounted
      <3> QED
        BY <2>1, <3>1, <3>5, <3>6 DEF Accounted
    <2> QED
      BY <1>2, <1>3, <2>1, <2>2, EmplaceEffect
  <1>4. CASE PubScan /\ ~Start
    <2>1. UNCHANGED accepted
      BY <1>4, OthersLeaveDatagrams
    <2>2. ASSUME NEW r \in Shard, Removed(r)
          PROVE  Accounted'
      <3> DEFINE n == Len(queue[r])
      <3>1. /\ n \in Nat \ {0} /\ DOMAIN queue[r] = 1 .. n
            /\ delivered' = delivered \cup {queue[r][1]}
            /\ \A x \in Shard : x # r => queue'[x] = queue[x]
            /\ DOMAIN queue'[r] = 1 .. n - 1
            /\ \A i \in 1 .. n - 1 : queue'[r][i] = queue[r][i + 1]
        BY <2>2 DEF Removed
      <3> HIDE DEF n
      <3>2. 1 \in 1 .. n /\ \A i \in 1 .. n - 1 : i + 1 \in 1 .. n
        BY <3>1
      <3>3. delivered' \subseteq accepted'
        BY <2>1, <3>1, <3>2 DEF Accounted
      <3>4. \A s \in Shard : \A i \in DOMAIN queue'[s] : queue'[s][i] \in accepted'
        BY <2>1, <3>1, <3>2 DEF Accounted
      <3>5. ASSUME NEW s \in Shard, NEW i \in DOMAIN queue[s]
            PROVE  \/ queue[s][i] \in delivered'
                   \/ \E x \in Shard : \E j \in DOMAIN queue'[x] : queue[s][i] = queue'[x][j]
        <4>1. CASE s # r
          <5>1. i \in DOMAIN queue'[s] /\ queue'[s][i] = queue[s][i]
            BY <3>1, <4>1
          <5> QED
            BY <5>1
        <4>2. CASE s = r /\ i = 1
          BY <3>1, <4>2
        <4>3. CASE s = r /\ i # 1
          <5>1. i - 1 \in 1 .. n - 1 /\ (i - 1) + 1 = i
            BY <3>1, <4>3
          <5>2. i - 1 \in DOMAIN queue'[s] /\ queue'[s][i - 1] = queue[s][i]
            BY <3>1, <4>3, <5>1
          <5> QED
            BY <5>2
        <4> QED
          BY <4>1, <4>2, <4>3
      <3> QED
        BY <2>1, <3>1, <3>3, <3>4, <3>5 DEF Accounted
    <2> QED
      BY <1>2, <1>4, <2>1, <2>2, ScanEffect
  <1> QED
    BY <1>1, <1>2, <1>3, <1>4, OthersLeaveDatagrams

\* The slots of a ring belong to one thread, and all its datagrams are older than the
\* one it is about to queue.
LEMMA OlderThanCurrent ==
    ASSUME PublisherInv, NEW t \in Producer, pc[t] = "emplace"
    PROVE  /\ registration[t] = [generation |-> generation, shard |-> MyShard(t)]
           /\ \A e \in accepted : e[1] = t => e[2] < calls[t]
           /\ \A i \in DOMAIN queue[MyShard(t)] : queue[MyShard(t)][i][2] < calls[t]
  <1>1. registration[t].generation = generation /\ generation > 0
    BY DEF PublisherInv, Calling
  <1>2. registration[t] = [generation |-> generation, shard |-> MyShard(t)]
    BY <1>1 DEF PublisherInv, TypeOK, MyShard
  <1>3. \A e \in accepted : e[1] = t => e[2] < calls[t]
    BY DEF PublisherInv, Numbered
  <1>4. ASSUME NEW i \in DOMAIN queue[MyShard(t)]
        PROVE  queue[MyShard(t)][i][2] < calls[t]
    <2> DEFINE d == queue[MyShard(t)][i]
    <2>1. MyShard(t) \in Shard
      BY DEF PublisherInv, TypeOK, MyShard
    <2>2. d \in accepted /\ d[1] \in Producer
      BY <2>1, DatagramParts DEF PublisherInv, Accounted, TypeOK
    <2>3. registration[d[1]] = [generation |-> generation, shard |-> MyShard(t)]
      BY <2>1 DEF PublisherInv, QueueOrder
    <2>4. d[1] = t
      BY <1>1, <2>2, <2>3 DEF PublisherInv, Registered, PrivateQueues, MyShard
    <2> QED
      BY <1>3, <2>2, <2>4
  <1> QED
    BY <1>2, <1>3, <1>4

\* Every step keeps the order in the rings.
LEMMA NextQueueOrder ==
    ASSUME PublisherInv, [Next]_vars
    PROVE  QueueOrder'
  <1>0. /\ \A s \in Shard : \A i \in DOMAIN queue[s] :
              /\ queue[s][i] \in accepted
              /\ queue[s][i][1] \in Producer /\ queue[s][i][2] \in Nat
        /\ \A e \in delivered : e \in accepted /\ e[1] \in Producer /\ e[2] \in Nat
    BY DatagramParts DEF PublisherInv, Accounted, TypeOK
  <1>1. CASE Start
    BY <1>1 DEF Start, QueueOrder
  <1>2. CASE UNCHANGED <<queue, delivered, registration, generation>>
    BY <1>2 DEF PublisherInv, QueueOrder
  <1>3. ASSUME NEW t \in Producer, SendRegister(t)
        PROVE  QueueOrder'
    <2>1. UNCHANGED <<queue, delivered, generation>>
      BY <1>3 DEF SendRegister, ghostVars
    <2>2. \A u \in Producer : u # t \/ registration[t].generation = generation =>
             registration'[u] = registration[u]
      BY <1>3 DEF SendRegister, PublisherInv, TypeOK
    <2>3. ASSUME NEW s \in Shard, NEW i \in DOMAIN queue[s]
          PROVE  registration'[queue[s][i][1]] = registration[queue[s][i][1]]
      <3>1. registration[queue[s][i][1]].generation = generation
        <4>1. registration[queue[s][i][1]] = [generation |-> generation, shard |-> s]
          BY DEF PublisherInv, QueueOrder
        <4> QED
          BY <4>1
      <3> QED
        BY <1>0, <2>2, <3>1
    <2> QED
      BY <2>1, <2>3 DEF PublisherInv, QueueOrder
  <1>4. ASSUME NEW t \in Producer, SendEmplace(t)
        PROVE  QueueOrder'
    <2>1. UNCHANGED <<delivered, registration, generation>> /\ pc[t] = "emplace"
      BY <1>4 DEF SendEmplace
    <2>2. CASE Appended(t)
      <3> DEFINE r == MyShard(t)
                 n == Len(queue[r])
      <3>1. /\ r \in Shard /\ n \in Nat /\ DOMAIN queue[r] = 1 .. n
            /\ accepted' = accepted \cup {Current(t)}
            /\ \A x \in Shard : x # r => queue'[x] = queue[x]
            /\ DOMAIN queue'[r] = 1 .. n + 1
            /\ \A i \in 1 .. n : queue'[r][i] = queue[r][i]
            /\ queue'[r][n + 1] = Current(t)
        BY <2>2 DEF Appended
      <3>2. /\ registration[t] = [generation |-> generation, shard |-> r]
            /\ \A e \in accepted : e[1] = t => e[2] < calls[t]
            /\ \A i \in DOMAIN queue[r] : queue[r][i][2] < calls[t]
        BY <2>1, OlderThanCurrent
      <3>3. Current(t)[1] = t /\ Current(t)[2] = calls[t]
        BY DEF Current
      <3> HIDE DEF r, n
      <3>4. ASSUME NEW s \in Shard, NEW i \in DOMAIN queue'[s]
            PROVE  /\ registration[queue'[s][i][1]] = [generation |-> generation, shard |-> s]
                   /\ \A j \in DOMAIN queue'[s] : i < j => queue'[s][i][2] < queue'[s][j][2]
                   /\ \A e \in delivered : e[1] = queue'[s][i][1] => e[2] < queue'[s][i][2]
        <4>1. CASE s # r
          BY <3>1, <4>1 DEF PublisherInv, QueueOrder
        <4>2. CASE s = r /\ i = n + 1
          <5>1. \A j \in DOMAIN queue'[s] : ~(i < j)
            BY <3>1, <4>2
          <5>2. queue'[s][i] = Current(t)
            BY <3>1, <4>2
          <5> QED
            BY <1>0, <3>2, <3>3, <4>2, <5>1, <5>2
        <4>3. CASE s = r /\ i \in 1 .. n
          <5>1. queue'[s][i] = queue[s][i] /\ i \in DOMAIN queue[s]
            BY <3>1, <4>3
          <5>2. ASSUME NEW j \in DOMAIN queue'[s], i < j
                PROVE  queue'[s][i][2] < queue'[s][j][2]
            <6>1. CASE j = n + 1
              BY <3>1, <3>2, <3>3, <4>3, <5>1, <6>1
            <6>2. CASE j # n + 1
              <7>1. j \in 1 .. n
                BY <3>1, <4>3, <6>2
              <7> QED
                BY <3>1, <4>3, <5>1, <5>2, <7>1 DEF PublisherInv, QueueOrder
            <6> QED
              BY <6>1, <6>2
          <5> QED
            BY <5>1, <5>2 DEF PublisherInv, QueueOrder
        <4> QED
          BY <3>1, <4>1, <4>2, <4>3
      <3> QED
        BY <2>1, <3>4 DEF QueueOrder
    <2> QED
      BY <1>2, <1>4, <2>1, <2>2, EmplaceEffect DEF PublisherInv
  <1>5. CASE PubScan /\ ~Start
    <2>1. UNCHANGED <<registration, generation>>
      BY <1>5, OthersLeaveDatagrams
    <2>2. ASSUME NEW r \in Shard, Removed(r)
          PROVE  QueueOrder'
      <3> DEFINE n == Len(queue[r])
                 head == queue[r][1]
      <3>1. /\ n \in Nat \ {0} /\ DOMAIN queue[r] = 1 .. n
            /\ delivered' = delivered \cup {head}
            /\ \A x \in Shard : x # r => queue'[x] = queue[x]
            /\ DOMAIN queue'[r] = 1 .. n - 1
            /\ \A i \in 1 .. n - 1 : queue'[r][i] = queue[r][i + 1]
        BY <2>2 DEF Removed
      <3>2. /\ registration[head[1]] = [generation |-> generation, shard |-> r]
            /\ \A j \in DOMAIN queue[r] : 1 < j => head[2] < queue[r][j][2]
        BY <3>1 DEF PublisherInv, QueueOrder
      <3> HIDE DEF n, head
      <3>3. ASSUME NEW s \in Shard, NEW i \in DOMAIN queue'[s]
            PROVE  /\ registration[queue'[s][i][1]] = [generation |-> generation, shard |-> s]
                   /\ \A j \in DOMAIN queue'[s] : i < j => queue'[s][i][2] < queue'[s][j][2]
                   /\ \A e \in delivered' : e[1] = queue'[s][i][1] => e[2] < queue'[s][i][2]
        <4>1. CASE s # r
          <5>1. queue'[s] = queue[s]
            BY <3>1, <4>1
          <5>2. registration[queue[s][i][1]] = [generation |-> generation, shard |-> s]
            BY <5>1 DEF PublisherInv, QueueOrder
          <5>3. head[1] # queue[s][i][1]
            BY <3>2, <4>1, <5>2
          <5> QED
            BY <3>1, <5>1, <5>3 DEF PublisherInv, QueueOrder
        <4>2. CASE s = r
          <5>1. i \in 1 .. n - 1 /\ i + 1 \in DOMAIN queue[s] /\ queue'[s][i] = queue[s][i + 1]
            BY <3>1, <4>2
          <5>2. \A j \in DOMAIN queue'[s] :
                   j + 1 \in DOMAIN queue[s] /\ queue'[s][j] = queue[s][j + 1] /\ j \in Nat
            BY <3>1, <4>2
          <5>3. registration[queue'[s][i][1]] = [generation |-> generation, shard |-> s]
            BY <5>1 DEF PublisherInv, QueueOrder
          <5>4. ASSUME NEW j \in DOMAIN queue'[s], i < j
                PROVE  queue'[s][i][2] < queue'[s][j][2]
            <6>1. i + 1 < j + 1
              BY <5>1, <5>2, <5>4
            <6> QED
              BY <5>1, <5>2, <6>1 DEF PublisherInv, QueueOrder
          <5>5. head[2] < queue'[s][i][2]
            <6>1. 1 < i + 1
              BY <5>1, <3>1
            <6> QED
              BY <3>2, <4>2, <5>1, <6>1
          <5>6. \A e \in delivered : e[1] = queue'[s][i][1] => e[2] < queue'[s][i][2]
            <6>1. \A e \in delivered : e[1] = queue[s][i + 1][1] => e[2] < queue[s][i + 1][2]
              BY <5>1 DEF PublisherInv, QueueOrder
            <6> QED
              BY <5>1, <6>1
          <5> QED
            BY <3>1, <5>3, <5>4, <5>5, <5>6
        <4> QED
          BY <4>1, <4>2
      <3> QED
        BY <2>1, <3>3 DEF QueueOrder
    <2> QED
      BY <1>2, <1>5, <2>1, <2>2, ScanEffect DEF PublisherInv
  <1>6. ASSUME NEW t \in Producer, Send(t), ~SendRegister(t), ~SendEmplace(t)
        PROVE  UNCHANGED <<queue, delivered, registration, generation>>
    BY <1>6 DEF Send, SendBegin, SendActivate, SendRecheck, SendDeactivate, SignalTest,
                SignalSet, SignalNotify, ghostVars
  <1>7. CASE (Stop \/ Publish \/ UNCHANGED vars) /\ ~PubScan
    <2>1. UNCHANGED <<registration, generation>>
      BY <1>7, OthersLeaveSenders
    <2>2. UNCHANGED <<queue, delivered>>
      BY <1>7 DEF Stop, StopClearsRunning, StopSetsFlag, StopNotifies, StopJoins, Publish,
                  PubCheckRunning, ClearReachesMemory, PubDrainEmpty, PubDrainActive, PubRescan,
                  LookAtQueues, PubRecheckRunning, PubWait, ghostVars, vars
    <2> QED
      BY <1>2, <2>1, <2>2
  <1> QED
    BY <1>1, <1>2, <1>3, <1>4, <1>5, <1>6, <1>7 DEF Next, Publish

-----------------------------------------------------------------------------
(* Stopping *)

\* A notification moves a sleeping publisher, and no other.
LEMMA NotifiedMoves ==
    ASSUME TypeOK
    PROVE  IF pub.pc = "asleep" THEN Notified.pc = "wait" ELSE Notified = pub
  BY DEF Notified, TypeOK

\* A shard that was just seen empty joins those before it.
LEMMA OneMoreShard ==
    ASSUME TypeOK, queue[pub.k] = <<>>
    PROVE  /\ NotOwed(pub.k) => NotOwed(pub.k + 1)
           /\ EmptyTo(pub.k) => EmptyTo(pub.k + 1)
           /\ pub.k \in Nat
           /\ \A n \in Nat : ~(n < ShardCount) => (NotOwed(n) => NotOwed(ShardCount))
                                                   /\ (EmptyTo(n) => EmptyTo(ShardCount))
  <1>1. pub.k \in Nat /\ ShardCount \in Nat
    BY ShardAssumption DEF TypeOK
  <1>2. \A s \in Shard : s \in Nat /\ (s < pub.k + 1 => s < pub.k \/ s = pub.k)
    BY <1>1 DEF Shard
  <1>3. \A n \in Nat : ~(n < ShardCount) => \A s \in Shard : s < n
    BY <1>1 DEF Shard
  <1> QED
    BY <1>1, <1>2, <1>3 DEF NotOwed, EmptyTo

\* Every step keeps what the draining publisher has seen.
LEMMA NextDrained ==
    ASSUME PublisherInv, [Next]_vars
    PROVE  Drained'
  <1> USE DEF PublisherInv
  <1>1. CASE Start
    BY <1>1 DEF Start, Drained
  <1>2. CASE StopClearsRunning
    BY <1>2 DEF StopClearsRunning, Drained
  <1>3. ASSUME UNCHANGED <<owed, running, queue, accepted>>, control' = "started" <=> control = "started",
               \/ pub'.pc \notin {"drain_empty", "drain_active", "exited"}
               \/ pub' = pub
        PROVE  Drained'
    BY <1>3 DEF Drained, NotOwed
  <1>4. CASE StopSetsFlag
    BY <1>3, <1>4 DEF StopSetsFlag, ghostVars
  <1>5. CASE StopNotifies
    <2>1. pub'.pc \notin {"drain_empty", "drain_active", "exited"} \/ pub' = pub
      BY <1>5, NotifiedMoves DEF StopNotifies
    <2> QED
      BY <1>3, <1>5, <2>1 DEF StopNotifies, ghostVars
  <1>6. CASE StopJoins
    BY <1>3, <1>6 DEF StopJoins, ghostVars, TypeOK
  <1>7. ASSUME NEW t \in Producer, Send(t), ~SendEmplace(t), ~SignalNotify(t)
        PROVE  Drained'
    BY <1>3, <1>7 DEF Send, SendBegin, SendRegister, SendActivate, SendRecheck, SendDeactivate,
                      SignalTest, SignalSet, ghostVars
  <1>8. ASSUME NEW t \in Producer, SignalNotify(t)
        PROVE  Drained'
    <2>1. pub'.pc \notin {"drain_empty", "drain_active", "exited"} \/ pub' = pub
      BY <1>8, NotifiedMoves DEF SignalNotify
    <2> QED
      BY <1>3, <1>8, <2>1 DEF SignalNotify, ghostVars
  <1>9. ASSUME NEW t \in Producer, SendEmplace(t)
        PROVE  Drained'
    <2>1. UNCHANGED <<owed, running, pub, control>> /\ pc[t] = "emplace"
      BY <1>9 DEF SendEmplace
    <2>2. CASE Appended(t)
      <3>1. Current(t) \notin owed
        <4>1. \A e \in accepted : e[1] = t => e[2] < calls[t]
          BY <2>1, OlderThanCurrent
        <4>2. calls[t] \in Nat /\ Current(t)[1] = t /\ Current(t)[2] = calls[t]
          BY DEF TypeOK, Current
        <4> QED
          BY <4>1, <4>2 DEF Drained
      <3>2. ASSUME NEW s \in Shard, NEW i \in DOMAIN queue'[s]
            PROVE  queue'[s][i] = Current(t) \/ \E j \in DOMAIN queue[s] : queue'[s][i] = queue[s][j]
        <4>1. CASE s # MyShard(t)
          BY <2>2, <4>1 DEF Appended
        <4>2. CASE s = MyShard(t)
          <5>1. i \in 1 .. Len(queue[s]) + 1 /\ Len(queue[s]) \in Nat
            BY <2>2, <4>2 DEF Appended
          <5>2. CASE i = Len(queue[s]) + 1
            BY <2>2, <4>2, <5>2 DEF Appended
          <5>3. CASE i \in 1 .. Len(queue[s])
            BY <2>2, <4>2, <5>3 DEF Appended
          <5> QED
            BY <5>1, <5>2, <5>3
        <4> QED
          BY <4>1, <4>2
      <3>3. ASSUME NEW n, NotOwed(n)
            PROVE  \A s \in Shard : s < n => \A i \in DOMAIN queue'[s] : queue'[s][i] \notin owed'
        BY <2>1, <3>1, <3>2, <3>3 DEF NotOwed
      <3>4. accepted \subseteq accepted'
        BY <2>2 DEF Appended
      <3> QED
        BY <2>1, <3>3, <3>4 DEF Drained, NotOwed
    <2>3. CASE UNCHANGED <<queue, accepted>>
      BY <1>3, <2>1, <2>3
    <2> QED
      BY <1>9, <2>2, <2>3, EmplaceEffect
  <1>10. CASE PubScan
    <2>1. UNCHANGED <<owed, running, control, accepted>>
      BY <1>10 DEF PubScan, PubUnchanged
    <2>2. pub'.pc \in {"scan", "check_running"}
      BY <1>10 DEF PubScan, At, TypeOK
    <2> QED
      BY <2>1, <2>2 DEF Drained
  <1>11. CASE PubCheckRunning
    <2>1. UNCHANGED <<owed, running, control, accepted, queue>>
      BY <1>11 DEF PubCheckRunning, PubUnchanged, ghostVars
    <2>2. CASE running
      BY <1>11, <2>1, <2>2 DEF PubCheckRunning, At, Drained
    <2>3. CASE ~running
      <3>1. pub'.pc = "drain_empty" /\ pub'.k = 0
        BY <1>11, <2>3 DEF PubCheckRunning, At
      <3>2. \A s \in Shard : ~(s < 0)
        BY DEF Shard
      <3> QED
        BY <2>1, <2>3, <3>1, <3>2 DEF Drained, NotOwed
    <2> QED
      BY <2>2, <2>3
  <1>12. CASE ClearReachesMemory
    BY <1>3, <1>12 DEF ClearReachesMemory, PubUnchanged, ghostVars
  <1>13. CASE PubDrainEmpty
    <2>1. UNCHANGED <<owed, running, control, accepted, queue>> /\ pub.pc = "drain_empty"
      BY <1>13 DEF PubDrainEmpty, LookAtQueues, PubUnchanged, ghostVars
    <2>2. CASE queue[pub.k] # <<>>
      BY <1>13, <2>1, <2>2 DEF PubDrainEmpty, LookAtQueues, At, Drained
    <2>3. CASE queue[pub.k] = <<>> /\ pub.k + 1 < ShardCount
      <3>1. pub'.pc = "drain_empty" /\ pub'.k = pub.k + 1
        BY <1>13, <2>1, <2>3 DEF PubDrainEmpty, LookAtQueues, TypeOK
      <3>2. NotOwed(pub.k + 1)
        BY <2>1, <2>3, OneMoreShard DEF Drained
      <3> QED
        BY <2>1, <3>1, <3>2 DEF Drained, NotOwed
    <2>4. CASE queue[pub.k] = <<>> /\ ~(pub.k + 1 < ShardCount)
      <3>1. pub'.pc = "drain_active"
        BY <1>13, <2>4 DEF PubDrainEmpty, LookAtQueues, At
      <3>2. pub.k + 1 \in Nat
        BY <2>4, OneMoreShard
      <3>3. NotOwed(ShardCount)
        BY <2>1, <2>4, <3>2, OneMoreShard DEF Drained
      <3> QED
        BY <2>1, <3>1, <3>3 DEF Drained, NotOwed
    <2> QED
      BY <2>2, <2>3, <2>4
  <1>14. CASE PubDrainActive
    <2>1. UNCHANGED <<owed, running, control, accepted, queue>> /\ pub.pc = "drain_active"
      BY <1>14 DEF PubDrainActive, PubUnchanged, ghostVars
    <2>2. pub'.pc \in {"scan", "drain_active", "exited"}
      BY <1>14 DEF PubDrainActive, At, TypeOK
    <2> QED
      BY <2>1, <2>2 DEF Drained, NotOwed
  <1>15. CASE PubRescan \/ PubRecheckRunning \/ PubWait
    <2>1. UNCHANGED <<owed, running, control, accepted, queue>>
      BY <1>15 DEF PubRescan, LookAtQueues, PubRecheckRunning, PubWait, PubUnchanged, ghostVars
    <2>2. pub'.pc \notin {"drain_empty", "drain_active", "exited"}
      <3>1. CASE PubRescan
        BY <3>1 DEF PubRescan, LookAtQueues, At, TypeOK
      <3>2. CASE PubRecheckRunning
        BY <3>2 DEF PubRecheckRunning, At
      <3>3. CASE PubWait
        BY <3>3 DEF PubWait, At
      <3> QED
        BY <1>15, <3>1, <3>2, <3>3
    <2> QED
      BY <1>3, <2>1, <2>2
  <1>16. CASE UNCHANGED vars
    BY <1>3, <1>16 DEF vars
  <1> QED
    BY <1>1, <1>2, <1>4, <1>5, <1>6, <1>7, <1>8, <1>9, <1>10, <1>11, <1>12, <1>13, <1>14, <1>15,
       <1>16 DEF Next, Stop, Publish

-----------------------------------------------------------------------------
(* Waking *)

\* Every step keeps the publisher awake, or somebody on the way to wake it, provided
\* that the clear of the flag is seen before the queues are looked at again.
LEMMA NextAwake ==
    ASSUME ~StoreBuffering, PublisherInv, Awake, [Next]_vars
    PROVE  Awake'
  <1> DEFINE Notifier == \E t \in Producer : pc[t] = "notify"
  <1> USE DEF PublisherInv
  <1>1. CASE Start
    BY <1>1 DEF Start, Awake
  <1>2. CASE StopClearsRunning
    BY <1>2 DEF StopClearsRunning, Awake, Waker, EmptyTo, senderVars
  <1>3. CASE StopSetsFlag
    BY <1>3 DEF StopSetsFlag, Awake
  <1>4. ASSUME pub' = Notified, control' = control \/ (control = "notify_all" /\ control' = "join"),
               UNCHANGED <<clear_buffered, wake_requested, queue, running>>,
               Waker => Waker'
        PROVE  Awake'
    <2>1. CASE pub.pc = "asleep"
      <3>1. pub'.pc = "wait"
        BY <1>4, <2>1, NotifiedMoves
      <3> QED
        BY <1>4, <2>1, <3>1 DEF Awake, EmptyTo
    <2>2. CASE pub.pc # "asleep"
      <3>1. pub' = pub
        BY <1>4, <2>2, NotifiedMoves
      <3> QED
        BY <1>4, <2>2, <3>1 DEF Awake, EmptyTo
    <2> QED
      BY <2>1, <2>2
  <1>5. CASE StopNotifies
    BY <1>4, <1>5 DEF StopNotifies, Waker, senderVars
  <1>6. CASE StopJoins
    BY <1>6 DEF StopJoins, Awake, TypeOK
  <1>7. ASSUME UNCHANGED <<clear_buffered, wake_requested, queue, running, pub, control>>,
               Waker => Waker' \/ wake_requested, Notifier => Notifier'
        PROVE  Awake'
    BY <1>7 DEF Awake, EmptyTo
  <1>8. ASSUME NEW t \in Producer,
               SendBegin(t) \/ SendRegister(t) \/ SendActivate(t) \/ SendRecheck(t)
                  \/ SendDeactivate(t) \/ SignalTest(t)
        PROVE  Awake'
    <2>1. UNCHANGED <<clear_buffered, wake_requested, queue, running, pub, control>>
      BY <1>8 DEF SendBegin, SendRegister, SendActivate, SendRecheck, SendDeactivate, SignalTest
    <2>2. \A u \in Producer : u # t => pc'[u] = pc[u]
      BY <1>8, GotoMoves
         DEF SendBegin, SendRegister, SendActivate, SendRecheck, SendDeactivate, SignalTest
    <2>3. pc[t] # "notify" /\ (pc[t] \in {"queued", "signal", "set"} =>
                                  pc'[t] \in {"queued", "signal", "set"} \/ wake_requested)
      BY <1>8, GotoMoves
         DEF SendBegin, SendRegister, SendActivate, SendRecheck, SendDeactivate, SignalTest
    <2>4. Waker => Waker' \/ wake_requested
      BY <2>2, <2>3 DEF Waker
    <2>5. Notifier => Notifier'
      BY <2>2, <2>3
    <2> QED
      BY <1>7, <2>1, <2>4, <2>5
  <1>9. ASSUME NEW t \in Producer, SendEmplace(t)
        PROVE  Awake'
    <2>1. UNCHANGED <<clear_buffered, wake_requested, running, pub, control>> /\ pc[t] = "emplace"
      BY <1>9 DEF SendEmplace
    <2>2. \A u \in Producer : u # t => pc'[u] = pc[u]
      BY <1>9, GotoMoves DEF SendEmplace
    <2>3. Notifier => Notifier'
      BY <2>1, <2>2
    <2>4. Waker => Waker'
      BY <2>1, <2>2 DEF Waker
    <2>5. CASE pc'[t] = "queued"
      <3>1. Waker'
        BY <2>5 DEF Waker
      <3> QED
        BY <2>1, <2>3, <3>1 DEF Awake
    <2>6. CASE UNCHANGED queue
      BY <1>7, <2>1, <2>3, <2>4, <2>6
    <2> QED
      BY <1>9, <2>5, <2>6, EmplaceEffect
  <1>10. ASSUME NEW t \in Producer, SignalSet(t)
         PROVE  Awake'
    <2>1. /\ UNCHANGED <<clear_buffered, queue, running, pub, control>>
          /\ pc[t] = "set" /\ wake_requested'
      BY <1>10 DEF SignalSet
    <2>2. \A u \in Producer : u # t => pc'[u] = pc[u]
      BY <1>10, GotoMoves DEF SignalSet
    <2>3. wake_requested \/ pc'[t] = "notify"
      BY <1>10, GotoMoves DEF SignalSet
    <2>4. Notifier => Notifier'
      BY <2>1, <2>2
    <2> QED
      BY <2>1, <2>3, <2>4 DEF Awake
  <1>11. ASSUME NEW t \in Producer, SignalNotify(t)
         PROVE  Awake'
    <2>1. /\ UNCHANGED <<clear_buffered, wake_requested, queue, running, control>>
          /\ pc[t] = "notify" /\ pub' = Notified
      BY <1>11 DEF SignalNotify
    <2>2. \A u \in Producer : u # t => pc'[u] = pc[u]
      BY <1>11, GotoMoves DEF SignalNotify
    <2>3. Waker => Waker'
      BY <2>1, <2>2 DEF Waker
    <2> QED
      BY <1>4, <2>1, <2>3
  <1>12. CASE PubScan
    <2>1. pub'.pc \in {"scan", "check_running"} /\ UNCHANGED clear_buffered
      BY <1>12 DEF PubScan, At, TypeOK
    <2> QED
      BY <2>1 DEF Awake
  <1>13. CASE PubCheckRunning
    <2>1. UNCHANGED clear_buffered
      BY <1>13 DEF PubCheckRunning
    <2>2. pub'.pc = "drain_empty" \/ (pub'.pc = "rescan" /\ pub'.k = 0)
      BY <1>13 DEF PubCheckRunning, At
    <2>3. \A s \in Shard : ~(s < 0)
      BY DEF Shard
    <2> QED
      BY <2>1, <2>2, <2>3 DEF Awake, EmptyTo
  <1>14. CASE ClearReachesMemory
    BY <1>14 DEF ClearReachesMemory, Awake
  <1>15. CASE PubDrainEmpty
    <2>1. pub'.pc \in {"scan", "drain_empty", "drain_active"} /\ UNCHANGED clear_buffered
      BY <1>15 DEF PubDrainEmpty, LookAtQueues, At, TypeOK
    <2> QED
      BY <2>1 DEF Awake
  <1>16. CASE PubDrainActive
    <2>1. pub'.pc \in {"scan", "drain_active", "exited"} /\ UNCHANGED clear_buffered
      BY <1>16 DEF PubDrainActive, At, TypeOK
    <2> QED
      BY <2>1 DEF Awake
  <1>17. CASE PubRescan
    <2>1. /\ UNCHANGED <<clear_buffered, wake_requested, queue, running, control, pc>>
          /\ pub.pc = "rescan"
      BY <1>17 DEF PubRescan, LookAtQueues, PubUnchanged, senderVars
    <2>2. CASE queue[pub.k] # <<>>
      BY <1>17, <2>1, <2>2 DEF PubRescan, LookAtQueues, At, Awake
    <2>3. CASE queue[pub.k] = <<>> /\ pub.k + 1 < ShardCount
      <3>1. pub'.pc = "rescan" /\ pub'.k = pub.k + 1
        BY <1>17, <2>1, <2>3 DEF PubRescan, LookAtQueues, TypeOK
      <3>2. wake_requested \/ Waker \/ EmptyTo(pub.k + 1)
        BY <2>1, <2>3, OneMoreShard DEF Awake
      <3> QED
        BY <2>1, <3>1, <3>2 DEF Awake, EmptyTo, Waker
    <2>4. CASE queue[pub.k] = <<>> /\ ~(pub.k + 1 < ShardCount)
      <3>1. pub'.pc = "recheck_running"
        BY <1>17, <2>4 DEF PubRescan, LookAtQueues, At
      <3>2. pub.k + 1 \in Nat
        BY <2>4, OneMoreShard
      <3>3. wake_requested \/ Waker \/ EmptyTo(ShardCount)
        BY <2>1, <2>4, <3>2, OneMoreShard DEF Awake
      <3> QED
        BY <2>1, <3>1, <3>3 DEF Awake, EmptyTo, Waker
    <2> QED
      BY <2>2, <2>3, <2>4
  <1>18. CASE PubRecheckRunning
    <2>1. /\ UNCHANGED <<clear_buffered, wake_requested, queue, running, control, pc>>
          /\ pub.pc = "recheck_running"
      BY <1>18 DEF PubRecheckRunning, PubUnchanged, senderVars
    <2>2. pub'.pc = "scan" \/ (pub'.pc = "wait" /\ running)
      BY <1>18 DEF PubRecheckRunning, At
    <2> QED
      BY <2>1, <2>2 DEF Awake, EmptyTo, Waker
  <1>19. CASE PubWait
    <2>1. /\ UNCHANGED <<clear_buffered, wake_requested, queue, running, control, pc>>
          /\ pub.pc = "wait"
      BY <1>19 DEF PubWait, PubUnchanged, senderVars
    <2>2. pub'.pc = "scan" \/ (pub'.pc = "asleep" /\ ~wake_requested)
      BY <1>19 DEF PubWait, At
    <2> QED
      BY <2>1, <2>2 DEF Awake, EmptyTo, Waker
  <1>20. CASE UNCHANGED vars
    BY <1>20 DEF vars, Awake, EmptyTo, Waker
  <1> QED
    BY <1>1, <1>2, <1>3, <1>5, <1>6, <1>8, <1>9, <1>10, <1>11, <1>12, <1>13, <1>14, <1>15, <1>16,
       <1>17, <1>18, <1>19, <1>20 DEF Next, Stop, Send, Publish

-----------------------------------------------------------------------------
(* The theorems about the publisher *)

\* The invariant holds in every state.
LEMMA SpecPublisherInv == Spec => []PublisherInv
  <1>1. Init => PublisherInv
    BY InitPublisherInv
  <1>2. PublisherInv /\ [Next]_vars => PublisherInv'
    BY NextTypeOK, NextCalling, NextRegistered, NextNumbered, NextQueueOrder, NextAccounted,
       NextDrained DEF PublisherInv
  <1> QED
    BY <1>1, <1>2, PTL DEF Spec

\* start(), stop(), send() and publisher_loop() keep every field in its type; no ring
\* holds more than its capacity.
THEOREM PublisherTypeCorrect == Spec => []TypeOK
  <1>1. PublisherInv => TypeOK
    BY DEF PublisherInv
  <1> QED
    BY SpecPublisherInv, <1>1, PTL

\* No two threads share a ring in one generation, however many threads, shards and
\* restarts there are.
THEOREM PublisherPrivateQueues == Spec => []PrivateQueues
  <1>1. PublisherInv => PrivateQueues
    BY DEF PublisherInv, Registered
  <1> QED
    BY SpecPublisherInv, <1>1, PTL

\* A datagram that send() took is in exactly one ring, in one slot, or on the wire.
THEOREM PublisherTakenOnce == Spec => []TakenOnce
  <1>1. PublisherInv => TakenOnce
    <2> SUFFICES ASSUME PublisherInv
                 PROVE  TakenOnce
      OBVIOUS
    <2>1. \A d : d \in InQueues <=> \E s \in Shard : \E i \in DOMAIN queue[s] : d = queue[s][i]
      BY DEF InQueues
    <2>2. accepted = InQueues \cup delivered
      BY <2>1 DEF PublisherInv, Accounted
    <2>3. \A s \in Shard : \A i \in DOMAIN queue[s] :
             i \in Nat /\ queue[s][i][1] \in Producer /\ queue[s][i][2] \in Nat
      <3> SUFFICES ASSUME NEW s \in Shard, NEW i \in DOMAIN queue[s]
                   PROVE  i \in Nat /\ queue[s][i][1] \in Producer /\ queue[s][i][2] \in Nat
        OBVIOUS
      <3>1. queue[s] \in Seq(Datagram)
        BY DEF PublisherInv, TypeOK
      <3>2. i \in Nat /\ queue[s][i] \in Datagram
        BY <3>1
      <3> QED
        BY <3>2, DatagramParts
    <2>4. InQueues \cap delivered = {}
      <3> SUFFICES ASSUME NEW s \in Shard, NEW i \in DOMAIN queue[s], queue[s][i] \in delivered
                   PROVE  FALSE
        BY <2>1
      <3>1. queue[s][i][2] < queue[s][i][2]
        BY DEF PublisherInv, QueueOrder
      <3> QED
        BY <2>3, <3>1
    <2>5. ASSUME NEW s1 \in Shard, NEW s2 \in Shard, NEW i \in DOMAIN queue[s1],
                 NEW j \in DOMAIN queue[s2], queue[s1][i] = queue[s2][j]
          PROVE  s1 = s2 /\ i = j
      <3>1. /\ registration[queue[s1][i][1]] = [generation |-> generation, shard |-> s1]
            /\ registration[queue[s2][j][1]] = [generation |-> generation, shard |-> s2]
        BY DEF PublisherInv, QueueOrder
      <3>2. s1 = s2
        BY <2>5, <3>1
      <3>3. ~(i < j) /\ ~(j < i)
        <4>1. /\ i < j => queue[s1][i][2] < queue[s1][j][2]
              /\ j < i => queue[s1][j][2] < queue[s1][i][2]
          BY <3>2 DEF PublisherInv, QueueOrder
        <4> QED
          BY <2>3, <2>5, <3>2, <4>1
      <3> QED
        BY <2>3, <3>2, <3>3
    <2> QED
      BY <2>2, <2>4, <2>5 DEF TakenOnce
  <1> QED
    BY SpecPublisherInv, <1>1, PTL

\* Within a generation the datagrams of a thread reach the wire in the order in which it
\* sent them.
THEOREM PublisherInOrder == Spec => InOrder
  <1>1. PublisherInv /\ [Next]_vars =>
           [\A d \in delivered' \ delivered : \A e \in delivered : e[1] = d[1] => e[2] < d[2]]_vars
    <2> SUFFICES ASSUME PublisherInv, [Next]_vars, NEW d \in delivered' \ delivered,
                        NEW e \in delivered, e[1] = d[1]
                 PROVE  e[2] < d[2]
      OBVIOUS
    <2>1. ~Start
      BY DEF Start
    <2>2. PubScan
      BY <2>1, OthersLeaveDatagrams
    <2>3. PICK s \in Shard : Removed(s)
      BY <2>2, ScanEffect DEF PublisherInv
    <2>4. d = queue[s][1] /\ 1 \in DOMAIN queue[s]
      BY <2>3 DEF Removed
    <2> QED
      BY <2>4 DEF PublisherInv, QueueOrder
  <1> QED
    BY SpecPublisherInv, <1>1, PTL DEF Spec, InOrder

\* When the publisher thread has ended, every datagram that was queued before stop()
\* cleared the flag has been handed to sendto().
THEOREM PublisherStopDrains == Spec => []StopDrainsEarlierSends
  <1>1. PublisherInv => StopDrainsEarlierSends
    <2> SUFFICES ASSUME PublisherInv, pub.pc = "exited", NEW d \in owed
                 PROVE  d \in delivered
      BY DEF StopDrainsEarlierSends
    <2>1. \A s \in Shard : s < ShardCount
      BY ShardAssumption DEF Shard
    <2>2. \A s \in Shard : \A i \in DOMAIN queue[s] : queue[s][i] # d
      BY <2>1 DEF PublisherInv, Drained, NotOwed
    <2> QED
      BY <2>2 DEF PublisherInv, Drained, Accounted
  <1> QED
    BY SpecPublisherInv, <1>1, PTL

\* Where the clear of wake_requested_ is not delayed past the loads that follow it, the
\* publisher never sleeps with something to do and nobody on the way to wake it.
THEOREM PublisherNoMissedWakeup ==
    ASSUME ~StoreBuffering
    PROVE  Spec => []NoMissedWakeup
  <1>1. Init => Awake
    BY InitPublisherInv
  <1>2. PublisherInv /\ Awake /\ [Next]_vars => Awake'
    BY NextAwake
  <1>3. Awake => NoMissedWakeup
    <2> SUFFICES ASSUME Awake, pub.pc = "asleep"
                 PROVE  \/ InQueues = {} /\ running
                        \/ control \in {"set_flag", "notify_all"}
                        \/ \E t \in Producer : pc[t] \in {"queued", "signal", "set", "notify"}
      BY DEF NoMissedWakeup
    <2>1. \A s \in Shard : s < ShardCount
      BY ShardAssumption DEF Shard
    <2>2. EmptyTo(ShardCount) => InQueues = {}
      BY <2>1 DEF EmptyTo, InQueues
    <2> QED
      BY <2>2 DEF Awake, Waker
  <1> QED
    BY SpecPublisherInv, <1>1, <1>2, <1>3, PTL DEF Spec
=============================================================================
