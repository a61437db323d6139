# ExchangeLab: TLA+ models, checks and proofs

ExchangeLab is a small electronic exchange in C++: clients send orders over TCP,
one price-time-priority matching engine per instrument matches them, a risk
engine decides what a client may send, a journal makes the book survive a
restart, and market data leaves as UDP datagrams through a queue of lock-free
rings. This directory models the parts that carry state, checks them with TLC on
small instances, and proves with TLAPS, for every instance, the invariants of the
book, the matching engine, the ring, the publisher, the risk engine, a FIX session (the names
of its orders and what it reports of them) and the server (order owners, risk accounts,
market data and recovery), and that engine and ring implement the abstract market and the
abstract queue. `PROJECT.json` lists components,
runs, findings, hazards and theorems, and maps every definition to the lines it models.
Paths below are relative to the repository (`src/`).

## 1. Inventory

| Component | State | Operations | Modelled in |
|---|---|---|---|
| Order book and price levels (`include/exchange/order_book.hpp`, `price_level.hpp`, `order.hpp`) | two maps price -> level, a level's FIFO list and 32-bit running total, an index id -> (side, price, list position) | add, extract, reduce the front order, best level, liquidity for fill-or-kill | `OrderBook` |
| Matching engine (`matching_engine.hpp`) | the book, the incoming order, the trades of the call | `process_order_into`, `cancel_order`, `replace_order_into` | `MatchingEngine`, abstractly `PriceTimeBook` |
| Risk engine (`risk_engine.hpp/.cpp`) | per client: working orders, open orders, open quantity, positions, kill switch; a global kill switch | checks of new orders and replaces, resting, cancelled, trade, kill switches | `RiskEngine` |
| Exchange server (`exchange_server.hpp/.cpp`) | sessions by socket, owner of each order, mutexes, engine, risk, journal | connect, disconnect, three request handlers, answers, executions, book updates and level-3 events, kill switch, start-up recovery | `ExchangeServer` |
| Journal and replay (`journal.*`, `replay.*`) | an append-only file of framed records | append, replay | `ExchangeServer` |
| Market-data ring (`lock_free_ring.hpp`) | slots, two positions, a cached copy of the other side's position on each side | `try_emplace`, `try_consume`, `size_approx`, `reset` | `SpscRing`, abstractly `BoundedFifo` |
| Multicast publisher (`multicast_publisher.*`) | 256 shards (ring, active flag, high-water mark), `running_`, `generation_`, `wake_requested_`, thread-local registration | `start`, `stop`, `send`, consumer thread | `MulticastPublisher`, depth measurement in `SpscRing` |
| FIX gateway (`fix_gateway.*`) | per session: orders by number, names (ClOrdID) of orders, requests under way, orders that do not rest and are not over, the last self trade | logon, new order, cancel, replace; responses, executions and book updates of the exchange; hang-up and timeout | `FixGateway` |
| FIX codec, binary codec (`fix.*`, `protocol.hpp`) | none beyond a parse buffer | encode, decode | which requests the binary decoder lets through: `ExchangeServer`; otherwise not modelled |
| TCP server, WebSocket gateway, performance metrics, memory pool, trade buffer, dashboard, tools, benchmarks | sockets, counters, storage | I/O, measurement, display | not modelled |

How the parts interact:

* One thread per TCP client reads requests. With a journal (the mode `main.cpp`
  starts) a handler holds `journal_processing_mutex_` from before it looks at the
  order owners until its last message is sent, so handlers are serialised
  against each other but not against connects, disconnects, the kill switch and
  the publisher thread.
* A handler asks the risk engine, appends the record, calls the matching engine,
  tells the risk engine of every trade and of what rests, updates the owners and
  then sends: the answer, an execution to each side's socket, a book update, and
  level-3 events.
* Every market-data message goes through `MulticastPublisher::send`: the calling
  thread owns one ring, and one consumer thread empties all rings.
* The FIX gateway is a client of the server: each FIX session has a TCP connection of
  its own to it, on which requests go one way and responses, executions and book
  updates come back, so that the two directions cross.
* At start-up the journal is replayed through the same engine. Recovered orders
  have no owner and the risk engine does not know them.

What is hard here, and what correctness means:

* *Book.* An index, two trees of lists and running totals describe one set of
  orders, and a replace is an extract and a new match in one call. Index and lists
  must agree at every step, the book must never be crossed, a call's trades must
  account exactly for its order, and priority must be price, then time.
* *Numbers.* Totals and ring positions wrap; risk counters saturate at zero and at
  their maxima, and the projected position mixes signed and unsigned quantities.
* *Threads.* Ring and publisher work with stale copies, an active flag per
  sender, and a wake-up flag. No slot may be written while it is read, nothing may
  be lost or reordered, no wake-up missed, and `stop()` must return and drain.
* *Identity.* Sockets are reused, orders outlive their session. Nobody but the
  session that entered an order may cancel or replace it.
* *Crossing messages.* The gateway computes with fills it has seen, while the exchange
  acts on fills it has made. What it tells the client in the end must be what the
  exchange did, and each request must get its answer.
* *Crashes.* The record is written before the book changes and the answer is sent
  afterwards; a crash may leave part of a record at the end of the file.

The hazards, each at its line and with the properties that would catch it, are in
`PROJECT.json`.

## 2. Modules

`Maps` has the partial functions the others share (put, erase, restrict), `Sums` the sum of
naturals over a finite set. A module `XProofs` holds the proofs about `X`.

### OrderBook, MatchingEngine, PriceTimeBook, MatchingRefinement

`OrderBook` is a module of constants and operators over one record: `levels`
(side -> price -> list and total) and `order_locations`, the index. Totals are
computed modulo `QuantityModulus` (2^32 in the code); the operations keep the
code's names and order, including the checks that throw. A list iterator is
represented by the position at which the order is found.

`MatchingEngine` has the state `book`, `incoming`, `trades`, `status`. A call
starts with `ProcessOrder`, `CancelOrder` or `ReplaceOrder`; `MatchStep` is one
iteration of the matching loop, `Rest` and `Complete` end it, `Return` gives the
result (or an exception, as a status) to the caller. So invariants are checked in
the middle of calls, not only between them. `ProcessZeroQuantity` is a call that is
refused before it clears the caller's trades.

`PriceTimeBook` is what a participant is promised: a set of waiting orders, each
with the set of orders ahead of it at its price, and a taker that trades with the
first in line at the best price. It has no levels, lists, index or totals.
`MatchingRefinement` gives the refinement mapping: who waits is read off the index, who is
ahead of whom off the positions in the lists.

### SpscRing, BoundedFifo

One action per load or store of `try_emplace`, `try_consume` and `size_approx`.
An acquire load of the other side's position may return any value between the
last one seen and the present one (`Loadable`). Positions are modulo
`PositionModulus`, which has to be a multiple of the capacity and larger than it.
`UpdateMaxDepth` is the publisher's measurement after a successful emplace, and a
third thread observes sizes. `BoundedFifo` is a sequence with a bound; the ring
implements it with publication of the write position as the moment of entry and
advance of the read position as the moment of leaving.

### MulticastPublisher

Producers take the steps of `send()` one shared access at a time; the publisher
thread scans shards, checks `running_`, clears the wake-up flag, rescans and
waits; a controlling thread calls `start()` and `stop()`. That no thread is inside `send()` when
`start()` is called is an assumption on the caller: `start()` does not look, and the server
keeps to it by making a new publisher for each of its starts. The ring is a bounded
sequence here, justified by `ImplementsFifo` of `SpscRing`. `StoreBuffering`
chooses the memory model of the one store the protocol turns on: with TRUE the
release store that clears `wake_requested_` may become visible to others only
after the loads that follow it in the program, which release/acquire permits and
x86 does; with FALSE everything is sequentially consistent. A delayed
store reaches memory by the step `ClearReachesMemory`, at any later time. `owed` remembers what had been accepted when
`stop()` cleared `running_`.

### RiskEngine

`risk` is the object: working orders by (client, symbol, id), the counters that
are derived from them, positions, kill switches. The other two variables stand for
the caller: `resting` is what the book has and `command` is the order being
matched; `NewOrder`, `Replace`, `Trade`, `TradeUnowned`, `Finish`, `Cancel` make
exactly the calls the server makes, in its order. The notional check uses the
price the code uses for each order type. `CounterMax` and `PositionMax` are the
widths of the counters; subtraction stops at zero and addition saturates as in the
code.

### ExchangeServer

Composes `MatchingEngine` (its variables are the server's) and `RiskEngine`
(instantiated with the owned orders of the book as `resting`). In addition:

* `client_risk_ids` says which session is on which socket; `Connect` hands out the
  smallest free socket and the next session number, `Disconnect` frees the socket
  and leaves the orders in the book;
* `handle_new_order`, `handle_cancel_order`, `handle_replace_order` are the
  handlers up to the engine call: refusals with their answers, risk checks, the
  journal record; `EngineStep` is the engine at work; `SettleNewOrder`,
  `SettleReplace`, `SettleCancel` are the rest of the critical section, which
  compute the messages to send; `Send` sends one of them, the last of which
  releases the mutex;
* the requests a handler can be given (`NewOrderRequest`, `CancelRequest`, `ReplaceRequest`) are
  those the decoders of `protocol.hpp` let through: no order without quantity, and a
  market order with price 0. A delivery without a socket (the owner is gone) is in the outbox and sends
  nothing, as in `send_trade_execution`;
* `market` is what a listener on TCP knows that has applied everything sent so far;
* `Crash` loses everything but the file. Of a record under way the file may hold
  everything, a stump of its length field, or its length and part of its body;
  (`tail`). A process that starts from such a file and succeeds appends behind the
  remnant; the numbers of the records that have one in front of them are in `broken`;
* `Restart`, `ReplayRecord`, `ReplayReturns`, `FinishRecovery` are the start-up. At a record in
  `broken` replay reads a length that is made of two. Too large a one ends it with false; another is
  accepted, the bytes it covers are taken for a record that does not decode, and replay goes on behind
  them, perhaps in step with the records again (`ReplayMisframed`). `replay_results` has what replay can
  return where it stands. That such bytes might decode as a command is left out;
* `settled` remembers the book after the last command carried through. After a
  crash that leaves a complete record of an unfinished command, either book is a
  right answer, and `settled` is set by recovery.

One instrument is modelled, with the journal on. Events are delivered to the
listener in the order of `Send`, which is exact for TCP clients. The publisher keeps the order of each
thread's datagrams only (`InOrder`), so that a multicast listener may get those of two handlers
the other way round; the two modules are not composed. An append that fails ends the process,
as nobody catches what it throws, and is a `Crash` here.

### FixGateway

One session between a FIX client and the exchange. The state of `SessionContext` is
kept under its names (`orders`, `clord_to_order`, `used_clord_ids`, `pending`,
`non_resting_awaiting_boundary`; the key of the last self trade and the count of
copies to ignore are `self_trade`). `phase` is the session's life, `to_core` and
`from_core` are the two directions of its connection.

* `Logon`, `handle_new_order`, `handle_cancel`, `handle_replace` are the handlers of
  client messages, with every rejection as `Reject`: a name in use, an unknown or
  finished order, a field that cannot be translated, a failed send;
* `handle_core_order_response`, `handle_core_trade`, `finalize_non_resting_orders` are
  those of the exchange's messages, dispatched by `process_core_message`; the two copies of a
  self trade stand next to each other on the connection, as one message with a count;
* `ClientGone` and `CoreGone` end the session: the context goes, the orders stay in
  the exchange;
* `CoreNewOrder`, `CoreCancel`, `CoreReplace`, `CoreOtherOrder` and `CoreStops` are
  the exchange, abstracted: it takes a request at a time and sends response,
  executions and book update in one piece, as the journal mutex makes it do; which
  trades an order makes is any choice (`PossibleFills`), with the session's own orders
  on the other side, with which a trade is sent twice, or with others. Somebody
  else's order can trade with a resting order at any time.

`executed` and `verdict` are what the exchange did and decided, `answer` what the client
was told, `overtaken` the orders that traded while a replace was under way. Sequence
numbers are left out: a message out of sequence is rejected and changes nothing else.

## 3. Runs

| Run | Instance | What it shows |
|---|---|---|
| `matching` | 3 ids, 2 prices, quantities up to 2, width 16 | Index, levels, crossing, trade accounting, and the refinement of `PriceTimeBook`, at every step. |
| `matching_wrap` | the same with width 3, fair | With totals that wrap: they are still sums modulo the width, fill-or-kill is still all or nothing, every call returns. |
| `level_total_overflow` | quantities up to 3, width 4 | Violation: finding 1. |
| `ring` | capacity 2, positions modulo 8, 2 values | No slot race, caches only lag, the ring never holds more than its high-water mark and one slot not yet measured, the ring is a bounded FIFO. |
| `publisher` | 3 threads, one of which sends twice, 2 shards, capacity 2, 2 generations, delayed stores | A ring has one producer in a generation although threads outnumber shards and keep registrations from before a restart; the datagrams of a thread go out in its order, two of them waiting in one ring; everything accepted before `stop()` began has been sent when the consumer leaves. |
| `publisher_liveness` | 2 threads, 3 sends, capacity 1, sequentially consistent, fair | Nothing lost or sent twice although the ring is full, no missed wake-up; what is queued is sent and `stop()` returns. |
| `publisher_wakeup` | 2 threads | Violation: finding 2. |
| `risk` | 2 clients, 2 symbols, 2 ids, prices 1 and -2 | Counters equal what the book says, no reachable fill passes the position limit, open orders and quantity stay within theirs, the exposure of a stopped client only shrinks. |
| `server` | 2 sockets, 2 sessions, 2 ids, 3 journal records, 2 crashes | Owners, risk and feed in step with the book across trades with own, foreign, orphaned and recovered orders; recovery brings the book back, unless a record follows a remnant in the file; orders without a session leave by trading only. |
| `server_privacy` | the same, no crash | Violation: finding 3. |
| `fix` | 3 kinds of order (resting on both sides, market), quantities up to 2, 2 orders, 3 requests, fair | When nothing is under way, CumQty is what was traded and LeavesQty what is in the book; the name last reported leads to its order; a filled or cancelled order stays so; each request is answered as the exchange decided and no order that does not rest is left open. |
| `fix_overfill` | the same, without fairness | Violation: finding 4. |

The bounds. Three order ids at two prices give a level with two orders, two levels
to walk through, a replace that crosses and partial fills on both sides; quantity 2
against 1 gives the partial fills. Width 16 is more than three orders can add up to, so
`matching` never wraps, and width 3 wraps with two orders. The
ring passes its capacity, wraps around its slots and wraps its positions.
Three threads and two shards leave one thread without a shard; two generations
give stale registrations; capacity 2 lets both datagrams of a thread wait in a ring, and capacity 1
(`publisher_liveness`) makes a ring full. The risk limits are chosen so that each can be the one
that refuses, and the negative price exercises the absolute notional. In the
server, two sessions on two sockets suffice for an order whose owner is gone and
whose socket is reused; three records are enough to enter, trade and replace. The first
crash can fall at every step of a command, the second also in the recovery from the first, or
behind a record that was appended to a remnant, which the next recovery then reads.
`FalseLength` is the least number of records that a false length passes over, 1 in the run; the real
lengths (11308 bytes and more, for records of 44, 60 and 63) make it about 170. In the FIX session two orders
give self trades and three requests a replace of a replaced order or a cancel behind a
replace; quantity 2 leaves a rest to every partial fill; the client repeats a name and
refers to an unknown one. `MaxRecords`,
`MaxSessions`, `MaxCrashes`, `MaxSends`, `MaxGenerations`, `MaxOrders`, `MaxRequests` and `MaxQuantity` are
bounds of the models, not of the code. Symmetry is used for ids, threads and values
that are only compared for equality, and in no run with a liveness property.

Deadlock is not checked for the publisher, which ends when it has been stopped and
the bounds are used up, for the server, which may refuse to start and has
bounded sessions and records, and for the FIX session, which ends. The other runs check it.

Fairness. In `MatchingEngine!FairSpec` a call that has been made continues (weak
fairness of the loop, of resting and of returning): it runs on the caller's
thread without waiting for anyone. New calls are not assumed. In the publisher each
thread inside `send()`, the thread inside `stop()` and the consumer thread take their
next step when they can; these are preemptively scheduled operating-system threads
with no lock but the wait on the flag. Nobody is assumed to call `send()` or `stop()`.
In `FixGateway!FairSpec` the session's thread keeps polling (it handles what has arrived
or notices the hang-up: `poll` with a timeout, in a loop) and the exchange keeps
reading the session's requests, as its own thread per client does. Neither the FIX
client nor other traders have to do anything, and the exchange may hang up.

## 4. Findings

1. **A level's total can wrap** (`include/exchange/price_level.hpp:79`). The total is
   32 bits wide and added to without a check; after wrapping, cancelling or
   replacing a resting order throws the error the code reserves for an inconsistent
   level.
2. **The wake-up protocol needs a store-load barrier**
   (`src/multicast_publisher.cpp:346`). With the release store delayed past the rescan,
   a producer sees the old flag and does not notify. Without the delay no
   wake-up is missed (run `publisher_liveness`).
3. **Executions follow the socket number** (`src/exchange_server.cpp:1831`). A
   resting order's execution goes to the stored descriptor, whose number may by then
   belong to another client. Cancels and replaces compare the session
   as well, and are safe (`OrphansOnlyTrade`).
4. **A FIX replace can lift an order above its total** (`src/fix_gateway.cpp:1029`). The
   gateway refuses a total that is not more than what has been filled, and asks the
   exchange for the difference. An execution under way at that time is in neither:
   after the replace the order works on with OrderQty not above CumQty, and can be
   filled beyond the client's total. Without such a crossing the quantities add up
   (`FillsReported`), and with it CumQty and LeavesQty still agree with the exchange.

Seen while modelling, and not the subject of a run:

* A `send()` that overlaps `stop()` can succeed and leave its datagram in the ring: the
  consumer looks at the queues, then at the active flags, and a sender between the two
  looks queues its datagram and clears its flag. What was accepted before `stop()`
  began is sent (`StopDrainsEarlierSends`).
* `max_queue_depth` is measured after the consumer may already have lowered the depth
  (`src/multicast_publisher.cpp:232`), so it can stay below a depth the queue has had, by the one slot
  that was being measured (`HighWaterMarkCovers`).
* A journal that has records behind a stump can lose commands. A crash leaves one to three bytes
  of a length; the next start takes them for the end of the file (`src/replay.cpp:100`), succeeds and
  appends behind them. Replay then frames by lengths made of two. Mostly it fails, and the server does
  not start; but a byte 3F in front of 3F 00 00 00 reads as 16191, which is accepted once so many
  bytes follow (`src/replay.cpp:112`), is skipped (`src/replay.cpp:144`), and at the end of the file replay
  returns true. "This allows resting orders to survive process and Docker-container restarts"
  (`README.md:328`) is not so then. `RecoveredBook` excludes these files by its condition `broken = {}`;
  without the condition TLC violates it in the `server` run: a crash that leaves a stump, a start, an
  order, a crash, and a start that has passed over the order.
* A cancel or replace that the FIX client sends behind an order which the exchange
  then refuses is dropped without an answer (`src/fix_gateway.cpp:1105`).
  `EveryRequestAnswered` allows for this case and no other.
* Through finding 3 a FIX session can receive the second copy of a trade with a
  stranger's order and count it as another fill.
* The gateway's order numbers start at the same value after each restart
  (`include/exchange/fix_gateway.hpp:96`), and those still resting are refused.

## 5. Proofs

All theorems are about the modules' `Spec`, for every value of the constants that their
`ASSUME`s allow. `PROJECT.json` lists them with the property each states.

| Module | Theorems |
|---|---|
| `OrderBookProofs` | lemmas: what add, extract and fill do to a well-formed book and to its totals |
| `MatchingEngineProofs` | `TypeCorrect`, `IndexAlwaysMatches`, `NeverCrossed`, `BestLevelsPopulated`, `OnlyRestableRest`, `TotalsAlwaysSums`, `TradesAlwaysAccount`, `FillOrKillAllOrNothing`, `EngineImplementsMarket`, `FewOrdersNeverWrap`, `TotalsAlwaysCover` |
| `SpscRingProofs` | `RingTypeCorrect`, `RingNoSlotRace`, `RingCachesLagBehind`, `RingHighWaterMarkCovers`, `RingImplementsFifo` |
| `MulticastPublisherProofs` | `PublisherTypeCorrect`, `PublisherPrivateQueues`, `PublisherTakenOnce`, `PublisherInOrder`, `PublisherStopDrains`, `PublisherNoMissedWakeup` |
| `RiskEngineProofs` | `RiskTypeCorrect`, `RiskCountersMatchBook`, `RiskPositionsBounded`, `RiskOpenOrdersBounded`, `RiskKilledOnlyShrinks` |
| `FixGatewayProofs` | `SessionTypeCorrect`, `SessionCurrentNameWorks`, `SessionFillsReported`, `SessionDoneIsDone` |
| `ExchangeServerProofs` | `ServerTypeCorrect`, `OwnersAlwaysBooked`, `OrphansTradeOnly`, `ServedBookUncrossed`, `ServerRiskMatchesBook`, `ServerLimitsHold`, `ServerFeedMatchesBook`, `ServerRecoveredBook` |
| `SumsProofs` | lemmas about sums |

### Book and engine: structure

Assumptions: prices are integers (`PriceAssumption`), the width is at least 2
(`ModulusAssumption`), `NoOrder` is not an order, and `MaxQuantity` is a positive
quantity. `OrderId` is any set.

The inductive invariant is `IInv`: the type invariant, `WellFormed(book)` (typed,
index and lists in agreement, no empty level, only restable orders, each at its own side
and price) and `Uncrossed(book)`. None of the parts is inductive alone. That a
level is populated is needed for the matching loop, which takes the front order of
the best level. That index and lists agree, with every id in one place, is
needed to know that removing an order removes *the* entry for it and leaves the others
in place. That positions and prices agree is needed to know that the order removed is at
the level the index names. And that the book stays uncrossed when an order rests needs all
of it: the loop ends only when the best opposite level does not cross the order, and
`IsBest` makes that a statement about every opposite level. Fills and
extractions only take levels away, which `FewerLevelsUncrossed` turns into the
preservation of `Uncrossed`.

The layout is one lemma per action (`MatchStepKeepsIInv`, `RestKeepsIInv`,
`CancelKeepsIInv`, `ReplaceKeepsIInv`, with `StartProcessingKeepsIInv` shared by the two
calls that start a match), combined by `NextKeepsIInv`. At the level of the book,
`AddOrderKeepsWellFormed`, `ExtractKeepsWellFormed` and `FillKeepsWellFormed` rest on
`OrdersInPlace` and its converse `InPlaceSuffices`, which restate well-formedness order
by order: the order at place *i* of a price is indexed there and nowhere else.

### Quantities

The provers cannot do induction over data, so a sum is not defined by recursion: `SumOver(f, S)`
is the number of units in the disjoint union of `f[x]` units for each `x` of `S`, and
`SumsProofs` derives what is needed (one element more, one less, one changed, a re-indexing,
a bound) from the library's theorems about finite sets and cardinality.

On top of `IInv`, `SumInv` says that there are finitely many levels, each with a total that is
the sum of its orders modulo the width, that the trades account for the incoming
order, and that while a fill-or-kill order is being matched enough is waiting for the rest of it
(`FillOrKillCovered`). The last part is what makes `FillOrKillIsAllOrNothing`
inductive, and it holds with totals that have wrapped as well: a wrapped total is less than what is
there, so `executable_quantity` may kill an order that could be filled, but never starts one that
cannot.

### The engine implements the market

`EngineImplementsMarket`: `Spec /\ []NoTotalWraps => ImplementsPriceTimePriority`. Without the
premise the statement is false, since a fill-or-kill order killed for a wrapped total is not killed
in the market; `FewOrdersNeverWrap` shows that it holds wherever all orders at their largest
fit in a `Quantity` (`TotalsFit`), as in run `matching`. `TotalsAlwaysCover` is the counterpart of
finding 1: as long as no total wraps, the check in `PriceLevel::erase` never fires.

The mapping reads an order's place off its list with `CHOOSE`; `PlaceExists` and
`PlaceUnique` get from `WellFormed` that there is one such place. Three lemmas say what
happens to everybody else's place: `LeavingTheLine` (who stood behind moves up, and loses
the one who left from those ahead), `JoiningTheLine` (a new order has all of its price
ahead of it) and `FillingThePart` (a partial fill moves nobody). `LiquidityIs` equates the
market's liquidity, a sum over waiting orders, with `executable_quantity`, a sum of totals. The
steps map as follows: `ProcessOrder` to an offer, `MatchStep` to a fill of the first in line at the
best price, `Rest` and `Complete` to a settlement, `CancelOrder` to a withdrawal or nothing,
`ReplaceOrder` to an amendment or a miss, `Return` to leaving or nothing, `ProcessZeroQuantity` to
nothing. `MarketInv` adds what the mapping needs beyond the two invariants: no
quantity is larger than one that was entered, and no order is in hand between calls.

### Ring

Assumptions: a positive capacity, and a modulus of the positions that is larger and a
multiple of it (2^64 and a power of two in the code). `RingInv` has the types; the
four positions in the order in which they are passed (cached read, read, cached write, write),
all within one capacity; that what a thread concluded from its cached position still holds when
it touches the slot; that a slot keeps its value until the position moves on; and the
high-water mark. Distances modulo the width replace the comparisons that the positions, which wrap, do
not have: the first third of the module is lemmas about `Distance`, `Advance` and `SlotOf`, of
which the central one is that positions less than a capacity apart have different slots.

The mapping to `BoundedFifo` is the sequence of the values between the two positions;
`EmplacePublish` is a put, `ConsumeAdvance` a take, `Reset` a clear, and every other step, the write
into the slot included, leaves the sequence as it is.

### Publisher

Assumptions: at least one shard and one slot; threads, bounds and generations are arbitrary.
`PublisherInv` has the types and six parts. `Calling` and
`Registered` (a shard of this generation was handed out by the counter, once) give
`PrivateQueues` although registrations of earlier generations survive a restart. `Numbered` and
`QueueOrder` (a ring has datagrams of its own thread only, in order, all younger than what that
thread has on the wire) give `InOrder` and, with `Accounted`, `TakenOnce`. `Drained` follows
the consumer's last scan: the shards it has found empty since `running_` was cleared have
nothing in them that was queued before, even if a late sender has put something new there. These hold
under both memory models.

`PublisherNoMissedWakeup` has the hypothesis `~StoreBuffering`: with the delayed
store it is false (finding 2). `Awake` follows the consumer from the clear of the flag to its sleep: a
shard it has passed is empty, or a thread is on its way to the flag, or the flag is set again.

### Risk engine

Assumptions (`RiskLimitsAssumption`): the limits are naturals; `MaxOpenQuantity` is below the
largest counter, `MaxPosition` is at most the largest position, and twice the largest position is
less than the largest counter, which is so for `int64_t` and `uint64_t`. Limits outside them would be no limits: the
comparison with a saturated sum could not fail.

`RiskInv`: the types; the working orders are the orders of the book and the counters are
those of the working orders (`Counted`, with `SumOver` for the quantities); the two limits;
and `CommandFits`, what the check of a command has established about room for it and what stays true while
its fills change the counters. The last part is what carries the limits from the check to
`Finish`, when the order rests. `PositionStaysWithinLimit` is stated about the worst case (all open
orders of one side and the command in progress filled) and is inductive because a fill moves
quantity from the open orders into the position without changing the sum. One lemma per operation
(`Release`, `Book`, `apply_position_delta` and what is made of them) says what it does to counters
and worst cases; the saturations are shown never to happen.

### FIX session

Assumptions: positive bounds, and orders with a side, a type, a time in force and a
positive quantity. `SessionInv` has the types of session, connection and book;
`NumbersFresh` (a number not given out has no order and no requests); `NamesUnderWay` (requests under way
have names that were used, each its own, and the name of a cancel or replacement leads to no order
before its response); `EntryComesFirst` (the entry of an order is the first of its requests, and
until it is answered the order has one name); and `CurrentNameWorks`. The response is the step that
needs them all: a refused entry erases one name, so no other may lead to the order, and a
replacement enters a name, which must not be the current one of another order. That a
replacement's rest is not negative needs `MayReplace`, and that a fill is a quantity needs the
fills of the abstract exchange to add up (`Sums` again).

`SessionFillsReported` and `SessionDoneIsDone` need more. `FillsReported` compares session and
exchange only when the connection is empty, so nothing can be concluded from it when the first
message of several is read. `QuantityInv` follows each order through the messages instead:

* `View(id)` is what the session has of an order (left, filled, requests under way, whether the
  next book update ends it, whether it may rest). `Moved` says what reading a message makes of
  that, and `Fits` when a message makes sense there: a response answers a request and does not
  accept one for an order that is over; a fill takes no more than what is left.
* `Tracked(id)`: the unread messages, each fitting where it is read, take the order (`Takes`) from
  `View(id)` to a place where it `Ends`: filled is what was traded, left is what is in the book (or
  what was entered, while the entry is unread), and the requests that the session waits for
  are the ones that the exchange has not read (`Awaits`).
* `CopiesExpected`: the second message of a trade of two own orders is read right after the
  first, by a session that remembers it (`self_trade`) and so does not count it twice.
* `NumbersKnown` (messages name only numbers that have been given out) and `SumsUp` (`OrderQty` is
  `CumQty` plus `LeavesQty`, which a replacement under way restores unless a trade overtakes it).

When the session reads, each order takes the first step of its way (`BookUpdateKeepsQuantities`,
`TradeKeepsQuantities`, `ResponseKeepsQuantities`). When the exchange handles a request, the
answer, the trades and the update (`Bunch`) are appended at the end of the way of the order
entered and of each resting order that trades, and the sums over the fills of the abstract
exchange say that each fill fits. On an empty connection the way has no steps, which is
`FillsReported`. `DoneIsDone` follows because at nothing left only refusals, updates and
messages that do not concern the order fit. TLC checked the parts of `QuantityInv` on the instance
of run `fix` before they were proved.

### Server

Assumptions: those of the engine, restated about the server's constants
(`EngineAssumption`), those of the risk engine about its limits (`LimitsAssumption`), and that
the requests of the instance are among those the decoder lets through
(`RequestAssumption`). Sessions, sockets, records, crashes and the number of
records that a false length passes over are arbitrary.

The engine's variables are the server's, so the engine's proofs are used as they stand:
`ExchangeServerProofs` instantiates `MatchingEngineProofs`, and a step of the server is a step of that
instance or leaves the engine alone (`Crash` starts with an empty book, which is an
initial state of it). `EngineIsMatching` says that the two names of the engine's definitions, the one
that the server inherits and the one of the instance, mean the same. `ServedBookUncrossed` is the
engine's `NeverCrossed` carried over: it holds through crash and replay too.

`ServerInv` is the engine's `IInv`, the types, and three parts:

* `OneAtATime`: while a command is under way the mutex is held, and no messages wait that are not
  the command's; without one the engine is idle. This is what `journal_processing_mutex_`
  is for, and it makes `Send` the only step between a handler's end and the next one's start.
* `OwnersUnderWay`: an owner without an order in the book is that of the command under way or of
  a resting order that a trade of the call has filled. `OwnersAreBooked`, which speaks
  about the moments between commands, is not inductive: a fill removes the order from
  the book long before `remove_filled_order_owners` removes its owner. A cancel is the
  exception: it does not clear the caller's trade buffer, so the trades of an earlier call
  excuse nobody.
* the outbox is a sequence, so that taking its head is known to make it shorter.

`ServerRiskMatchesBook` and `ServerLimitsHold` compose the server with the risk engine. They are
not inductive: a handler tells the risk engine of a call's trades, and of the rest, only when the call
has ended, so that while the engine matches the counters are of orders that are no longer in the
book. The proof looks at the state through a mapping to `RiskEngine`, in which

* `RiskNow` is the risk engine as it will be when it has been told of the trades so far, or
  of the cancel;
* `RestingNow` are the owned orders in the book without the command's own;
* `CommandNow` is the command with what is left of its order.

`Calls` instantiates `RiskEngineProofs` with it, and every step of the server is then a step of
`RiskEngine` (a new order, a replace, a cancel, a trade with an owned or with an unowned order, the
end of a command, a kill switch), its initial state (`Crash`) or a stutter; the step lemmas of
`RiskEngineProofs` carry `RiskInv` along. `RiskKept` says that `RiskInv` holds through the mapping
unless the engine has thrown: nothing of that call is reported then, the exception leaves the
thread, and only a crash follows. `CommandAtWork` says what the mapping needs of the command: the
order in hand is the command's, it is not booked before it rests, and a cancelled one is out.

That a fill is one more trade of the risk engine needs what the recursion over the trades computes
when a trade is appended. In place of induction, `IsPath` says what a function is that
follows the trades one by one, and `Smallest` (a non-empty set of naturals has a least element, from
the well-foundedness of `<`) refutes a first place where two such functions differ. The
`View` lemmas read the owned orders off the engine's refinement mapping (`WaitingIn`), which
knows what a fill, an extraction and a rest do to side and quantity of each order.

`ServerFeedMatchesBook` is about the moments when nothing is left to send, and neither the fills
of a call nor the messages of a handler that has ended are known to the listener at once.
`Heard(a, s, b)` says that a listener that knows `a` and hears the messages `s` comes to know `b`.
With it `FeedUnderWay` says: between commands, what waits in the outbox brings the listener to the
book (`Told`); during a command the listener has an order for every owner (`Held`), and the
level-3 executions of the trades so far bring it, once it has forgotten the command's own
order, to what is left of each order that still rests (`Due`). A fill appends one execution
and reduces one order; the end of the command sends the executions, the deletions of filled orders
and the addition of the rest, and turns `Due` into `Told`; `Send` takes the first step of `Told`.

`ServerRecoveredBook` is about determinism: the book that replay comes to is the one that was left.
The book alone does not say how it was reached, so `OnTheWay` relates it to the journal. A `Point` is
how many records have been read, and the engine's book, order and status; `Goes(j, x, y)` is a
step of the work on journal `j` (reading a record, an iteration of the matching loop, its end), and
`Reaches` a way of such steps. Serving or replaying, the engine is always at a point that its
journal reaches from the empty book. While a command is carried out the journal without its
last record leads to the book before it, which is what is recovered when a crash loses that record
too. When the record is in the file and the command was cut off, nobody has seen a book after it:
the first recovery decides what it is, and the later ones must agree. From a point there is one
step at most (best price, position in a level and the rest are unique: `OneWay`), and a journal that
is through leaves nothing to do, so replay cannot come to a second book. All this is so for a journal
without records behind a remnant. The invariant is therefore `Framed => OnTheWay`: `Framed` allows one
such record, that of the command under way, as a crash that cuts it short leaves a file without
one again. A step that ends in a framed file began in one (`FramedBefore`), so that nothing has to be known
of the others.

### Only model-checked

* Liveness (`CallsReturn`, `QueuedIsSent`, `StopReturns`, `EveryRequestAnswered`): the prover does not
  handle fairness and ENABLED.

Every other property of the passing runs is stated by a theorem.

## 6. Plan

Done, in this order: book and engine with their abstract market; ring; publisher; risk engine;
server with journal, crash and recovery; a FIX session; then the proofs about book, engine and
its refinement, ring and its refinement, publisher, risk engine, the names of a FIX session, the
owners of the server, the server's use of the risk engine, its market data, its recovery, and what
a FIX session reports.

Next:

* the server without a journal, where answers and updates are sent after the engine
  mutex is released and may overtake one another;
* `stop()` against running client threads;
* server and publisher composed, with the sequence numbers of the datagrams, for what a
  multicast listener can make of datagrams of two handlers.

## 7. Not modelled, and why

* Codecs (`fix.*`, `protocol.hpp`): parsers and encoders over bytes without state to
  interleave. What they refuse bounds the requests of the server's model.
* Socket set-up, `sendto` and its errors, the accept loop, the WebSocket relay and the
  dashboard: I/O, and nothing in the exchange reads their state back.
* Performance metrics: counters that only leave the system.
* Memory pool and trade buffer: storage under containers that the models represent
  by functions and sequences.
* The WebSocket gateway: three threads around one client list, which one mutex guards;
  what could go wrong (a browser that does not finish its handshake or does not
  read) lies in blocking sockets, and only viewers would notice.
* In the FIX gateway: the accept loop, heartbeats, sequence numbers, average prices.
* Timestamps and sequence numbers of messages: nothing in the book orders by time,
  and the server's numbers only count what `Send` sends.
* Several instruments in one server: engines are independent; the risk engine, which is
  shared between them, has two symbols in its own module.
