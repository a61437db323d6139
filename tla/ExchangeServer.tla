--------------------------- MODULE ExchangeServer ---------------------------
(***************************************************************************)
(* ExchangeServer (exchange_server.cpp) with its journal (journal.cpp) and *)
(* start-up recovery (replay.cpp): sessions come and go on sockets whose   *)
(* numbers are used again, a client thread handles a message under the     *)
(* journal-processing mutex, from the checks to the last datagram, and the *)
(* process may die at any point and replay its journal.                    *)
(*                                                                         *)
(* One instrument, journaling on, as main.cpp runs it. The engine and the  *)
(* risk engine are the modules MatchingEngine and RiskEngine: a handler's  *)
(* call into the engine is that module's action, one matching iteration    *)
(* per step, and what it does with the result is one step, made under the  *)
(* engine mutex.                                                           *)
(***************************************************************************)
EXTENDS OrderBook, SequencesExt

CONSTANTS
    Socket,           \* file descriptors the kernel hands out, smallest free one first
    MaxSessions,      \* bound: sessions in the life of a process
    Request,          \* bound: the well-formed messages that clients send
    MaxRecords,       \* bound on the number of journal records
    MaxCrashes,       \* bound on the number of crashes
    FalseLength,      \* records that a false length covers at least: some 170 in the code
    MaxQuantity, NoOrder,                                            \* MatchingEngine
    MaxOrderQuantity, MaxOrderNotional, MaxOpenOrders, MaxOpenQuantity,
    MaxPosition, CounterMax, PositionMax,                            \* RiskEngine
    NoCommand,        \* no command is being processed
    Nothing           \* not known, or never sent

ASSUME SocketAssumption == Socket \subseteq Nat \ {0}
ASSUME BoundsAssumption ==
    {MaxSessions, MaxRecords, MaxCrashes} \subseteq Nat /\ FalseLength \in Nat \ {0}

\* The requests that a client can send: what decodes, and quantities that are not zero.
NewOrderRequest ==
    [type : {"NewOrder"}, id : OrderId, side : Side, order_type : OrderType,
     time_in_force : TimeInForce, price : Price, quantity : 1 .. MaxQuantity]
CancelRequest == [type : {"CancelOrder"}, id : OrderId]
ReplaceRequest ==
    [type : {"ReplaceOrder"}, id : OrderId, price : Price, quantity : 1 .. MaxQuantity]

ASSUME RequestAssumption ==
    /\ Request \subseteq NewOrderRequest \cup CancelRequest \cup ReplaceRequest
    /\ NoCommand \notin Request

\* The engine's constants are as MatchingEngine and MatchingRefinement assume them.
ASSUME EngineAssumption ==
    /\ MaxQuantity \in 1 .. QuantityModulus - 1
    /\ NoOrder \notin Order
    /\ NoOrder \notin [id : OrderId, side : Side, kind : OrderType \X TimeInForce,
                        price : Price, left : Quantity]

VARIABLES
    book, incoming, trades, status,   \* MatchingEngine
    risk,                 \* risk_engine_
    phase,                \* of the process: recovering, running, dead, refusing to start
    client_risk_ids,      \* socket -> the session on it, 0 for a socket that is free
    next_risk_client_id,
    order_owners,         \* order id -> socket and session that entered it
    handler,              \* socket whose thread holds journal_processing_mutex_, or 0
    command,              \* the accepted request that is being matched
    outbox,               \* what the handler has still to send, in order
    journal,              \* the records of the file
    tail,                 \* how the file ends: clean, in a stump of a length, in a torn body
    broken,               \* numbers of records that have such a remnant right behind them
    replayed,             \* records replayed since the process was started
    crashes,
    market,               \* what a listener of this process's market data knows
    settled               \* the book after the last command that was carried through

engineVars == <<book, incoming, trades, status>>
sessionVars == <<client_risk_ids, next_risk_client_id>>
fileVars == <<journal, tail, broken>>
handlerVars == <<handler, command, outbox>>
vars == <<engineVars, risk, phase, sessionVars, order_owners, handlerVars, fileVars,
          replayed, crashes, market, settled>>

Client == 1 .. MaxSessions
TheSymbol == "symbol"

Engine == INSTANCE MatchingEngine

\* Where an order rests, and the order itself.
Booked(b) == DOMAIN b.order_locations
OrderOf(b, id) ==
    LET at == b.order_locations[id]
    IN  CHOOSE o \in Range(b.levels[at.side][at.price].orders) : o.id = id

Key(client, id) == [client |-> client, symbol |-> TheSymbol, id |-> id]

\* The resting orders that have an owner, as the risk engine names them.
OwnedOrders ==
    LET owned == DOMAIN order_owners \cap Booked(book)
    IN  [k \in {Key(order_owners[id].risk_client_id, id) : id \in owned} |->
            [side |-> OrderOf(book, k.id).side,
             remaining_quantity |-> OrderOf(book, k.id).remaining_quantity]]

Risk == INSTANCE RiskEngine WITH
    Client <- Client, NoClient <- 0, Symbol <- {TheSymbol},
    Traded <- [c \in Client |-> {TheSymbol}],
    resting <- OwnedOrders, command <- NoCommand

\* The limits are as RiskEngine assumes them.
ASSUME LimitsAssumption ==
    /\ {MaxOrderQuantity, MaxOrderNotional, MaxOpenOrders, MaxOpenQuantity, MaxPosition,
        CounterMax, PositionMax} \subseteq Nat
    /\ MaxOpenQuantity < CounterMax
    /\ MaxPosition <= PositionMax /\ 2 * PositionMax < CounterMax
    /\ NoCommand \notin [key : Risk!OrderKey, side : Side, may_rest : BOOLEAN, remaining : Nat]

-----------------------------------------------------------------------------
(* What is sent *)

\* capture_book_snapshot: best price of each side, if there is one, and its total.
capture_book_snapshot(b) ==
    [s \in Side |-> {<<p, b.levels[s][p].total_quantity>> :
                        p \in {q \in Price : IsBest(b, s, q)}}]

Response(socket, id, success) ==
    [kind |-> "response", socket |-> socket, id |-> id, success |-> success]

Deleted(id) == [kind |-> "deleted", id |-> id]

\* The orders that a listener has, after a trade.
Reduced(orders, t) ==
    [id \in DOMAIN orders |-> IF id \in {t.buy_order_id, t.sell_order_id}
                              THEN [orders[id] EXCEPT !.quantity = @ - t.quantity]
                              ELSE orders[id]]

\* What a listener makes of a message: book updates are the top of the book,
\* level-3 events add, reduce and delete orders.
Hear(m, message) ==
    CASE message.kind = "book_update" -> [m EXCEPT !.top = message.snapshot]
      [] message.kind = "add" -> [m EXCEPT !.orders = Put(@, message.order.id, message.order)]
      [] message.kind = "deleted" -> [m EXCEPT !.orders = Erase(@, message.id)]
      [] message.kind = "executed" -> [m EXCEPT !.orders = Reduced(@, message.trade)]
      [] OTHER -> m

NothingHeard == [top |-> Nothing, orders |-> EmptyMap]

\* The level-3 view of a resting order.
Level3(o) == [id |-> o.id, side |-> o.side, price |-> o.price, quantity |-> o.remaining_quantity]

-----------------------------------------------------------------------------
(* Sessions *)

Init ==
    /\ Engine!Init
    /\ risk = Risk!EmptyRisk
    /\ phase = "running"
    /\ client_risk_ids = [s \in Socket |-> 0]
    /\ next_risk_client_id = 1
    /\ order_owners = EmptyMap
    /\ handler = 0 /\ command = NoCommand /\ outbox = <<>>
    /\ journal = <<>> /\ tail = "clean" /\ broken = {}
    /\ replayed = 0 /\ crashes = 0
    /\ market = NothingHeard
    /\ settled = book

register_client(s) ==
    /\ client_risk_ids' = [client_risk_ids EXCEPT ![s] = next_risk_client_id]
    /\ next_risk_client_id' = next_risk_client_id + 1

unregister_client(s) ==
    /\ client_risk_ids' = [client_risk_ids EXCEPT ![s] = 0]
    /\ UNCHANGED next_risk_client_id

\* run: accept returns the smallest free descriptor.
Connect ==
    /\ phase = "running"
    /\ next_risk_client_id <= MaxSessions
    /\ \E s \in Socket :
          /\ client_risk_ids[s] = 0
          /\ \A t \in Socket : client_risk_ids[t] = 0 => s <= t
          /\ register_client(s)
    /\ UNCHANGED <<engineVars, risk, phase, order_owners, handlerVars, fileVars, replayed,
                   crashes, market, settled>>

\* The end of handle_client: recv has returned nothing. The session's orders stay.
Disconnect(s) ==
    /\ phase = "running"
    /\ client_risk_ids[s] # 0
    /\ handler # s
    /\ unregister_client(s)
    /\ UNCHANGED <<engineVars, risk, phase, order_owners, handlerVars, fileVars, replayed,
                   crashes, market, settled>>

-----------------------------------------------------------------------------
(* Handling a message *)

\* The thread of socket s has a message and takes the journal-processing mutex.
Receives(s) == phase = "running" /\ handler = 0 /\ client_risk_ids[s] # 0

\* The request is refused: nothing changes, and the client is told.
Refuse(s, id) ==
    /\ handler' = s
    /\ outbox' = <<Response(s, id, FALSE)>>
    /\ UNCHANGED <<command, risk, fileVars>>

\* Mutant of append_journal_record: cancels are not written.
append_journal_record_orders(request) ==
    /\ Len(journal) < MaxRecords
    /\ journal' = IF request.type = "CancelOrder" THEN journal ELSE Append(journal, request)
    /\ UNCHANGED <<tail, broken>>

\* append_journal_record. The file is opened for appending, and what an earlier process
\* left of its last record stays where it is, in front of this one.
append_journal_record(request) ==
    /\ Len(journal) < MaxRecords
    /\ journal' = Append(journal, request)
    /\ broken' = IF tail = "clean" THEN broken ELSE broken \cup {Len(journal)}
    /\ tail' = "clean"

Accept(s, request) ==
    /\ handler' = s
    /\ command' = request
    /\ append_journal_record(request)
    /\ UNCHANGED outbox

ServerUnchanged ==
    UNCHANGED <<phase, sessionVars, order_owners, replayed, crashes, market, settled>>

\* A body that does not decode, which a quantity of zero does not either.
HandleMalformed(s) ==
    /\ Receives(s)
    /\ Refuse(s, Nothing)
    /\ ServerUnchanged /\ UNCHANGED engineVars

\* The price that the notional limit is checked with: market_reference_price for
\* a market order when the other side has a best price, the order's own otherwise.
NotionalPrices(request) ==
    LET best == {p \in DOMAIN book.levels[Opposite(request.side)] :
                    IsBest(book, Opposite(request.side), p)}
    IN  IF request.order_type = "Market" /\ best # {} THEN best ELSE {request.price}

\* Mutant of NewOrderAllowed: the risk engine is not asked.
NewOrderAllowed_unchecked(s, request) ==
    ~contains(book, request.id) /\ request.id \notin DOMAIN order_owners

NewOrderAllowed(s, request) ==
    /\ ~contains(book, request.id)
    /\ request.id \notin DOMAIN order_owners
    /\ \A p \in NotionalPrices(request) :
          Risk!check_new_order(risk, client_risk_ids[s], TheSymbol, request.side,
              request.order_type = "Limit" /\ request.time_in_force = "GoodTillCancel",
              p, request.quantity)

\* handle_new_order up to its call of process_order_into.
handle_new_order(s, request) ==
    /\ Receives(s)
    /\ request.type = "NewOrder"
    /\ ServerUnchanged
    /\ \/ /\ NewOrderAllowed(s, request)
          /\ Accept(s, request)
          /\ Engine!ProcessOrder(request.id, request.side, request.order_type,
                                 request.time_in_force, request.price, request.quantity)
          /\ UNCHANGED risk
       \/ /\ ~NewOrderAllowed(s, request)
          /\ Refuse(s, request.id)
          /\ trades' = <<>>
          /\ UNCHANGED <<book, incoming, status>>

\* Mutant of Owns: whoever is on the socket owns the order.
Owns_by_socket(s, id) ==
    /\ id \in DOMAIN order_owners
    /\ order_owners[id].socket = s
    /\ contains(book, id)

\* The session on socket s entered the order, and it rests.
Owns(s, id) ==
    /\ id \in DOMAIN order_owners
    /\ order_owners[id] = [socket |-> s, risk_client_id |-> client_risk_ids[s]]
    /\ contains(book, id)

\* handle_cancel_order up to its call of cancel_order.
handle_cancel_order(s, request) ==
    /\ Receives(s)
    /\ request.type = "CancelOrder"
    /\ ServerUnchanged
    /\ \/ /\ Owns(s, request.id)
          /\ Accept(s, request)
          /\ Engine!CancelOrder(request.id)
          /\ UNCHANGED risk
       \/ /\ ~Owns(s, request.id)
          /\ Refuse(s, request.id)
          /\ UNCHANGED engineVars

\* handle_replace_order up to its call of replace_order_into: the old order leaves
\* the risk engine before the new one is matched.
handle_replace_order(s, request) ==
    LET key == Key(client_risk_ids[s], request.id)
        allowed == /\ Owns(s, request.id)
                   /\ Risk!check_replace(risk, key, request.price, request.quantity)
    IN  /\ Receives(s)
        /\ request.type = "ReplaceOrder"
        /\ ServerUnchanged
        /\ \/ /\ allowed
              /\ Accept(s, request)
              /\ risk' = Risk!on_order_cancelled(risk, key)
              /\ Engine!ReplaceOrder(request.id, request.price, request.quantity)
           \/ /\ ~allowed
              /\ Refuse(s, request.id)
              /\ UNCHANGED <<book, incoming, status>>
              /\ trades' = IF Owns(s, request.id) THEN <<>> ELSE trades

\* The engine works on a call, of a handler or of recovery.
EngineStep ==
    /\ Engine!MatchStep \/ Engine!Rest \/ Engine!Complete
    /\ ServerUnchanged
    /\ UNCHANGED <<handlerVars, risk, fileVars>>

-----------------------------------------------------------------------------
(* What a handler makes of the result *)

Unowned == [socket |-> 0, risk_client_id |-> 0]

\* Mutant of find_order_owner: only the incoming order has an owner.
find_order_owner_incoming(id) ==
    IF id = command.id THEN [socket |-> handler, risk_client_id |-> client_risk_ids[handler]]
    ELSE Unowned

find_order_owner(id) ==
    IF id = command.id THEN [socket |-> handler, risk_client_id |-> client_risk_ids[handler]]
    ELSE IF id \in DOMAIN order_owners THEN order_owners[id]
    ELSE Unowned

\* The orders that rested and that the trades have filled.
FilledOrders ==
    {id \in {trades[i].buy_order_id : i \in DOMAIN trades}
              \cup {trades[i].sell_order_id : i \in DOMAIN trades} :
        id # command.id /\ ~contains(book, id)}

\* Mutant of remove_filled_order_owners: the owners stay.
remove_filled_order_owners_none == order_owners

remove_filled_order_owners == Restrict(order_owners, DOMAIN order_owners \ FilledOrders)

\* on_trade for a trade of the engine, with the owners of its two orders.
TradeReported(r, t) ==
    Risk!on_trade(r, Key(find_order_owner(t.buy_order_id).risk_client_id, t.buy_order_id),
                  Key(find_order_owner(t.sell_order_id).risk_client_id, t.sell_order_id),
                  t.quantity)

\* on_trade for every trade, in order.
RiskAfterTrades ==
    LET after[n \in 0 .. Len(trades)] ==
            IF n = 0 THEN risk ELSE TradeReported(after[n - 1], trades[n])
    IN  after[Len(trades)]

\* send_execution_deliveries: to the buyer's and then to the seller's socket.
\* send_trade_execution sends nothing when there is no socket.
ExecutionDeliveries ==
    LET To(id, t) == [kind |-> "execution", socket |-> find_order_owner(id).socket,
                      risk_client_id |-> find_order_owner(id).risk_client_id, trade |-> t]
    IN  [i \in 1 .. 2 * Len(trades) |->
            LET t == trades[(i + 1) \div 2]
            IN  To(IF i % 2 = 1 THEN t.buy_order_id ELSE t.sell_order_id, t)]

BookUpdate == <<[kind |-> "book_update", snapshot |-> capture_book_snapshot(book)]>>

Level3Executions == [i \in DOMAIN trades |-> [kind |-> "executed", trade |-> trades[i]]]

\* Mutant of Level3Deletions: filled orders are not deleted.
Level3Deletions_none == <<>>

\* The deletions come out of a hash set, in some order.
Level3Deletions ==
    LET order == SetToSeq(FilledOrders)
    IN  [i \in DOMAIN order |-> Deleted(order[i])]

Level3Add ==
    IF contains(book, command.id)
    THEN <<[kind |-> "add", order |-> Level3(OrderOf(book, command.id))]>> ELSE <<>>

\* The end of the engine mutex's critical section, with the engine's return.
Settle ==
    /\ handler # 0 /\ command # NoCommand
    /\ Engine!Return
    /\ command' = NoCommand
    /\ settled' = book
    /\ UNCHANGED <<phase, sessionVars, handler, fileVars, replayed, crashes, market>>

\* What is left of the order rests under its session, in the owners and in risk;
\* then everything that is to be sent, with the level-3 events after first.
FinishOrder(first) ==
    /\ Settle
    /\ status \in {"done", "killed"}
    /\ IF contains(book, command.id)
       THEN LET o == OrderOf(book, command.id)
                owner == find_order_owner(command.id)
            IN  /\ order_owners' = Put(remove_filled_order_owners, command.id, owner)
                /\ risk' = Risk!on_order_resting(RiskAfterTrades,
                               Key(owner.risk_client_id, o.id), o.side, o.remaining_quantity)
       ELSE /\ order_owners' = Erase(remove_filled_order_owners, command.id)
            /\ risk' = RiskAfterTrades
    /\ outbox' = <<Response(handler, command.id, TRUE)>> \o ExecutionDeliveries \o BookUpdate
                 \o first \o Level3Executions \o Level3Deletions \o Level3Add

\* The rest of handle_new_order.
SettleNewOrder ==
    /\ command # NoCommand
    /\ command.type = "NewOrder"
    /\ FinishOrder(<<>>)

\* The rest of handle_replace_order, which deletes the order that was replaced first.
SettleReplace ==
    /\ command # NoCommand
    /\ command.type = "ReplaceOrder"
    /\ FinishOrder(<<Deleted(command.id)>>)

\* The rest of handle_cancel_order.
SettleCancel ==
    /\ Settle
    /\ status = "cancelled"
    /\ order_owners' = Erase(order_owners, command.id)
    /\ risk' = Risk!on_order_cancelled(risk,
                   Key(order_owners[command.id].risk_client_id, command.id))
    /\ outbox' = <<Response(handler, command.id, TRUE)>> \o BookUpdate \o <<Deleted(command.id)>>

\* Mutant of Send: the mutex is released before the last message.
Send_unlocks_early ==
    /\ outbox # <<>>
    /\ market' = Hear(market, Head(outbox))
    /\ outbox' = Tail(outbox)
    /\ handler' = IF Len(outbox) <= 2 THEN 0 ELSE handler
    /\ UNCHANGED <<engineVars, risk, phase, sessionVars, order_owners, command, fileVars,
                   replayed, crashes, settled>>

\* One send; after the last one the mutex is released. The listener is one on TCP, to whom
\* the messages of all handlers come in this order.
Send ==
    /\ outbox # <<>>
    /\ market' = Hear(market, Head(outbox))
    /\ outbox' = Tail(outbox)
    /\ handler' = IF Len(outbox) = 1 THEN 0 ELSE handler
    /\ UNCHANGED <<engineVars, risk, phase, sessionVars, order_owners, command, fileVars,
                   replayed, crashes, settled>>

\* The administrative switch, under the engine mutex.
set_global_kill_switch(enabled) ==
    /\ phase = "running"
    /\ command = NoCommand
    /\ risk' = [risk EXCEPT !.global_kill_switch = enabled]
    /\ UNCHANGED <<engineVars, phase, sessionVars, order_owners, handlerVars, fileVars,
                   replayed, crashes, market, settled>>

-----------------------------------------------------------------------------
(* Crash and recovery *)

\* The process dies; only the file is left. With a command under way, the part of
\* its record that reached the disk may be all of it, some bytes of its length, or
\* its length and some bytes of its body. In the first case the book that recovery
\* comes to is one that no client has been told of. (A write that fails ends the process
\* as well: nobody catches what append throws.)
Crash ==
    /\ phase \in {"running", "recovering"}
    /\ crashes < MaxCrashes
    /\ crashes' = crashes + 1
    /\ phase' = "dead"
    /\ book' = EmptyBook /\ incoming' = NoOrder /\ trades' = <<>> /\ status' = "ready"
    /\ risk' = Risk!EmptyRisk
    /\ client_risk_ids' = [s \in Socket |-> 0] /\ next_risk_client_id' = 1
    /\ order_owners' = EmptyMap
    /\ handler' = 0 /\ command' = NoCommand /\ outbox' = <<>>
    /\ market' = NothingHeard
    /\ replayed' = 0
    /\ \/ /\ UNCHANGED fileVars
          /\ settled' = IF command = NoCommand THEN settled ELSE Nothing
       \/ /\ command # NoCommand
          /\ journal' = Front(journal)
          /\ broken' = broken \ {Len(journal) - 1}
          /\ tail' \in {"stump", "torn"}
          /\ UNCHANGED settled

FileAndServerUnchanged ==
    UNCHANGED <<risk, sessionVars, order_owners, handlerVars, fileVars, crashes, market>>

\* start: recover_from_journal begins.
Restart ==
    /\ phase = "dead"
    /\ phase' = "recovering"
    /\ FileAndServerUnchanged /\ UNCHANGED <<engineVars, replayed, settled>>

\* ExchangeReplayer::replay of the next record, by the same engine.
ReplayRecord ==
    /\ phase = "recovering"
    /\ replayed < Len(journal) /\ replayed \notin broken
    /\ LET record == journal[replayed + 1]
       IN  \/ /\ record.type = "NewOrder"
              /\ Engine!ProcessOrder(record.id, record.side, record.order_type,
                                     record.time_in_force, record.price, record.quantity)
           \/ record.type = "CancelOrder" /\ Engine!CancelOrder(record.id)
           \/ /\ record.type = "ReplaceOrder"
              /\ Engine!ReplaceOrder(record.id, record.price, record.quantity)
    /\ replayed' = replayed + 1
    /\ FileAndServerUnchanged /\ UNCHANGED <<phase, settled>>

\* A record is done; an exception counts as a rejected record.
ReplayReturns ==
    /\ phase = "recovering"
    /\ Engine!Return
    /\ FileAndServerUnchanged /\ UNCHANGED <<phase, replayed, settled>>

\* ExchangeReplayer::replay behind a remnant: the length it reads is made of two. When so
\* many bytes follow, they are taken for a record that does not decode, and replay goes
\* on behind them; if it comes to the start of a record again, it has passed over some.
ReplayMisframed ==
    /\ phase = "recovering" /\ status = "ready"
    /\ replayed \in broken
    /\ replayed' \in replayed + FalseLength .. Len(journal)
    /\ FileAndServerUnchanged /\ UNCHANGED <<engineVars, phase, settled>>

\* What replay can return where it is: false for a false length that is too large for a
\* record or for the file, and for a record that is cut short at the end; true at the
\* end, for which a stump of a length is taken too. Behind a remnant the torn end may have
\* been passed over with the rest.
replay_results ==
    IF replayed \in broken THEN {FALSE}
    ELSE IF replayed < Len(journal) THEN {}
    ELSE IF tail # "torn" THEN {TRUE}
    ELSE IF broken = {} THEN {FALSE} ELSE BOOLEAN

\* recover_from_journal ends: when replay has failed start() returns false. The
\* recovered orders have no owners, and the risk engine does not know them.
FinishRecovery ==
    /\ phase = "recovering"
    /\ status = "ready"
    /\ \E success \in replay_results : phase' = IF success THEN "running" ELSE "refusing"
    /\ settled' = IF settled = Nothing THEN book ELSE settled
    /\ FileAndServerUnchanged /\ UNCHANGED <<engineVars, replayed>>

Next ==
    \/ Connect
    \/ \E s \in Socket :
          \/ Disconnect(s)
          \/ HandleMalformed(s)
          \/ \E request \in Request : \/ handle_new_order(s, request)
                                      \/ handle_cancel_order(s, request)
                                      \/ handle_replace_order(s, request)
    \/ EngineStep
    \/ SettleNewOrder
    \/ SettleReplace
    \/ SettleCancel
    \/ Send
    \/ \E enabled \in BOOLEAN : set_global_kill_switch(enabled)
    \/ Crash
    \/ Restart
    \/ ReplayRecord
    \/ ReplayReturns
    \/ ReplayMisframed
    \/ FinishRecovery

Spec == Init /\ [][Next]_vars

-----------------------------------------------------------------------------
(* Properties *)

Owner == [socket : Socket, risk_client_id : Client]

\* Types, and the mutex: there is a handler exactly while a command is being
\* matched or something is still to be sent.
TypeOK ==
    /\ Engine!TypeOK
    /\ phase \in {"running", "recovering", "dead", "refusing"}
    /\ client_risk_ids \in [Socket -> Client \cup {0}]
    /\ next_risk_client_id \in 1 .. MaxSessions + 1
    /\ IsMap(order_owners, OrderId, Owner)
    /\ command \in Request \cup {NoCommand}
    /\ journal \in Seq(Request)
    /\ tail \in {"clean", "stump", "torn"}
    /\ broken \subseteq 0 .. Len(journal) - 1
    /\ replayed \in 0 .. Len(journal)
    /\ handler \in Socket \cup {0}
    /\ (handler = 0) <=> (command = NoCommand /\ outbox = <<>>)

\* Outside the engine mutex every owner entry is of an order that rests:
\* remove_filled_order_owners, cancels and replaces forget no owner. A leftover
\* would make the id unusable for ever, as a duplicate.
OwnersAreBooked == command = NoCommand => DOMAIN order_owners \subseteq Booked(book)

\* The risk engine's working orders and counters are those of the owned orders in
\* the book, through trades with owned, own, orphaned and recovered orders.
RiskMatchesBook == command = NoCommand => Risk!CountersMatchBook

\* Whatever clients send, and whatever recovered orders they trade with, no session's
\* position can come to pass its limit, nor its open orders and quantity theirs.
LimitsHold ==
    command = NoCommand => Risk!PositionStaysWithinLimit /\ Risk!OpenOrdersWithinLimits

\* When nothing is left to send, a TCP listener that has applied every level-3 event
\* has exactly the orders entered since the process started, with what is left of
\* each, and the last book update is the top of the book.
FeedMatchesBook ==
    phase = "running" /\ handler = 0 =>
        /\ market.orders = [id \in DOMAIN order_owners |-> Level3(OrderOf(book, id))]
        /\ market.top \in {Nothing, capture_book_snapshot(book)}

\* "This allows resting orders to survive process and Docker-container restarts": a
\* process that has recovered has the book that the last command carried through had
\* left behind, after any number of crashes, also in recovery, and whatever is left of a
\* last record. The exception is a file in which records follow such a remnant: a start
\* from it may succeed and pass over commands that were carried through.
RecoveredBook ==
    phase = "running" /\ command = NoCommand /\ broken = {} => settled = book

\* "an old TCP socket is not a durable client identity": an order whose session is
\* gone, or that was recovered, leaves the book by trading only. Whoever is given
\* the socket next cannot cancel or replace it.
OrphansOnlyTrade ==
    [][\A id \in Booked(book) :
          /\ phase = "running" /\ phase' = "running"
          /\ status # "matching"
          /\ \A s \in Socket : id \in DOMAIN order_owners =>
                                   client_risk_ids[s] # order_owners[id].risk_client_id
          => id \in Booked(book)']_vars

\* "Private order acknowledgements and execution reports remain on the TCP
\* order-entry connection": an execution is sent to the session that entered the
\* order, or to nobody.
ExecutionsArePrivate ==
    outbox # <<>> /\ Head(outbox).kind = "execution" /\ Head(outbox).socket # 0 =>
        client_risk_ids[Head(outbox).socket] \in {0, Head(outbox).risk_client_id}
=============================================================================
