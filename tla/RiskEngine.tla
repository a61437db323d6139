----------------------------- MODULE RiskEngine -----------------------------
(***************************************************************************)
(* The pre-trade risk engine (risk_engine.cpp) under the calls that the    *)
(* server makes, one command at a time under its engine mutex: a check,    *)
(* then one on_trade per execution, then on_order_resting for what is left *)
(* in the book. The book itself is here only what risk can tell of it:     *)
(* which client's orders rest and how much of each; any resting order of   *)
(* the other side may be the one that is hit (the incoming client's own    *)
(* too), and so may an order without an owner, as recovery leaves them.    *)
(*                                                                         *)
(* The functions of the engine are operators on its state r:               *)
(*   global_kill_switch                                                    *)
(*   clients         client -> kill switch, open orders, gross quantity    *)
(*   symbols         client, symbol -> position and open quantities        *)
(*   working_orders  order -> side and remaining quantity                  *)
(* A client or symbol that the maps do not hold yet is one with zeros.     *)
(***************************************************************************)
EXTENDS Integers, FiniteSets, Sums, Maps

CONSTANTS
    Client,              \* risk client ids, one per TCP session
    NoClient,            \* invalid_risk_client_id
    Symbol,
    OrderId,
    Price,               \* prices in play
    Traded,              \* bound: the symbols each client sends orders for
    MaxQuantity,         \* bound on the quantity of a command
    MaxOrderQuantity,    \* RiskLimits::max_order_quantity
    MaxOrderNotional,    \* RiskLimits::max_order_notional
    MaxOpenOrders,       \* RiskLimits::max_open_orders
    MaxOpenQuantity,     \* RiskLimits::max_open_quantity
    MaxPosition,         \* RiskLimits::max_position_per_symbol
    CounterMax,          \* largest std::uint64_t
    PositionMax,         \* largest std::int64_t
    NoCommand            \* no command is being processed

ASSUME RiskLimitsAssumption ==
    /\ {MaxOrderQuantity, MaxOrderNotional, MaxOpenOrders, MaxOpenQuantity, MaxPosition}
          \subseteq Nat
    /\ CounterMax \in Nat /\ PositionMax \in Nat
    /\ MaxOpenQuantity < CounterMax
    /\ MaxPosition <= PositionMax /\ 2 * PositionMax < CounterMax
    /\ MaxQuantity \in Nat /\ Price \subseteq Int
    /\ NoClient \notin Client
    /\ Traded \in [Client -> SUBSET Symbol]

Side == {"Buy", "Sell"}
OrderKey == [client : Client, symbol : Symbol, id : OrderId]
Counter == 0 .. CounterMax
Position == -PositionMax - 1 .. PositionMax
WorkingOrder == [side : Side, remaining_quantity : 1 .. CounterMax]

ASSUME NoCommandAssumption ==
    NoCommand \notin [key : OrderKey, side : Side, may_rest : BOOLEAN, remaining : Counter]

VARIABLES
    risk,      \* the RiskEngine object
    resting,   \* order -> side and remaining quantity, as the book has it
    command    \* the order being matched: [key, side, may_rest, remaining]

vars == <<risk, resting, command>>

RiskState ==
    [global_kill_switch : BOOLEAN,
     clients : [Client -> [kill_switch : BOOLEAN, open_orders : Nat,
                           gross_open_quantity : Counter]],
     symbols : [Client -> [Symbol -> [position : Position, open_buy_quantity : Counter,
                                      open_sell_quantity : Counter]]]]

-----------------------------------------------------------------------------
(* Arithmetic *)

saturating_add(left, right) == IF right > CounterMax - left THEN CounterMax ELSE left + right

\* x - y for unsigned x and y, or zero where the code guards against wrapping.
MinusOrZero(x, y) == IF x >= y THEN x - y ELSE 0

absolute(value) == IF value >= 0 THEN value ELSE -value

-----------------------------------------------------------------------------
(* Checks *)

check_common_order_limits(notional_price, quantity) ==
    /\ quantity <= MaxOrderQuantity
    /\ absolute(notional_price) # 0 =>
          quantity <= MaxOrderNotional \div absolute(notional_price)

\* Mutant of position_limit_exceeded: open orders are not counted.
position_limit_exceeded_filled_only(position, side, additional, open_buy, open_sell) ==
    MaxPosition < IF side = "Buy" THEN position + additional ELSE additional - position

\* Would the position pass the limit if all open orders of the side and this
\* quantity were filled?
position_limit_exceeded(position, side, additional, open_buy, open_sell) ==
    LET exposure == saturating_add(IF side = "Buy" THEN open_buy ELSE open_sell, additional)
        sameWay == IF side = "Buy" THEN position >= 0 ELSE position <= 0
    IN  MaxPosition < IF sameWay THEN saturating_add(absolute(position), exposure)
                      ELSE MinusOrZero(exposure, absolute(position))

Killed(r, client) == r.global_kill_switch \/ r.clients[client].kill_switch

\* notional_price is the order's price, or for a market order the best opposite
\* price if there is one.
check_new_order(r, client, symbol, side, may_rest, notional_price, quantity) ==
    LET state == r.symbols[client][symbol]
    IN  /\ ~Killed(r, client)
        /\ check_common_order_limits(notional_price, quantity)
        /\ ~position_limit_exceeded(state.position, side, quantity,
                                    state.open_buy_quantity, state.open_sell_quantity)
        /\ may_rest =>
              /\ r.clients[client].open_orders < MaxOpenOrders
              /\ saturating_add(r.clients[client].gross_open_quantity, quantity)
                    <= MaxOpenQuantity

\* Mutant of check_replace: the switches stop new orders only.
check_replace_despite_kill(r, key, price, quantity) ==
    /\ key \in DOMAIN r.working_orders
    /\ check_common_order_limits(price, quantity)

\* Mutant of check_replace: the quantity in the book is not projected.
check_replace_without_gross(r, key, price, quantity) ==
    /\ ~Killed(r, key.client)
    /\ key \in DOMAIN r.working_orders
    /\ check_common_order_limits(price, quantity)
    /\ r.clients[key.client].open_orders <= MaxOpenOrders
    /\ r.clients[key.client].gross_open_quantity <= MaxOpenQuantity

\* A replacement is checked as if the order it replaces were gone.
check_replace(r, key, price, quantity) ==
    /\ ~Killed(r, key.client)
    /\ key \in DOMAIN r.working_orders
    /\ LET client == r.clients[key.client]
           state == r.symbols[key.client][key.symbol]
           existing == r.working_orders[key]
           Released(open, side) ==
               IF existing.side = side THEN MinusOrZero(open, existing.remaining_quantity)
               ELSE open
       IN  /\ check_common_order_limits(price, quantity)
           /\ client.open_orders <= MaxOpenOrders
           /\ saturating_add(MinusOrZero(client.gross_open_quantity,
                                         existing.remaining_quantity), quantity)
                 <= MaxOpenQuantity
           /\ ~position_limit_exceeded(state.position, existing.side, quantity,
                                       Released(state.open_buy_quantity, "Buy"),
                                       Released(state.open_sell_quantity, "Sell"))

-----------------------------------------------------------------------------
(* Updates *)

\* r with new counters for the client and the symbol of an order, and new working
\* orders.
Update(r, key, client, symbol, working_orders) ==
    [global_kill_switch |-> r.global_kill_switch,
     clients |-> [r.clients EXCEPT ![key.client] = client],
     symbols |-> [r.symbols EXCEPT ![key.client][key.symbol] = symbol],
     working_orders |-> working_orders]

\* Mutant of Release: a filled order still counts as open.
Release_keeps_count(r, key, side, quantity, orders, working_orders) ==
    LET client == r.clients[key.client]
        symbol == r.symbols[key.client][key.symbol]
        Less(open, s) == IF side = s THEN MinusOrZero(open, quantity) ELSE open
    IN  Update(r, key,
            [kill_switch |-> client.kill_switch, open_orders |-> client.open_orders,
             gross_open_quantity |-> MinusOrZero(client.gross_open_quantity, quantity)],
            [position |-> symbol.position,
             open_buy_quantity |-> Less(symbol.open_buy_quantity, "Buy"),
             open_sell_quantity |-> Less(symbol.open_sell_quantity, "Sell")],
            working_orders)

\* quantity leaves the open quantities of the order's client and symbol, and
\* orders leave the count of open orders.
Release(r, key, side, quantity, orders, working_orders) ==
    LET client == r.clients[key.client]
        symbol == r.symbols[key.client][key.symbol]
        Less(open, s) == IF side = s THEN MinusOrZero(open, quantity) ELSE open
    IN  Update(r, key,
            [kill_switch |-> client.kill_switch,
             open_orders |-> MinusOrZero(client.open_orders, orders),
             gross_open_quantity |-> MinusOrZero(client.gross_open_quantity, quantity)],
            [position |-> symbol.position,
             open_buy_quantity |-> Less(symbol.open_buy_quantity, "Buy"),
             open_sell_quantity |-> Less(symbol.open_sell_quantity, "Sell")],
            working_orders)

erase_working_order(r, key) ==
    IF key \notin DOMAIN r.working_orders THEN r
    ELSE LET order == r.working_orders[key]
         IN  Release(r, key, order.side, order.remaining_quantity, 1,
                     Erase(r.working_orders, key))

on_order_cancelled(r, key) == erase_working_order(r, key)

\* The order is counted as open.
Book(r, key, side, quantity) ==
    LET client == r.clients[key.client]
        symbol == r.symbols[key.client][key.symbol]
        More(open, s) == IF side = s THEN saturating_add(open, quantity) ELSE open
    IN  Update(r, key,
            [kill_switch |-> client.kill_switch, open_orders |-> client.open_orders + 1,
             gross_open_quantity |-> saturating_add(client.gross_open_quantity, quantity)],
            [position |-> symbol.position,
             open_buy_quantity |-> More(symbol.open_buy_quantity, "Buy"),
             open_sell_quantity |-> More(symbol.open_sell_quantity, "Sell")],
            Put(r.working_orders, key, [side |-> side, remaining_quantity |-> quantity]))

on_order_resting(r, key, side, quantity) ==
    Book(erase_working_order(r, key), key, side, quantity)

\* The working orders once an order has this much left; one that is filled is dropped.
Left(working_orders, key, quantity) ==
    IF quantity = 0 THEN Erase(working_orders, key)
    ELSE Put(working_orders, key,
             [side |-> working_orders[key].side, remaining_quantity |-> quantity])

\* Mutant of reduce_working_order: an order that is filled stays in the map.
reduce_working_order_keeps(r, key, executed) ==
    IF key \notin DOMAIN r.working_orders THEN r
    ELSE LET order == r.working_orders[key]
             left == order.remaining_quantity - executed
         IN  Release(r, key, order.side, executed, IF left = 0 THEN 1 ELSE 0,
                     Put(r.working_orders, key,
                         [side |-> order.side, remaining_quantity |-> left]))

\* What is executed leaves the working order.
reduce_working_order(r, key, executed) ==
    IF key \notin DOMAIN r.working_orders THEN r
    ELSE LET order == r.working_orders[key]
             reduction == IF order.remaining_quantity < executed
                          THEN order.remaining_quantity ELSE executed
             left == order.remaining_quantity - reduction
         IN  Release(r, key, order.side, reduction, IF left = 0 THEN 1 ELSE 0,
                     Left(r.working_orders, key, left))

apply_position_delta(position, side, quantity) ==
    IF side = "Buy"
    THEN IF position > PositionMax - quantity THEN PositionMax ELSE position + quantity
    ELSE IF position < -PositionMax - 1 + quantity THEN -PositionMax - 1 ELSE position - quantity

\* One side of a trade; nothing is kept for an order without an owner.
TradeSide(r, key, side, quantity) ==
    IF key.client = NoClient THEN r
    ELSE reduce_working_order(
             [r EXCEPT !.symbols[key.client][key.symbol].position =
                  apply_position_delta(@, side, quantity)],
             key, quantity)

on_trade(r, buyer, seller, quantity) ==
    TradeSide(TradeSide(r, buyer, "Buy", quantity), seller, "Sell", quantity)

-----------------------------------------------------------------------------
(* The server's calls *)

\* The engine of a process that has just started; nothing of it is persistent.
EmptyRisk ==
    [global_kill_switch |-> FALSE,
     clients |-> [c \in Client |-> [kill_switch |-> FALSE, open_orders |-> 0,
                                    gross_open_quantity |-> 0]],
     symbols |-> [c \in Client |-> [s \in Symbol |->
                     [position |-> 0, open_buy_quantity |-> 0, open_sell_quantity |-> 0]]],
     working_orders |-> EmptyMap]

Init ==
    /\ risk = EmptyRisk
    /\ resting = EmptyMap
    /\ command = NoCommand

\* A new order that passes the checks; one that fails them changes nothing. The
\* server refuses an id that rests in the symbol's book, whoever owns it.
NewOrder(client, symbol, id, side, may_rest, notional_price, quantity) ==
    /\ command = NoCommand
    /\ \A k \in DOMAIN resting : ~(k.symbol = symbol /\ k.id = id)
    /\ check_new_order(risk, client, symbol, side, may_rest, notional_price, quantity)
    /\ command' = [key |-> [client |-> client, symbol |-> symbol, id |-> id],
                   side |-> side, may_rest |-> may_rest, remaining |-> quantity]
    /\ UNCHANGED <<risk, resting>>

\* A replacement that passes the checks: the old order leaves book and risk
\* before the new one is matched.
Replace(key, price, quantity) ==
    /\ command = NoCommand
    /\ key \in DOMAIN resting
    /\ check_replace(risk, key, price, quantity)
    /\ command' = [key |-> key, side |-> resting[key].side, may_rest |-> TRUE,
                   remaining |-> quantity]
    /\ risk' = on_order_cancelled(risk, key)
    /\ resting' = Erase(resting, key)

\* The command trades with a resting order, which leaves the book when it is filled.
Trade(other) ==
    /\ command # NoCommand
    /\ resting[other].side # command.side
    /\ other.symbol = command.key.symbol
    /\ command.remaining > 0
    /\ LET left == resting[other].remaining_quantity
           quantity == IF left < command.remaining THEN left ELSE command.remaining
           buying == command.side = "Buy"
       IN  /\ risk' = on_trade(risk, IF buying THEN command.key ELSE other,
                               IF buying THEN other ELSE command.key, quantity)
           /\ resting' = IF left = quantity THEN Erase(resting, other)
                         ELSE [resting EXCEPT ![other].remaining_quantity = @ - quantity]
           /\ command' = [command EXCEPT !.remaining = @ - quantity]

\* The command trades with an order that nobody owns.
TradeUnowned(id, quantity) ==
    /\ command # NoCommand
    /\ quantity <= command.remaining
    /\ LET unowned == [client |-> NoClient, symbol |-> command.key.symbol, id |-> id]
       IN  risk' = IF command.side = "Buy" THEN on_trade(risk, command.key, unowned, quantity)
                   ELSE on_trade(risk, unowned, command.key, quantity)
    /\ command' = [command EXCEPT !.remaining = @ - quantity]
    /\ UNCHANGED resting

\* The end of a command: what is left rests if it may, and is dropped otherwise.
Finish ==
    /\ command # NoCommand
    /\ IF command.may_rest /\ command.remaining > 0
       THEN /\ risk' = on_order_resting(risk, command.key, command.side, command.remaining)
            /\ resting' = Put(resting, command.key,
                              [side |-> command.side, remaining_quantity |-> command.remaining])
       ELSE UNCHANGED <<risk, resting>>
    /\ command' = NoCommand

\* Cancels pass no check.
Cancel(key) ==
    /\ command = NoCommand
    /\ key \in DOMAIN resting
    /\ risk' = on_order_cancelled(risk, key)
    /\ resting' = Erase(resting, key)
    /\ UNCHANGED command

set_global_kill_switch(enabled) ==
    /\ command = NoCommand
    /\ risk' = [risk EXCEPT !.global_kill_switch = enabled]
    /\ UNCHANGED <<resting, command>>

set_client_kill_switch(client, enabled) ==
    /\ command = NoCommand
    /\ risk' = [risk EXCEPT !.clients[client].kill_switch = enabled]
    /\ UNCHANGED <<resting, command>>

Next ==
    \/ \E c \in Client : \E s \in Traded[c], id \in OrderId, side \in Side,
          may_rest \in BOOLEAN, p \in Price, q \in 1 .. MaxQuantity :
            NewOrder(c, s, id, side, may_rest, p, q)
    \/ \E key \in DOMAIN resting, p \in Price, q \in 1 .. MaxQuantity : Replace(key, p, q)
    \/ \E other \in DOMAIN resting : Trade(other)
    \/ \E id \in OrderId, q \in 1 .. MaxQuantity : TradeUnowned(id, q)
    \/ Finish
    \/ \E key \in DOMAIN resting : Cancel(key)
    \/ \E enabled \in BOOLEAN : set_global_kill_switch(enabled)
    \/ \E c \in Client, enabled \in BOOLEAN : set_client_kill_switch(c, enabled)

Spec == Init /\ [][Next]_vars

-----------------------------------------------------------------------------
(* Properties *)

TypeOK ==
    /\ risk = [global_kill_switch |-> risk.global_kill_switch, clients |-> risk.clients,
               symbols |-> risk.symbols, working_orders |-> risk.working_orders]
    /\ [global_kill_switch |-> risk.global_kill_switch, clients |-> risk.clients,
        symbols |-> risk.symbols] \in RiskState
    /\ IsMap(risk.working_orders, OrderKey, WorkingOrder)
    /\ IsMap(resting, OrderKey, WorkingOrder)
    /\ command \in [key : OrderKey, side : Side, may_rest : BOOLEAN, remaining : Counter]
                     \cup {NoCommand}

\* The orders of a client that rest, in one symbol, on one side.
RestingOf(c) == {k \in DOMAIN resting : k.client = c}
RestingSide(c, s, side) ==
    {k \in RestingOf(c) : k.symbol = s /\ resting[k].side = side}

OpenQuantity(keys) == SumOver([k \in DOMAIN resting |-> resting[k].remaining_quantity], keys)

\* Risk and book never drift apart: through partial fills, self-trades, cancels and
\* replaces the working orders and the counters are those of the book.
CountersMatchBook ==
    /\ risk.working_orders = resting
    /\ \A c \in Client :
          /\ risk.clients[c].open_orders = Cardinality(RestingOf(c))
          /\ risk.clients[c].gross_open_quantity = OpenQuantity(RestingOf(c))
          /\ \A s \in Symbol :
                /\ risk.symbols[c][s].open_buy_quantity = OpenQuantity(RestingSide(c, s, "Buy"))
                /\ risk.symbols[c][s].open_sell_quantity = OpenQuantity(RestingSide(c, s, "Sell"))

\* What the command in progress may still add to a client's exposure.
Pending(c, s, side) ==
    IF /\ command # NoCommand
       /\ command.key.client = c /\ command.key.symbol = s /\ command.side = side
    THEN command.remaining ELSE 0

\* The farthest that a client's position can go if everything of a side is filled.
WorstLong(c, s) ==
    risk.symbols[c][s].position + risk.symbols[c][s].open_buy_quantity + Pending(c, s, "Buy")
WorstShort(c, s) ==
    risk.symbols[c][s].open_sell_quantity + Pending(c, s, "Sell") - risk.symbols[c][s].position

\* "Projected position including resting exposure": whatever fills happen later,
\* of whichever orders, no position can pass the limit.
PositionStaysWithinLimit ==
    \A c \in Client, s \in Symbol : WorstLong(c, s) <= MaxPosition /\ WorstShort(c, s) <= MaxPosition

\* "Maximum open orders per session", "Aggregate working quantity": what a client
\* has in all the books together stays within the limits, also by replacing.
OpenOrdersWithinLimits ==
    \A c \in Client : /\ risk.clients[c].open_orders <= MaxOpenOrders
                      /\ risk.clients[c].gross_open_quantity <= MaxOpenQuantity

\* "so exposure can be reduced": a step made while a client is stopped never
\* raises what its position could come to.
KilledExposureOnlyShrinks ==
    [][\A c \in Client, s \in Symbol :
          Killed(risk, c) /\ Killed(risk, c)' =>
              WorstLong(c, s)' <= WorstLong(c, s) /\ WorstShort(c, s)' <= WorstShort(c, s)]_vars
=============================================================================
