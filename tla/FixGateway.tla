----------------------------- MODULE FixGateway -----------------------------
(***************************************************************************)
(* One session of the FIX gateway between its FIX client and the exchange. *)
(* The gateway gives every order a number, forwards requests on a TCP      *)
(* connection of its own and turns what comes back into execution reports. *)
(* Requests and answers cross on that connection.                          *)
(*                                                                         *)
(* The exchange is abstracted to what it may do with the session's orders: *)
(* it handles a request at a time, sends what the request leads to in one  *)
(* piece (response, executions, book update, as its journal mutex makes it *)
(* do), and trades resting orders with whatever else comes in. Prices and  *)
(* symbols do not matter for that. Level-3 events, which the gateway skips,*)
(* and outbound sequence numbers are left out. So are executions of orders *)
(* that an earlier client left behind under the same socket number.        *)
(***************************************************************************)
EXTENDS Maps, Sums, Integers, FiniteSets, Sequences, FiniteSetsExt

CONSTANTS
    NewOrderSingle,   \* bound: the orders that the client enters
    MaxQuantity,      \* bound on the quantity of a replacement
    MaxOrders,        \* bound on the numbers that the gateway gives to orders
    MaxRequests       \* bound on the requests of the client

ASSUME FixBoundsAssumption == {MaxQuantity, MaxOrders, MaxRequests} \subseteq Nat \ {0}

OrderId == 1 .. MaxOrders
ClOrdId == 1 .. MaxRequests
Other == 0     \* number of a resting order of somebody else

Side == {"Buy", "Sell"}
Opposite(side) == IF side = "Buy" THEN "Sell" ELSE "Buy"

OrderType == {"Limit", "Market"}
TimeInForce == {"GoodTillCancel", "ImmediateOrCancel", "FillOrKill"}

ASSUME NewOrderAssumption ==
    NewOrderSingle \subseteq
        [side : Side, order_type : OrderType, time_in_force : TimeInForce, quantity : Nat \ {0}]

VARIABLES
    phase,                       \* of the session: connected, logged_on, closed
    next_numeric_order_id,
    orders,                      \* order number -> OrderState
    clord_to_order,              \* ClOrdID -> order number
    used_clord_ids,
    pending,                     \* order number -> requests under way, oldest first
    non_resting_awaiting_boundary,
    self_trade,                  \* last self trade, and whether its copy is to come
    to_core, from_core,          \* the two directions of the connection
    core_up,                     \* the exchange has the connection open
    core,                        \* order number -> side and quantity left in the book
    executed,                    \* order number -> quantity that it has traded
    verdict,                     \* ClOrdID -> what the exchange decided
    answer,                      \* ClOrdID -> what the client was told
    overtaken                    \* orders that traded while a replace was under way

requestVars == <<clord_to_order, used_clord_ids, pending, answer>>
trackVars == <<non_resting_awaiting_boundary, self_trade, overtaken>>
coreVars == <<core_up, core, executed, verdict>>
vars == <<phase, next_numeric_order_id, orders, requestVars,
          trackVars, to_core, from_core, coreVars>>

OrderState ==
    [side : Side, order_type : OrderType, time_in_force : TimeInForce,
     current_cl_ord_id : ClOrdId, order_quantity : Nat,
     cumulative_quantity : Nat, leaves_quantity : Nat,
     ord_status : {"new", "partially_filled", "filled", "canceled"}]

PendingRequest ==
    [kind : {"New", "Cancel", "Replace"}, cl_ord_id : ClOrdId, total : Nat, working : Nat]

Outcome == {"accepted", "rejected"}
NoTrade == [buy |-> Other, sell |-> Other, quantity |-> 0]

Init ==
    /\ phase = "connected"
    /\ next_numeric_order_id = 1
    /\ orders = EmptyMap
    /\ clord_to_order = EmptyMap
    /\ used_clord_ids = {}
    /\ pending = [id \in OrderId |-> <<>>]
    /\ non_resting_awaiting_boundary = {}
    /\ self_trade = [trade |-> NoTrade, ignore |-> FALSE]
    /\ to_core = <<>> /\ from_core = <<>>
    /\ core_up = TRUE
    /\ core = EmptyMap
    /\ executed = [id \in OrderId |-> 0]
    /\ verdict = EmptyMap /\ answer = EmptyMap
    /\ overtaken = {}

-----------------------------------------------------------------------------
(* Messages of the client. Heartbeats, test requests, messages out of sequence   *)
(* or without a required field, and whatever comes before the logon, are answered *)
(* on the spot and change nothing but the session's counters.                    *)

connect_to_exchange == core_up

\* process_fix_message, a logon: opens the connection to the exchange; when that
\* fails the session ends.
Logon ==
    /\ phase = "connected"
    /\ phase' = IF connect_to_exchange THEN "logged_on" ELSE "closed"
    /\ UNCHANGED <<next_numeric_order_id, orders, requestVars, trackVars, to_core, from_core,
                   coreVars>>

\* The client names requests in the order of ClOrdId, or uses the first name again.
ensure_unique_clordid(name) == name \notin used_clord_ids

Named(name) ==
    /\ phase = "logged_on"
    /\ name \in {1, Cardinality(used_clord_ids) + 1}
    /\ used_clord_ids' = used_clord_ids \cup {name}
    /\ UNCHANGED <<phase, trackVars, from_core, coreVars>>

\* What the client is told of a request.
Report(name, outcome) == answer' = Put(answer, name, outcome)

\* A reject on the spot; that of a name in use is no answer to its first request.
Reject(name) ==
    /\ IF ensure_unique_clordid(name) THEN Report(name, "rejected") ELSE UNCHANGED answer
    /\ UNCHANGED <<orders, clord_to_order, pending, to_core>>

\* A market order never rests, whatever its time in force.
may_rest(o) == o.order_type = "Limit" /\ o.time_in_force = "GoodTillCancel"

\* The request as the exchange reads it.
Sent(id, request, quantity) ==
    [id |-> id, kind |-> request.kind, cl_ord_id |-> request.cl_ord_id,
     side |-> orders'[id].side, rests |-> may_rest(orders'[id]), quantity |-> quantity]

\* Mutant of send_core_request: the request is not put among those under way.
send_core_request_unrecorded(id, request, quantity) ==
    /\ to_core' = IF core_up THEN Append(to_core, Sent(id, request, quantity)) ELSE to_core
    /\ UNCHANGED <<pending, answer>>

\* A request goes to the exchange; its response will be found by the order's number.
\* One that is sent before the gateway sees that the connection is closed is lost.
send_core_request(id, request, quantity) ==
    /\ pending' = [pending EXCEPT ![id] = Append(@, request)]
    /\ to_core' = IF core_up THEN Append(to_core, Sent(id, request, quantity)) ELSE to_core
    /\ UNCHANGED answer

\* A market order is good for now at most.
translate_new_order_single(o) ==
    [o EXCEPT !.time_in_force = IF may_rest(o) \/ @ # "GoodTillCancel" THEN @
                                ELSE "ImmediateOrCancel"]

\* A name in use, a field that cannot be translated and a send that fails are
\* rejected; the last two use up a number.
handle_new_order(name, o) ==
    LET id == next_numeric_order_id
        order == [side |-> o.side, order_type |-> o.order_type,
                  time_in_force |-> translate_new_order_single(o).time_in_force,
                  current_cl_ord_id |-> name, order_quantity |-> o.quantity,
                  cumulative_quantity |-> 0, leaves_quantity |-> o.quantity,
                  ord_status |-> "new"]
        request == [kind |-> "New", cl_ord_id |-> name, total |-> 0, working |-> 0]
    IN  /\ Named(name)
        /\ id \in OrderId
        /\ next_numeric_order_id' = IF ensure_unique_clordid(name) THEN id + 1 ELSE id
        /\ \/ /\ ensure_unique_clordid(name)
              /\ orders' = Put(orders, id, order)
              /\ clord_to_order' = Put(clord_to_order, name, id)
              /\ send_core_request(id, request, o.quantity)
           \/ Reject(name)

\* The order that a request of a new name refers to is known and still working.
Working(name, orig) ==
    /\ ensure_unique_clordid(name)
    /\ orig \in DOMAIN clord_to_order
    /\ clord_to_order[orig] \in DOMAIN orders
    /\ orders[clord_to_order[orig]].leaves_quantity > 0

handle_cancel(name, orig) ==
    LET request == [kind |-> "Cancel", cl_ord_id |-> name, total |-> 0, working |-> 0]
    IN  /\ Named(name)
        /\ UNCHANGED next_numeric_order_id
        /\ \/ /\ Working(name, orig)
              /\ UNCHANGED <<orders, clord_to_order>>
              /\ send_core_request(clord_to_order[orig], request, 0)
           \/ /\ Working(name, orig) => ~core_up
              /\ Reject(name)

\* Mutant of working_quantity: what has been filled is not taken off.
working_quantity_total(order, total) == total

\* What a replacement to a total quantity asks the exchange for: the rest of it.
working_quantity(order, total) == total - order.cumulative_quantity

\* Mutant of MayReplace: the quantity is not compared with what has been filled.
MayReplace_unchecked(order, total) == order.order_type = "Limit"

\* Only a limit order, and only to more than what has been filled.
MayReplace(order, total) == order.order_type = "Limit" /\ total > order.cumulative_quantity

\* The quantity of the message is that of the whole order, fills included. A message
\* may be rejected for its price, symbol or side as well.
handle_replace(name, orig, total) ==
    LET id == clord_to_order[orig]
        working == working_quantity(orders[id], total)
        request == [kind |-> "Replace", cl_ord_id |-> name, total |-> total,
                    working |-> working]
    IN  /\ Named(name)
        /\ UNCHANGED next_numeric_order_id
        /\ \/ /\ Working(name, orig)
              /\ MayReplace(orders[id], total)
              /\ UNCHANGED <<orders, clord_to_order>>
              /\ send_core_request(id, request, working)
           \/ Reject(name)

-----------------------------------------------------------------------------
(* Messages of the exchange *)

\* The next message, taken off the connection. Copies of a trade are next to each other,
\* and stand there as one message with their number.
extract_core_message ==
    /\ from_core # <<>>
    /\ from_core' = IF Head(from_core).kind = "trade" /\ Head(from_core).copies > 1
                    THEN <<[Head(from_core) EXCEPT !.copies = @ - 1]>> \o Tail(from_core)
                    ELSE Tail(from_core)

Receive(kind) ==
    /\ phase = "logged_on"
    /\ extract_core_message
    /\ Head(from_core).kind = kind
    /\ UNCHANGED <<phase, next_numeric_order_id, used_clord_ids,
                   to_core, coreVars>>

\* Mutant of Respond: the refusal of a cancel is taken for a cancel.
Respond_cancels(order, request, success) ==
    IF request.kind = "Cancel"
    THEN [order EXCEPT !.leaves_quantity = 0, !.ord_status = "canceled"]
    ELSE order

\* What a response does to the order that it is about.
Respond(order, request, success) ==
    IF ~success THEN order
    ELSE CASE request.kind = "New" -> [order EXCEPT !.ord_status = "new"]
           [] request.kind = "Cancel" ->
                [order EXCEPT !.leaves_quantity = 0, !.ord_status = "canceled"]
           [] request.kind = "Replace" ->
                [order EXCEPT !.current_cl_ord_id = request.cl_ord_id,
                              !.order_quantity = request.total,
                              !.leaves_quantity = request.working,
                              !.ord_status = IF order.cumulative_quantity = 0 THEN "new"
                                             ELSE "partially_filled"]

\* Mutant of NewNames: the name of a replacement is not entered.
NewNames_none(id, request, success) == clord_to_order

\* The names after a response: a rejected order loses its own, a replacement is known
\* by both.
NewNames(id, request, success) ==
    CASE request.kind = "New" /\ ~success -> Erase(clord_to_order, orders[id].current_cl_ord_id)
      [] request.kind = "Replace" /\ success -> Put(clord_to_order, request.cl_ord_id, id)
      [] OTHER -> clord_to_order

\* Responses come in the order of the requests. A response that nobody waits for is
\* skipped; a request for an order that was rejected meanwhile goes unanswered.
handle_core_order_response ==
    LET id == Head(from_core).id
        success == Head(from_core).success
        request == Head(pending[id])
    IN  /\ Receive("response")
        /\ pending' = [pending EXCEPT ![id] = IF @ = <<>> THEN <<>> ELSE Tail(@)]
        /\ IF pending[id] = <<>>
           THEN UNCHANGED <<orders, clord_to_order, answer, non_resting_awaiting_boundary>>
           ELSE IF id \notin DOMAIN orders
           THEN /\ Report(request.cl_ord_id, "silence")
                /\ UNCHANGED <<orders, clord_to_order, non_resting_awaiting_boundary>>
           ELSE /\ Report(request.cl_ord_id, IF success THEN "accepted" ELSE "rejected")
                /\ clord_to_order' = NewNames(id, request, success)
                /\ orders' = IF request.kind = "New" /\ ~success THEN Erase(orders, id)
                             ELSE Put(orders, id, Respond(orders[id], request, success))
                /\ non_resting_awaiting_boundary' =
                      non_resting_awaiting_boundary \cup
                          {i \in {id} : request.kind = "New" /\ success /\ ~may_rest(orders[i])}
        /\ UNCHANGED <<self_trade, overtaken>>

apply_trade_to_order(order, traded) ==
    LET quantity == Min({order.leaves_quantity, traded})
    IN  [order EXCEPT !.cumulative_quantity = @ + quantity,
                      !.leaves_quantity = @ - quantity,
                      !.ord_status = IF order.leaves_quantity = quantity THEN "filled"
                                     ELSE "partially_filled"]

\* handle_core_trade. The exchange sends a trade to its buyer and to its seller: when
\* both are here the second message is a copy.
handle_core_trade ==
    LET trade == Head(from_core).trade
        mine == {trade.buy, trade.sell} \cap DOMAIN orders
        both == Cardinality(mine) = 2
        copy == both /\ self_trade.ignore /\ self_trade.trade = trade
    IN  /\ Receive("trade")
        /\ IF copy
           THEN /\ self_trade' = [self_trade EXCEPT !.ignore = FALSE]
                /\ UNCHANGED <<orders, overtaken>>
           ELSE /\ orders' = [id \in DOMAIN orders |->
                                IF id \in mine
                                THEN apply_trade_to_order(orders[id], trade.quantity)
                                ELSE orders[id]]
                /\ self_trade' = IF both THEN [trade |-> trade, ignore |-> TRUE]
                                 ELSE self_trade
                /\ overtaken' = overtaken \cup
                      {id \in mine : \E i \in DOMAIN pending[id] :
                                         pending[id][i].kind = "Replace"}
        /\ UNCHANGED <<clord_to_order, pending, answer, non_resting_awaiting_boundary>>

\* A book update: what is left of an order that does not rest is canceled.
finalize_non_resting_orders ==
    /\ Receive("book_update")
    /\ orders' = [id \in DOMAIN orders |->
                    IF id \in non_resting_awaiting_boundary /\ orders[id].leaves_quantity > 0
                    THEN [orders[id] EXCEPT !.leaves_quantity = 0, !.ord_status = "canceled"]
                    ELSE orders[id]]
    /\ non_resting_awaiting_boundary' = {}
    /\ UNCHANGED <<clord_to_order, pending, answer, self_trade, overtaken>>

-----------------------------------------------------------------------------
(* The end of a session: its context is gone, its orders stay in the book of   *)
(* the exchange.                                                              *)

Close ==
    /\ phase' = "closed"
    /\ orders' = EmptyMap /\ clord_to_order' = EmptyMap /\ used_clord_ids' = {}
    /\ pending' = [id \in OrderId |-> <<>>] /\ answer' = EmptyMap
    /\ non_resting_awaiting_boundary' = {} /\ overtaken' = {}
    /\ self_trade' = [trade |-> NoTrade, ignore |-> FALSE]
    /\ to_core' = <<>> /\ from_core' = <<>> /\ verdict' = EmptyMap
    /\ UNCHANGED <<next_numeric_order_id, core_up, core, executed>>

\* The client logs out, hangs up or is silent for three heartbeats, its data is no FIX,
\* or a send to it fails.
ClientGone == phase # "closed" /\ Close

\* The exchange has hung up: what it has sent before may be read first, or be lost.
CoreGone == phase = "logged_on" /\ ~core_up /\ Close

-----------------------------------------------------------------------------
(* The exchange *)

\* The exchange closes the connection; what it has not read is lost.
CoreStops ==
    /\ core_up
    /\ phase # "closed"
    /\ core_up' = FALSE
    /\ to_core' = <<>>
    /\ UNCHANGED <<phase, next_numeric_order_id, orders,
                   requestVars, trackVars, from_core, core, executed, verdict>>

\* How much the fills at some places come to.
Traded(fills, places) == SumOver([i \in DOMAIN fills |-> fills[i].quantity], places)
TradedWith(fills, id) == Traded(fills, {i \in DOMAIN fills : fills[i].with = id})
Total(fills) == Traded(fills, DOMAIN fills)

\* The trades that an order may make as it comes in: with own orders of the other
\* side, as much as both have left, and with others. (More than prices and its time in force
\* allow.)
PossibleFills(id, side, quantity) ==
    LET own == {r \in DOMAIN core \ {id} : core[r].side = Opposite(side)}
        Fill == [with : own \cup {Other}, quantity : 1 .. quantity]
    IN  {fills \in UNION {[1 .. n -> Fill] : n \in 0 .. quantity} :
            /\ Total(fills) <= quantity
            /\ \A i \in DOMAIN fills : fills[i].with \in own =>
                  /\ fills[i].quantity = Min({core[fills[i].with].left,
                                              quantity - Traded(fills, 1 .. i - 1)})
                  /\ \A j \in 1 .. i - 1 : fills[j].with # fills[i].with}

\* A trade goes to the sockets of both orders: twice to this session when both are its
\* own.
TradeOf(id, side, fill) ==
    [kind |-> "trade",
     trade |-> [buy |-> IF side = "Buy" THEN id ELSE fill.with,
                sell |-> IF side = "Buy" THEN fill.with ELSE id,
                quantity |-> fill.quantity],
     copies |-> IF fill.with = Other THEN 1 ELSE 2]

Deliveries(id, side, fills) == [i \in DOMAIN fills |-> TradeOf(id, side, fills[i])]

\* What the exchange sends for one request.
CoreSends(id, success, trades) ==
    from_core' = from_core \o <<[kind |-> "response", id |-> id, success |-> success]>>
                   \o trades \o IF success THEN <<[kind |-> "book_update"]>> ELSE <<>>

\* Resting orders less what they have traded; those that are filled leave.
LessFilled(book, fills) ==
    [r \in {r \in DOMAIN book : book[r].left > TradedWith(fills, r)} |->
        [book[r] EXCEPT !.left = @ - TradedWith(fills, r)]]

\* The next request, with the exchange's decision.
CoreTakes(kind, success) ==
    /\ core_up /\ phase = "logged_on"
    /\ to_core # <<>>
    /\ Head(to_core).kind = kind
    /\ to_core' = Tail(to_core)
    /\ verdict' = Put(verdict, Head(to_core).cl_ord_id,
                      IF success THEN "accepted" ELSE "rejected")
    /\ UNCHANGED <<phase, next_numeric_order_id, orders,
                   requestVars, trackVars, core_up>>

CoreRejects(kind) ==
    /\ CoreTakes(kind, FALSE)
    /\ CoreSends(Head(to_core).id, FALSE, <<>>)
    /\ UNCHANGED <<core, executed>>

\* An order enters the book, new or replaced, and trades.
CoreMatches(id, side, rests, quantity) ==
    \E fills \in PossibleFills(id, side, quantity) :
        LET others == LessFilled(Erase(core, id), fills)
            left == quantity - Total(fills)
        IN  /\ CoreSends(id, TRUE, Deliveries(id, side, fills))
            /\ core' = IF rests /\ left > 0 THEN Put(others, id, [side |-> side, left |-> left])
                       ELSE others
            /\ executed' = [r \in OrderId |->
                              executed[r] + IF r = id THEN Total(fills)
                                            ELSE TradedWith(fills, r)]

CoreNewOrder ==
    LET request == Head(to_core)
    IN  \/ /\ CoreTakes("New", TRUE)
           /\ CoreMatches(request.id, request.side, request.rests, request.quantity)
        \/ CoreRejects("New")

CoreCancel ==
    LET id == Head(to_core).id
    IN  \/ /\ CoreTakes("Cancel", TRUE)
           /\ id \in DOMAIN core
           /\ core' = Erase(core, id)
           /\ CoreSends(id, TRUE, <<>>)
           /\ UNCHANGED executed
        \/ /\ CoreRejects("Cancel")
           /\ id \notin DOMAIN core

CoreReplace ==
    LET request == Head(to_core)
    IN  \/ /\ CoreTakes("Replace", TRUE)
           /\ request.id \in DOMAIN core
           /\ CoreMatches(request.id, core[request.id].side, TRUE, request.quantity)
        \/ CoreRejects("Replace")

\* Somebody's order comes in and trades with a resting one, or with none. An update
\* behind another one has no effect.
CoreOtherOrder ==
    /\ core_up /\ phase = "logged_on"
    /\ \/ /\ from_core = <<>>
          /\ from_core' = <<[kind |-> "book_update"]>>
          /\ UNCHANGED <<core, executed>>
       \/ \E id \in DOMAIN core : \E quantity \in 1 .. core[id].left :
             LET side == core[id].side
                 fill == [with |-> Other, quantity |-> quantity]
             IN  /\ from_core' = from_core \o <<TradeOf(id, side, fill),
                                                [kind |-> "book_update"]>>
                 /\ core' = LessFilled(core, <<[with |-> id, quantity |-> quantity]>>)
                 /\ executed' = [executed EXCEPT ![id] = @ + quantity]
    /\ UNCHANGED <<phase, next_numeric_order_id, orders,
                   requestVars, trackVars, to_core, core_up, verdict>>

Core == CoreNewOrder \/ CoreCancel \/ CoreReplace

process_core_message ==
    handle_core_order_response \/ handle_core_trade \/ finalize_non_resting_orders

\* The names that a request may refer to: those known, and one that is not.
OrigClOrdId(name) == DOMAIN clord_to_order \cup {name}

Next ==
    \/ Logon
    \/ \E name \in ClOrdId :
          \/ \E o \in NewOrderSingle : handle_new_order(name, o)
          \/ \E orig \in OrigClOrdId(name) : handle_cancel(name, orig)
          \/ \E orig \in OrigClOrdId(name), total \in 1 .. MaxQuantity :
                handle_replace(name, orig, total)
    \/ process_core_message
    \/ ClientGone \/ CoreGone
    \/ CoreStops \/ Core \/ CoreOtherOrder

Spec == Init /\ [][Next]_vars

\* The session's thread keeps polling, and the exchange keeps reading. The client and
\* the other traders need not do anything.
FairSpec == Spec /\ WF_vars(process_core_message \/ CoreGone) /\ WF_vars(Core)

-----------------------------------------------------------------------------
(* Properties *)

TypeOK ==
    /\ phase \in {"connected", "logged_on", "closed"}
    /\ next_numeric_order_id \in 1 .. MaxOrders + 1
    /\ IsMap(orders, OrderId, OrderState)
    /\ IsMap(clord_to_order, used_clord_ids, OrderId)
    /\ used_clord_ids \subseteq ClOrdId
    /\ pending \in [OrderId -> Seq(PendingRequest)]
    /\ non_resting_awaiting_boundary \subseteq OrderId
    /\ IsMap(answer, used_clord_ids, Outcome \cup {"silence"})

\* When nothing is under way on an open connection, CumQty is what the order has traded
\* and LeavesQty what is left of it in the book, through self trades, replaces and orders
\* that do not rest. And OrderQty = CumQty + LeavesQty for an order that works, unless a
\* trade came in while a replace was under way.
FillsReported ==
    phase = "logged_on" =>
        \A id \in DOMAIN orders :
            LET o == orders[id]
            IN  /\ core_up /\ to_core = <<>> /\ from_core = <<>> =>
                      /\ o.cumulative_quantity = executed[id]
                      /\ o.leaves_quantity = IF id \in DOMAIN core THEN core[id].left ELSE 0
                /\ o.leaves_quantity > 0 /\ id \notin overtaken =>
                      o.order_quantity = o.cumulative_quantity + o.leaves_quantity

\* The name under which an order was last reported leads to the order, so that the
\* client can always cancel it, and no name leads to an order that is gone.
CurrentNameWorks ==
    /\ \A id \in DOMAIN orders : /\ orders[id].current_cl_ord_id \in DOMAIN clord_to_order
                                 /\ clord_to_order[orders[id].current_cl_ord_id] = id
    /\ Range(clord_to_order) \subseteq DOMAIN orders

\* An order reported as filled or canceled stays so, whatever arrives later.
DoneIsDone ==
    [][phase' = "logged_on" =>
          \A id \in DOMAIN orders : orders[id].ord_status \in {"filled", "canceled"} =>
                                       id \in DOMAIN orders' /\ orders'[id] = orders[id]]_vars

\* As long as the session lives, the client is told what the exchange decided on each
\* of its requests; only a refusal may go unanswered, when the order itself was refused.
\* And no order that does not rest is left without the report that it is done.
EveryRequestAnswered ==
    \A name \in ClOrdId :
        name \in used_clord_ids ~>
            \/ phase = "closed"
            \/ /\ name \in DOMAIN answer
               /\ name \in DOMAIN verdict =>
                     \/ answer[name] = verdict[name]
                     \/ answer[name] = "silence" /\ verdict[name] = "rejected"
               /\ non_resting_awaiting_boundary = {}

\* "replacement OrderQty must exceed CumQty": as long as an order works, the quantity
\* that the client has given it is more than what has been filled.
QuantityExceedsFilled ==
    \A id \in DOMAIN orders :
        orders[id].leaves_quantity > 0 =>
            orders[id].order_quantity > orders[id].cumulative_quantity
=============================================================================
