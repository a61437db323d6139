--------------------------- MODULE MatchingEngine ---------------------------
(***************************************************************************)
(* MatchingEngine (matching_engine.hpp) over one order book, one call at a *)
(* time, as under the server's engine mutex. The matching loops of         *)
(* match_buy and match_sell are one action, one iteration per step, so     *)
(* every intermediate book is a state that the invariants speak about.     *)
(*                                                                         *)
(*   book      the order book                                              *)
(*   incoming  the order being processed, what is left of it when the call *)
(*             ends, NoOrder between calls                                 *)
(*   trades    the caller's trade buffer, which outlives the call          *)
(*   status    "matching" inside a call, then how it ended, "ready" once   *)
(*             it has returned                                             *)
(***************************************************************************)
EXTENDS OrderBook

CONSTANTS
    MaxQuantity,   \* bound on the quantity of an order that is entered
    NoOrder        \* no call is being made

ASSUME NoOrderAssumption == NoOrder \notin Order
ASSUME MaxQuantityAssumption == MaxQuantity \in 1 .. QuantityModulus - 1

VARIABLES book, incoming, trades, status

vars == <<book, incoming, trades, status>>

Trade == [buy_order_id : OrderId, sell_order_id : OrderId, price : Price, quantity : Quantity]

Status == {"ready", "matching", "done", "killed", "cancelled", "not_found",
           "invalid_argument", "logic_error"}

TypeOK ==
    /\ IsBook(book)
    /\ incoming \in Order \cup {NoOrder}
    /\ trades \in Seq(Trade)
    /\ status \in Status
    /\ status \in {"matching", "done", "killed"} => incoming \in Order

NewOrder(id, side, type, tif, price, quantity) ==
    [id |-> id, side |-> side, type |-> type, time_in_force |-> tif, price |-> price,
     initial_quantity |-> quantity, remaining_quantity |-> quantity]

Init ==
    /\ book = EmptyBook
    /\ incoming = NoOrder
    /\ trades = <<>>
    /\ status = "ready"

Idle == status = "ready"

-----------------------------------------------------------------------------

\* A market order entered without a time in force is taken as immediate-or-cancel.
Effective(o) ==
    IF o.type = "Market" /\ o.time_in_force = "GoodTillCancel"
    THEN [o EXCEPT !.time_in_force = "ImmediateOrCancel"]
    ELSE o

\* Mutant of StartProcessing: the trade buffer keeps what the last call left in it.
StartProcessing_keeps_trades(b, o) ==
    LET order == Effective(o)
    IN  /\ book' = b
        /\ incoming' = order
        /\ UNCHANGED trades
        /\ status' = IF /\ order.time_in_force = "FillOrKill"
                        /\ executable_quantity(b, order) < order.remaining_quantity
                     THEN "killed" ELSE "matching"

\* process_order_into up to its matching loop, on a book b that the caller may
\* have changed already (replace takes the order out first).
StartProcessing(b, o) ==
    LET order == Effective(o)
    IN  /\ book' = b
        /\ incoming' = order
        /\ trades' = <<>>
        /\ status' = IF /\ order.time_in_force = "FillOrKill"
                        /\ executable_quantity(b, order) < order.remaining_quantity
                     THEN "killed" ELSE "matching"

\* process_order_into is called with a new order.
ProcessOrder(id, side, type, tif, price, quantity) ==
    /\ Idle
    /\ StartProcessing(book, NewOrder(id, side, type, tif, price, quantity))

\* A quantity of zero: validate_incoming and replace_order_into throw, before the
\* trade buffer is cleared.
ProcessZeroQuantity ==
    /\ Idle
    /\ status' = "invalid_argument"
    /\ UNCHANGED <<book, incoming, trades>>

\* One iteration of the loop in match_buy / match_sell.
MatchStep ==
    /\ status = "matching"
    /\ incoming.remaining_quantity > 0
    /\ can_match(book, incoming)
    /\ \E p \in DOMAIN book.levels[Opposite(incoming.side)] :
          LET side == Opposite(incoming.side)
              resting == Head(book.levels[side][p].orders)
              quantity == IF incoming.remaining_quantity < resting.remaining_quantity
                          THEN incoming.remaining_quantity
                          ELSE resting.remaining_quantity
              buying == incoming.side = "Buy"
          IN  /\ IsBest(book, side, p)
              /\ trades' = Append(trades,
                               [buy_order_id |-> IF buying THEN incoming.id ELSE resting.id,
                                sell_order_id |-> IF buying THEN resting.id ELSE incoming.id,
                                price |-> p, quantity |-> quantity])
              /\ incoming' = [incoming EXCEPT !.remaining_quantity = @ - quantity]
              /\ book' = fill_front(book, side, p, quantity)
    /\ UNCHANGED status

\* Mutant of LoopDone: the loop looks for trades until the order is filled.
LoopDone_when_filled == status = "matching" /\ incoming.remaining_quantity = 0

LoopDone ==
    /\ status = "matching"
    /\ ~(incoming.remaining_quantity > 0 /\ can_match(book, incoming))

\* What is left of a good-till-cancel limit order rests in the book. An id that
\* rests already makes add_order throw, after the trades have been made.
Rest ==
    /\ LoopDone
    /\ incoming.remaining_quantity > 0 /\ may_rest(incoming)
    /\ IF contains(book, incoming.id)
       THEN status' = "invalid_argument" /\ UNCHANGED book
       ELSE status' = "done" /\ book' = add_order(book, incoming)
    /\ UNCHANGED <<incoming, trades>>

\* Nothing is left, or what is left may not rest and is dropped.
Complete ==
    /\ LoopDone
    /\ ~(incoming.remaining_quantity > 0 /\ may_rest(incoming))
    /\ status' = "done"
    /\ UNCHANGED <<book, incoming, trades>>

\* cancel_order does not touch the trade buffer.
CancelOrder(id) ==
    /\ Idle
    /\ \/ /\ ~contains(book, id)
          /\ status' = "not_found"
          /\ UNCHANGED book
       \/ /\ contains(book, id)
          /\ \E i \in 1 .. Len(book.levels[book.order_locations[id].side]
                                          [book.order_locations[id].price].orders) :
                /\ IsPosition(book, id, i)
                /\ IF erase_throws(book, id, i)
                   THEN status' = "logic_error" /\ UNCHANGED book
                   ELSE status' = "cancelled" /\ book' = extract_order(book, id, i)
    /\ UNCHANGED <<incoming, trades>>

\* replace_order_into: out of the book, then processed again as a new order with
\* the new price and quantity and everything else kept.
ReplaceOrder(id, price, quantity) ==
    /\ Idle
    /\ \/ /\ ~contains(book, id)
          /\ status' = "not_found"
          /\ trades' = <<>>
          /\ UNCHANGED <<book, incoming>>
       \/ /\ contains(book, id)
          /\ \E i \in 1 .. Len(book.levels[book.order_locations[id].side]
                                          [book.order_locations[id].price].orders) :
                LET existing == book.levels[book.order_locations[id].side]
                                           [book.order_locations[id].price].orders[i]
                IN  /\ IsPosition(book, id, i)
                    /\ IF erase_throws(book, id, i)
                       THEN /\ status' = "logic_error"
                            /\ trades' = <<>>
                            /\ UNCHANGED <<book, incoming>>
                       ELSE StartProcessing(extract_order(book, id, i),
                                [existing EXCEPT !.price = price,
                                                 !.initial_quantity = quantity,
                                                 !.remaining_quantity = quantity])

\* The call returns, or throws, to its caller.
Return ==
    /\ status \notin {"ready", "matching"}
    /\ status' = "ready"
    /\ incoming' = NoOrder
    /\ UNCHANGED <<book, trades>>

Next ==
    \/ \E id \in OrderId, side \in Side, type \in OrderType, tif \in TimeInForce,
          price \in Price, quantity \in 1 .. MaxQuantity :
            ProcessOrder(id, side, type, tif, price, quantity)
    \/ ProcessZeroQuantity
    \/ MatchStep
    \/ Rest
    \/ Complete
    \/ \E id \in OrderId : CancelOrder(id)
    \/ \E id \in OrderId, price \in Price, quantity \in 1 .. MaxQuantity :
            ReplaceOrder(id, price, quantity)
    \/ Return

Spec == Init /\ [][Next]_vars

\* A call that has been made runs to its end: the engine's thread is scheduled.
FairSpec == Spec /\ WF_vars(MatchStep \/ Rest \/ Complete \/ Return)

-----------------------------------------------------------------------------
(* Properties *)

RestingAt(s, p) == book.levels[s][p].orders

\* extract_order and remove_from_index keep index and lists in step: every index
\* entry names a level that holds the order, and every order of a level is
\* entered in the index under that level, once.
IndexMatchesLevels == IndexConsistent(book)

\* remove_best_*_if_empty and extract_order leave no level without orders:
\* best_bid and best_ask are prices at which somebody is waiting.
NoEmptyLevel == LevelsPopulated(book)

\* Matching goes on until the sides no longer cross: no bid is at or above an ask.
NotCrossed == Uncrossed(book)

\* What rests is an unfilled good-till-cancel limit order of the level's own side
\* and price, also after a replace.
OnlyRestableOrdersRest == OrdersRestable(book)

\* The running total of a level is the sum of its orders, as far as the width of
\* Quantity can tell, through adds, partial fills, cancels and replaces.
TotalsAreSums == TotalsConsistent(book)

TradedQuantity == SumOver([i \in DOMAIN trades |-> trades[i].quantity], DOMAIN trades)

\* Every unit of the incoming order is either in a trade or still remaining.
TradesAccountForIncoming ==
    status \in {"matching", "done", "killed"} =>
        incoming.initial_quantity = incoming.remaining_quantity + TradedQuantity

\* A fill-or-kill order trades its whole quantity or does not trade at all.
FillOrKillIsAllOrNothing ==
    /\ status = "killed" => trades = <<>>
    /\ status = "done" /\ incoming.time_in_force = "FillOrKill" =>
            incoming.remaining_quantity = 0

\* PriceLevel::erase says that a level's total always covers each of its orders:
\* its check "Price level quantity is inconsistent" never fires.
LevelQuantityConsistent == status # "logic_error"

\* A call that has been made returns.
CallsReturn == (status = "matching") ~> (status = "ready")
=============================================================================
