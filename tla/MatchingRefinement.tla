------------------------- MODULE MatchingRefinement -------------------------
(***************************************************************************)
(* How the matching engine implements the price-time priority market: the  *)
(* waiting orders are read off the index, and who is ahead of whom off the *)
(* positions in the lists.                                                 *)
(***************************************************************************)
EXTENDS MatchingEngine

\* The list in which a resting order waits, and its position there.
LineOf(b, id) == OrdersAt(b, b.order_locations[id].side, b.order_locations[id].price)
PlaceOf(b, id) == CHOOSE i \in DOMAIN LineOf(b, id) : LineOf(b, id)[i].id = id

WaitingIn(b) ==
    [id \in DOMAIN b.order_locations |->
        [side |-> b.order_locations[id].side, price |-> b.order_locations[id].price,
         left |-> LineOf(b, id)[PlaceOf(b, id)].remaining_quantity]]

AheadIn(b) ==
    [id \in DOMAIN b.order_locations |->
        {LineOf(b, id)[i].id : i \in 1 .. PlaceOf(b, id) - 1}]

TakerOf(o) ==
    [id |-> o.id, side |-> o.side, kind |-> <<o.type, o.time_in_force>>,
     price |-> o.price, left |-> o.remaining_quantity]

AbstractTaker == IF incoming = NoOrder THEN NoOrder ELSE TakerOf(incoming)

AbstractFills ==
    [i \in DOMAIN trades |-> <<trades[i].buy_order_id, trades[i].sell_order_id,
                               trades[i].price, trades[i].quantity>>]

\* The absent order is not an order of the market either.
ASSUME NoTakerAssumption ==
    NoOrder \notin [id : OrderId, side : Side, kind : OrderType \X TimeInForce,
                    price : Price, left : Quantity]

Market == INSTANCE PriceTimeBook WITH
    waiting <- WaitingIn(book), ahead <- AheadIn(book), taker <- AbstractTaker,
    fills <- AbstractFills, matching <- status = "matching"

\* Price-time priority: every step of the engine, with its levels, lists, index and
\* totals, is a step of a market in which the first in line at the best price
\* trades, a replaced order goes to the end of the line, and a fill-or-kill
\* order is killed exactly when too little is waiting for it.
ImplementsPriceTimePriority == Market!Spec
=============================================================================
