---------------------------- MODULE MCFixGateway ----------------------------
(* A session that enters orders of both sides, resting and not. *)
EXTENDS FixGateway

Entered(side, type, tif, quantity) ==
    [side |-> side, order_type |-> type, time_in_force |-> tif, quantity |-> quantity]

MCNewOrderSingle ==
    {Entered("Buy", "Limit", "GoodTillCancel", 2), Entered("Sell", "Limit", "GoodTillCancel", 1),
     Entered("Sell", "Market", "GoodTillCancel", 2)}
=============================================================================
