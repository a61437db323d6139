-------------------------- MODULE MCExchangeServer --------------------------
(* Two sockets, two order ids, limit orders at one price, of which those of    *)
(* each side rest or not, and replacements that move to a second price.        *)
EXTENDS ExchangeServer

CONSTANTS o1, o2

MCOrderId == {o1, o2}
MCPrice == 1 .. 2
MCSocket == 1 .. 2

Symmetry == Permutations(OrderId)

NewOrders(types, sides, prices, quantities) ==
    [type : {"NewOrder"}, id : OrderId, side : sides, order_type : types,
     time_in_force : {"GoodTillCancel"}, price : prices, quantity : quantities]

MCRequest ==
    NewOrders({"Limit"}, Side, {1}, 1 .. MaxQuantity)
      \cup NewOrders({"Market"}, {"Buy"}, {1}, {MaxQuantity})
      \cup [type : {"CancelOrder"}, id : OrderId]
      \cup [type : {"ReplaceOrder"}, id : OrderId, price : {2}, quantity : 1 .. MaxQuantity]
=============================================================================
