------------------------ MODULE MatchingEngineProofs ------------------------
(***************************************************************************)
(* The order book stays well formed and uncrossed in every state of the    *)
(* matching engine, inside the matching loop included; its totals are the  *)
(* sums of its orders and no quantity is lost; and the engine implements   *)
(* the price-time priority market. For every set of ids, prices and        *)
(* quantities.                                                             *)
(***************************************************************************)
EXTENDS MatchingRefinement, OrderBookProofs

\* The inductive invariant: a book is only uncrossed because it is well formed
\* (a level's orders are of its own side) and because the loop ran to its end
\* before an order rests.
IInv ==
    /\ TypeOK
    /\ WellFormed(book)
    /\ Uncrossed(book)

\* A book with fewer levels than an uncrossed one is uncrossed.
LEMMA FewerLevelsUncrossed ==
    ASSUME NEW b, NEW nb, Uncrossed(b),
           \A x \in Side : DOMAIN nb.levels[x] \subseteq DOMAIN b.levels[x]
    PROVE  Uncrossed(nb)
  BY DEF Uncrossed, Side

\* The empty book satisfies the invariant.
LEMMA InitIInv == Init => IInv
  <1> SUFFICES ASSUME Init PROVE IInv
    OBVIOUS
  <1>1. book = EmptyBook /\ incoming = NoOrder /\ trades = <<>> /\ status = "ready"
    BY DEF Init
  <1>2. book.levels = [s \in Side |-> [p \in {} |-> {}]]
        /\ book.order_locations = [i \in {} |-> {}]
        /\ book = [levels |-> book.levels, order_locations |-> book.order_locations]
    BY <1>1 DEF EmptyBook
  <1>3. \A s \in Side : DOMAIN book.levels[s] = {}
    BY <1>2
  <1>4. IsBook(book)
    <2>1. \A s \in Side : IsMap(book.levels[s], Price, PriceLevel)
      BY <1>2 DEF IsMap
    <2>2. IsMap(book.order_locations, OrderId, OrderLocation)
      BY <1>2 DEF IsMap
    <2> QED
      BY <1>2, <2>1, <2>2 DEF IsBook
  <1>5. \A s \in Side, p \in Price : OrdersAt(book, s, p) = <<>>
    BY <1>3 DEF OrdersAt
  <1>6. IndexConsistent(book)
    BY <1>2, <1>5 DEF IndexConsistent
  <1>7. OrdersRestable(book)
    BY <1>5 DEF OrdersRestable
  <1>8. LevelsPopulated(book) /\ Uncrossed(book)
    BY <1>3 DEF LevelsPopulated, Uncrossed, Side
  <1>9. TypeOK
    BY <1>1, <1>4 DEF TypeOK, Status
  <1> QED
    BY <1>4, <1>6, <1>7, <1>8, <1>9 DEF IInv, WellFormed

\* A call that starts on a well formed, uncrossed book.
LEMMA StartProcessingKeepsIInv ==
    ASSUME NEW b, WellFormed(b), Uncrossed(b), NEW o \in Order, StartProcessing(b, o)
    PROVE  IInv'
  <1>1. Effective(o) \in Order
    BY DEF Effective, Order, TimeInForce
  <1>2. book' = b /\ incoming' \in Order /\ trades' = <<>>
        /\ status' \in {"killed", "matching"}
    BY <1>1 DEF StartProcessing
  <1>3. TypeOK'
    BY <1>2 DEF TypeOK, Status, WellFormed
  <1> QED
    BY <1>2, <1>3 DEF IInv

\* A best level crosses when any level does.
LEMMA BestCrosses ==
    ASSUME NEW b, IsBook(b), NEW o \in Order, can_match(b, o),
           NEW p \in DOMAIN b.levels[Opposite(o.side)], IsBest(b, Opposite(o.side), p)
    PROVE  Crosses(o, p)
  <1>1. PICK q \in DOMAIN b.levels[Opposite(o.side)] : Crosses(o, q)
    BY DEF can_match
  <1>2. Opposite(o.side) \in Side /\ o.side \in Side /\ o.price \in Int
    BY PriceAssumption DEF Opposite, Side, Order
  <1>3. p \in Int /\ q \in Int
    BY <1>2, PriceAssumption DEF IsBook, IsMap
  <1>4. CASE o.side = "Buy"
    <2>1. p <= q
      BY <1>3, <1>4 DEF IsBest, Opposite
    <2> QED
      BY <1>1, <1>2, <1>3, <1>4, <2>1 DEF Crosses
  <1>5. CASE o.side # "Buy"
    <2>1. q <= p
      BY <1>3, <1>5 DEF IsBest, Opposite
    <2> QED
      BY <1>1, <1>2, <1>3, <1>5, <2>1 DEF Crosses
  <1> QED
    BY <1>4, <1>5

\* The trade that an iteration makes with the front order of level p.
TradeWith(p, quantity) ==
    LET resting == OrdersAt(book, Opposite(incoming.side), p)[1]
        buying == incoming.side = "Buy"
    IN  [buy_order_id |-> IF buying THEN incoming.id ELSE resting.id,
         sell_order_id |-> IF buying THEN resting.id ELSE incoming.id,
         price |-> p, quantity |-> quantity]

\* An iteration that fills the front order of level p by a quantity.
FillsAt(p, quantity) ==
    LET side == Opposite(incoming.side)
        resting == OrdersAt(book, side, p)[1]
    IN  /\ IsBest(book, side, p)
        /\ Crosses(incoming, p)
        /\ quantity = IF incoming.remaining_quantity < resting.remaining_quantity
                      THEN incoming.remaining_quantity ELSE resting.remaining_quantity
        /\ quantity \in Quantity
        /\ quantity \in 1 .. Head(book.levels[side][p].orders).remaining_quantity
        /\ incoming.remaining_quantity - quantity \in Quantity
        /\ trades' = Append(trades, TradeWith(p, quantity))
        /\ TradeWith(p, quantity) \in Trade
        /\ incoming' = [incoming EXCEPT !.remaining_quantity = @ - quantity]
        /\ incoming' \in Order
        /\ book' = fill_front(book, side, p, quantity)

\* What an iteration of the matching loop does, and that its numbers are in range.
LEMMA MatchStepFills ==
    ASSUME IInv, MatchStep
    PROVE  /\ incoming \in Order /\ status = "matching" /\ status' = status
           /\ incoming.remaining_quantity > 0 /\ trades \in Seq(Trade)
           /\ Opposite(incoming.side) \in Side
           /\ \E p \in DOMAIN book.levels[Opposite(incoming.side)] :
                 \E quantity \in Nat : FillsAt(p, quantity)
  <1>0. TypeOK /\ WellFormed(book) /\ IsBook(book)
    BY DEF IInv, WellFormed
  <1>1. incoming \in Order /\ status = "matching" /\ status' = status
        /\ incoming.remaining_quantity > 0 /\ trades \in Seq(Trade) /\ can_match(book, incoming)
    BY <1>0 DEF MatchStep, TypeOK
  <1> DEFINE side == Opposite(incoming.side)
  <1>2. side \in Side
    BY DEF Opposite, Side
  <1>3. PICK p \in DOMAIN book.levels[side] :
          LET resting == Head(book.levels[side][p].orders)
              quantity == IF incoming.remaining_quantity < resting.remaining_quantity
                          THEN incoming.remaining_quantity ELSE resting.remaining_quantity
              buying == incoming.side = "Buy"
          IN  /\ IsBest(book, side, p)
              /\ trades' = Append(trades,
                              [buy_order_id |-> IF buying THEN incoming.id ELSE resting.id,
                               sell_order_id |-> IF buying THEN resting.id ELSE incoming.id,
                               price |-> p, quantity |-> quantity])
              /\ incoming' = [incoming EXCEPT !.remaining_quantity = @ - quantity]
              /\ book' = fill_front(book, side, p, quantity)
    BY DEF MatchStep
  <1> DEFINE orders == book.levels[side][p].orders
             resting == Head(orders)
             quantity == IF incoming.remaining_quantity < resting.remaining_quantity
                         THEN incoming.remaining_quantity ELSE resting.remaining_quantity
  <1>4. /\ p \in Price /\ orders = OrdersAt(book, side, p)
        /\ resting = OrdersAt(book, side, p)[1]
        /\ resting \in Order /\ resting.remaining_quantity > 0
    BY <1>0, <1>2, FrontFacts
  <1>5. Crosses(incoming, p)
    BY <1>0, <1>1, <1>3, BestCrosses
  <1> HIDE DEF resting
  <1>6. /\ incoming.remaining_quantity \in Quantity /\ resting.remaining_quantity \in Quantity
        /\ resting.id \in OrderId /\ incoming.id \in OrderId
    BY <1>1, <1>4 DEF Order
  <1>7. /\ quantity \in 1 .. resting.remaining_quantity
        /\ quantity \in Quantity /\ quantity \in Nat
        /\ incoming.remaining_quantity - quantity \in Quantity
    BY <1>1, <1>4, <1>6, ModulusAssumption DEF Quantity
  <1>8. /\ trades' = Append(trades, TradeWith(p, quantity))
        /\ incoming' = [incoming EXCEPT !.remaining_quantity = @ - quantity]
        /\ book' = fill_front(book, side, p, quantity)
    BY <1>3, <1>4 DEF resting, TradeWith
  <1>9. /\ quantity \in 1 .. Head(book.levels[side][p].orders).remaining_quantity
        /\ quantity = IF incoming.remaining_quantity
                            < OrdersAt(book, side, p)[1].remaining_quantity
                      THEN incoming.remaining_quantity
                      ELSE OrdersAt(book, side, p)[1].remaining_quantity
    BY <1>4, <1>7 DEF resting
  <1> HIDE DEF quantity
  <1>10. incoming' \in Order
    BY <1>1, <1>7, <1>8 DEF Order
  <1>11. TradeWith(p, quantity) \in Trade
    BY <1>4, <1>6, <1>7 DEF Trade, TradeWith
  <1>12. FillsAt(p, quantity)
    BY <1>3, <1>5, <1>7, <1>8, <1>9, <1>10, <1>11 DEF FillsAt
  <1> QED
    BY <1>1, <1>2, <1>7, <1>12

\* One iteration of the matching loop.
LEMMA MatchStepKeepsIInv == IInv /\ MatchStep => IInv'
  <1> SUFFICES ASSUME IInv, MatchStep PROVE IInv'
    OBVIOUS
  <1>0. TypeOK /\ WellFormed(book) /\ Uncrossed(book) /\ IsBook(book)
    BY DEF IInv, WellFormed
  <1> DEFINE side == Opposite(incoming.side)
  <1>1. /\ incoming \in Order /\ status = "matching" /\ status' = status
        /\ trades \in Seq(Trade) /\ side \in Side
    BY MatchStepFills
  <1>2. PICK p \in DOMAIN book.levels[side] : \E quantity \in Nat : FillsAt(p, quantity)
    BY MatchStepFills
  <1>3. PICK quantity \in Nat : FillsAt(p, quantity)
    BY <1>2
  <1>4. /\ quantity \in 1 .. Head(book.levels[side][p].orders).remaining_quantity
        /\ trades' = Append(trades, TradeWith(p, quantity))
        /\ TradeWith(p, quantity) \in Trade
        /\ incoming' \in Order
        /\ book' = fill_front(book, side, p, quantity)
    BY <1>3 DEF FillsAt
  <1> HIDE DEF side
  <1>5. /\ WellFormed(fill_front(book, side, p, quantity))
        /\ \A x \in Side : DOMAIN fill_front(book, side, p, quantity).levels[x]
                              \subseteq DOMAIN book.levels[x]
    BY <1>0, <1>1, <1>4, FillKeepsWellFormed
  <1>6. WellFormed(book') /\ Uncrossed(book')
    BY <1>0, <1>4, <1>5, FewerLevelsUncrossed
  <1>7. trades' \in Seq(Trade)
    BY <1>1, <1>4
  <1>8. TypeOK'
    BY <1>1, <1>4, <1>6, <1>7 DEF TypeOK, Status, WellFormed
  <1> QED
    BY <1>6, <1>8 DEF IInv

\* An order rests only when it no longer crosses the other side.
LEMMA RestKeepsIInv == IInv /\ Rest => IInv'
  <1> SUFFICES ASSUME IInv, Rest PROVE IInv'
    OBVIOUS
  <1>0. TypeOK /\ WellFormed(book) /\ Uncrossed(book) /\ IsBook(book)
    BY DEF IInv, WellFormed
  <1>1. /\ status = "matching" /\ incoming \in Order /\ incoming.remaining_quantity > 0
        /\ Restable(incoming) /\ ~can_match(book, incoming)
        /\ incoming' = incoming /\ trades' = trades
    BY <1>0 DEF Rest, LoopDone, TypeOK, may_rest, Restable
  <1>2. CASE contains(book, incoming.id)
    <2>1. book' = book /\ status' = "invalid_argument"
      BY <1>2 DEF Rest
    <2> QED
      BY <1>0, <1>1, <2>1 DEF IInv, TypeOK, Status
  <1>3. CASE ~contains(book, incoming.id)
    <2>1. book' = add_order(book, incoming) /\ status' = "done"
      BY <1>3 DEF Rest
    <2>2. WellFormed(book')
      BY <1>0, <1>1, <1>3, <2>1, AddOrderKeepsWellFormed
    <2>3. Uncrossed(book')
      <3>1. incoming.side \in {"Buy", "Sell"} /\ incoming.price \in Int
            /\ incoming.type = "Limit"
        BY <1>1, PriceAssumption DEF Order, Side, Restable
      <3>2. /\ \A s \in Side : s # incoming.side => book'.levels[s] = book.levels[s]
            /\ DOMAIN book'.levels[incoming.side]
                  = DOMAIN book.levels[incoming.side] \cup {incoming.price}
        <4> DEFINE nb == add_order(book, incoming)
        <4>1. /\ \A s \in Side : s # incoming.side => nb.levels[s] = book.levels[s]
              /\ DOMAIN nb.levels[incoming.side]
                    = DOMAIN book.levels[incoming.side] \cup {incoming.price}
          BY <1>0, <1>1, AddOrderParts
        <4> HIDE DEF nb
        <4> QED
          BY <2>1, <4>1 DEF nb
      <3>3. \A p \in DOMAIN book.levels[Opposite(incoming.side)] : ~Crosses(incoming, p)
        BY <1>1 DEF can_match
      <3>4. \A s \in Side : DOMAIN book.levels[s] \subseteq Int
        BY <1>0, PriceAssumption DEF IsBook, IsMap
      <3>5. CASE incoming.side = "Buy"
        BY <1>0, <3>1, <3>2, <3>3, <3>4, <3>5 DEF Uncrossed, Crosses, Opposite, Side
      <3>6. CASE incoming.side = "Sell"
        BY <1>0, <3>1, <3>2, <3>3, <3>4, <3>6 DEF Uncrossed, Crosses, Opposite, Side
      <3> QED
        BY <3>1, <3>5, <3>6
    <2>4. TypeOK'
      BY <1>0, <1>1, <2>1, <2>2 DEF TypeOK, Status, WellFormed
    <2> QED
      BY <2>2, <2>3, <2>4 DEF IInv
  <1> QED
    BY <1>2, <1>3

\* Taking an order out, on its own or to enter it again.
LEMMA ExtractedBook ==
    ASSUME IInv, NEW id, contains(book, id), NEW i, IsPosition(book, id, i),
           ~erase_throws(book, id, i)
    PROVE  WellFormed(extract_order(book, id, i)) /\ Uncrossed(extract_order(book, id, i))
  BY ExtractKeepsWellFormed, FewerLevelsUncrossed DEF IInv

\* cancel_order, whether or not the order is found.
LEMMA CancelKeepsIInv ==
    ASSUME NEW id \in OrderId, IInv, CancelOrder(id)
    PROVE  IInv'
  <1>0. TypeOK /\ WellFormed(book) /\ Uncrossed(book) /\ incoming' = incoming
        /\ trades' = trades /\ status = "ready"
    BY DEF IInv, CancelOrder, Idle
  <1>1. CASE book' = book /\ status' \in {"not_found", "logic_error"}
    BY <1>0, <1>1 DEF IInv, TypeOK, Status
  <1>2. CASE \E i : /\ contains(book, id) /\ IsPosition(book, id, i)
                    /\ ~erase_throws(book, id, i)
                    /\ book' = extract_order(book, id, i) /\ status' = "cancelled"
    <2>1. WellFormed(book') /\ Uncrossed(book')
      BY <1>2, ExtractedBook
    <2> QED
      BY <1>0, <1>2, <2>1 DEF IInv, TypeOK, Status, WellFormed
  <1> QED
    BY <1>1, <1>2 DEF CancelOrder

\* replace_order_into up to the matching loop of the replacement.
LEMMA ReplaceKeepsIInv ==
    ASSUME NEW id \in OrderId, NEW price \in Price, NEW quantity \in 1 .. MaxQuantity,
           IInv, ReplaceOrder(id, price, quantity)
    PROVE  IInv'
  <1>0. TypeOK /\ WellFormed(book) /\ Uncrossed(book) /\ status = "ready"
    BY DEF IInv, ReplaceOrder, Idle
  <1> DEFINE at == book.order_locations[id]
             Amended(i) == [book.levels[at.side][at.price].orders[i] EXCEPT
                               !.price = price, !.initial_quantity = quantity,
                               !.remaining_quantity = quantity]
  <1>1. CASE /\ book' = book /\ incoming' = incoming /\ trades' = <<>>
             /\ status' \in {"not_found", "logic_error"}
    BY <1>0, <1>1 DEF IInv, TypeOK, Status
  <1>2. CASE \E i : /\ contains(book, id) /\ IsPosition(book, id, i)
                    /\ ~erase_throws(book, id, i)
                    /\ StartProcessing(extract_order(book, id, i), Amended(i))
    <2>1. PICK i : /\ contains(book, id) /\ IsPosition(book, id, i)
                   /\ ~erase_throws(book, id, i)
                   /\ StartProcessing(extract_order(book, id, i), Amended(i))
      BY <1>2
    <2>2. WellFormed(extract_order(book, id, i)) /\ Uncrossed(extract_order(book, id, i))
      BY <2>1, ExtractedBook
    <2>3. book.levels[at.side][at.price].orders[i] \in Order
      <3>1. WellFormed(book) /\ contains(book, id) /\ IsPosition(book, id, i)
        BY <1>0, <2>1
      <3>2. /\ book.levels[at.side][at.price].orders = OrdersAt(book, at.side, at.price)
            /\ OrdersAt(book, at.side, at.price)[i] \in Order
        BY <3>1, PositionFacts
      <3> QED
        BY <3>2
    <2>4. quantity \in Quantity
      BY MaxQuantityAssumption, ModulusAssumption DEF Quantity
    <2>5. Amended(i) \in Order
      BY <2>3, <2>4 DEF Order
    <2> HIDE DEF Amended
    <2> QED
      BY <2>1, <2>2, <2>5, StartProcessingKeepsIInv
  <1> QED
    BY <1>1, <1>2 DEF ReplaceOrder

\* Every step of the engine keeps the invariant.
LEMMA NextKeepsIInv == IInv /\ [Next]_vars => IInv'
  <1> SUFFICES ASSUME IInv, [Next]_vars PROVE IInv'
    OBVIOUS
  <1>0. TypeOK /\ WellFormed(book) /\ Uncrossed(book)
    BY DEF IInv
  <1>1. ASSUME NEW id \in OrderId, NEW side \in Side, NEW type \in OrderType,
               NEW tif \in TimeInForce, NEW price \in Price, NEW quantity \in 1 .. MaxQuantity,
               ProcessOrder(id, side, type, tif, price, quantity)
        PROVE  IInv'
    <2>1. quantity \in Quantity
      BY MaxQuantityAssumption, ModulusAssumption DEF Quantity
    <2>2. NewOrder(id, side, type, tif, price, quantity) \in Order
      BY <2>1 DEF NewOrder, Order
    <2> QED
      BY <1>0, <1>1, <2>2, StartProcessingKeepsIInv DEF ProcessOrder
  <1>2. CASE ProcessZeroQuantity
    BY <1>0, <1>2 DEF ProcessZeroQuantity, IInv, TypeOK, Status
  <1>3. CASE MatchStep
    BY <1>3, MatchStepKeepsIInv
  <1>4. CASE Rest
    BY <1>4, RestKeepsIInv
  <1>5. CASE Complete
    BY <1>0, <1>5 DEF Complete, LoopDone, IInv, TypeOK, Status
  <1>6. ASSUME NEW id \in OrderId, CancelOrder(id) PROVE IInv'
    BY <1>6, CancelKeepsIInv
  <1>7. ASSUME NEW id \in OrderId, NEW price \in Price, NEW quantity \in 1 .. MaxQuantity,
               ReplaceOrder(id, price, quantity)
        PROVE  IInv'
    BY <1>7, ReplaceKeepsIInv
  <1>8. CASE Return
    BY <1>0, <1>8 DEF Return, IInv, TypeOK, Status
  <1>9. CASE UNCHANGED vars
    BY <1>0, <1>9 DEF vars, IInv, TypeOK
  <1> QED
    BY <1>1, <1>2, <1>3, <1>4, <1>5, <1>6, <1>7, <1>8, <1>9 DEF Next

\* The invariant holds throughout: the type invariant with it.
THEOREM EngineInvariant == Spec => []IInv
  <1>1. Init => IInv
    BY InitIInv
  <1>2. IInv /\ [Next]_vars => IInv'
    BY NextKeepsIInv
  <1> QED
    BY <1>1, <1>2, PTL DEF Spec

\* Every state of the engine, whatever calls were made, is well typed: in
\* particular no remaining quantity underflows.
THEOREM TypeCorrect == Spec => []TypeOK
  <1>1. IInv => TypeOK
    BY DEF IInv
  <1> QED
    BY <1>1, EngineInvariant, PTL

\* The index and the lists of the book agree at every step, so the iterator the
\* index hands to extract_order is always that of a live list node.
THEOREM IndexAlwaysMatches == Spec => []IndexMatchesLevels
  <1>1. IInv => IndexMatchesLevels
    BY DEF IInv, WellFormed, IndexMatchesLevels
  <1> QED
    BY <1>1, EngineInvariant, PTL

\* No bid is ever at or above an ask, also between two trades of one order.
THEOREM NeverCrossed == Spec => []NotCrossed
  <1>1. IInv => NotCrossed
    BY DEF IInv, NotCrossed
  <1> QED
    BY <1>1, EngineInvariant, PTL

\* No level is left empty, so front() of a best level never throws.
THEOREM BestLevelsPopulated == Spec => []NoEmptyLevel
  <1>1. IInv => NoEmptyLevel
    BY DEF IInv, WellFormed, NoEmptyLevel
  <1> QED
    BY <1>1, EngineInvariant, PTL

\* Nothing but unfilled good-till-cancel limit orders ever rests.
THEOREM OnlyRestableRest == Spec => []OnlyRestableOrdersRest
  <1>1. IInv => OnlyRestableOrdersRest
    BY DEF IInv, WellFormed, OnlyRestableOrdersRest
  <1> QED
    BY <1>1, EngineInvariant, PTL

-----------------------------------------------------------------------------
(* Quantities: totals, trades, and what a fill-or-kill order may rely on *)

\* The levels an order may trade with, and what waits there.
Crossing(b, o) == {p \in DOMAIN b.levels[Opposite(o.side)] : Crosses(o, p)}
WaitingAt(b, o) ==
    [p \in Crossing(b, o) |-> RemainingSum(OrdersAt(b, Opposite(o.side), p))]
CrossingLiquidity(b, o) == SumOver(WaitingAt(b, o), Crossing(b, o))

\* While a fill-or-kill order is being matched, enough is waiting for the rest of it:
\* the totals that executable_quantity added up may have wrapped, but then they said
\* less than what was there.
FillOrKillCovered ==
    status = "matching" /\ incoming.time_in_force = "FillOrKill" =>
        incoming.remaining_quantity <= CrossingLiquidity(book, incoming)

\* The inductive invariant about quantities, on top of IInv.
SumInv ==
    /\ Summed(book)
    /\ TradesAccountForIncoming
    /\ FillOrKillIsAllOrNothing
    /\ FillOrKillCovered

\* What waits at the crossing levels can be added up.
LEMMA WaitingSummable ==
    ASSUME NEW b, IsBook(b), Summed(b), NEW o \in Order
    PROVE  /\ Opposite(o.side) \in Side
           /\ Crossing(b, o) \subseteq Price
           /\ Summable(WaitingAt(b, o), Crossing(b, o))
           /\ \A p \in Crossing(b, o) :
                 WaitingAt(b, o)[p] = RemainingSum(OrdersAt(b, Opposite(o.side), p))
           /\ CrossingLiquidity(b, o) \in Nat
  <1> DEFINE side == Opposite(o.side)
  <1>1. side \in Side
    BY DEF Opposite, Side
  <1>2. IsFiniteSet(DOMAIN b.levels[side]) /\ DOMAIN b.levels[side] \subseteq Price
    BY <1>1 DEF Summed, IsBook, IsMap
  <1>3. IsFiniteSet(Crossing(b, o)) /\ Crossing(b, o) \subseteq Price
    BY <1>2, FS_Subset DEF Crossing
  <1>4. ASSUME NEW p \in Crossing(b, o)
        PROVE  /\ WaitingAt(b, o)[p] = RemainingSum(OrdersAt(b, side, p))
               /\ RemainingSum(OrdersAt(b, side, p)) \in Nat
    <2>1. OrdersAt(b, side, p) \in Seq(Order)
      BY <1>1, <1>3, OrdersAtTyped
    <2> QED
      BY <2>1, RemainingSumIs DEF WaitingAt
  <1>5. Summable(WaitingAt(b, o), Crossing(b, o))
    BY <1>3, <1>4 DEF Summable
  <1> QED
    BY <1>1, <1>3, <1>4, <1>5, SumIsNat DEF CrossingLiquidity

\* executable_quantity never promises more than what waits.
LEMMA ExecutableIsThere ==
    ASSUME NEW b, IsBook(b), Summed(b), NEW o \in Order
    PROVE  executable_quantity(b, o) \in Nat
           /\ executable_quantity(b, o) <= CrossingLiquidity(b, o)
  <1> DEFINE side == Opposite(o.side)
             total == [p \in DOMAIN b.levels[side] |-> b.levels[side][p].total_quantity]
  <1>1. /\ side \in Side /\ Crossing(b, o) \subseteq Price
        /\ Summable(WaitingAt(b, o), Crossing(b, o))
        /\ \A p \in Crossing(b, o) :
              WaitingAt(b, o)[p] = RemainingSum(OrdersAt(b, side, p))
    BY WaitingSummable
  <1>2. ASSUME NEW p \in Crossing(b, o)
        PROVE  total[p] \in Nat /\ total[p] <= WaitingAt(b, o)[p]
    <2>1. p \in DOMAIN b.levels[side]
      BY DEF Crossing
    <2>2. total[p] = RemainingSum(OrdersAt(b, side, p)) % QuantityModulus
      BY <1>1, <2>1 DEF Summed, TotalsConsistent
    <2>3. total[p] \in Quantity
      BY <1>1, <2>1, LevelTyped
    <2>4. RemainingSum(OrdersAt(b, side, p)) \in Nat
      BY <1>1 DEF Summable
    <2>5. RemainingSum(OrdersAt(b, side, p)) % QuantityModulus
             <= RemainingSum(OrdersAt(b, side, p))
      BY <2>4, WrapIsAtMost
    <2> HIDE DEF total
    <2> QED
      BY <1>1, <2>2, <2>3, <2>5, ModulusAssumption DEF Quantity
  <1>3. Summable(total, Crossing(b, o))
    BY <1>1, <1>2 DEF Summable
  <1>4. executable_quantity(b, o) = SumOver(total, Crossing(b, o))
    BY DEF executable_quantity, Crossing
  <1> HIDE DEF total
  <1>5. SumOver(total, Crossing(b, o)) <= SumOver(WaitingAt(b, o), Crossing(b, o))
    BY <1>1, <1>2, <1>3, SumMonotone
  <1> QED
    BY <1>3, <1>4, <1>5, SumIsNat DEF CrossingLiquidity

\* A fill of a crossing level takes its quantity off what waits.
LEMMA FillTakesLiquidity ==
    ASSUME NEW b, WellFormed(b), Summed(b), NEW o \in Order,
           NEW p \in DOMAIN b.levels[Opposite(o.side)], Crosses(o, p),
           NEW quantity \in 1 .. Head(b.levels[Opposite(o.side)][p].orders).remaining_quantity
    PROVE  CrossingLiquidity(fill_front(b, Opposite(o.side), p, quantity), o)
              = CrossingLiquidity(b, o) - quantity
  <1> DEFINE side == Opposite(o.side)
             nb == fill_front(b, side, p, quantity)
             was == OrdersAt(b, side, p)
             left == AfterFill(was, quantity)
             C == Crossing(b, o)
             f == WaitingAt(b, o)
             g == [q \in C |-> RemainingSum(OrdersAt(nb, side, q))]
  <1>0. IsBook(b)
    BY DEF WellFormed
  <1>1. /\ side \in Side /\ C \subseteq Price /\ Summable(f, C) /\ CrossingLiquidity(b, o) \in Nat
        /\ \A q \in C : f[q] = RemainingSum(OrdersAt(b, side, q))
    BY <1>0, WaitingSummable
  <1>2. /\ p \in Price /\ b.levels[side][p].orders = was /\ was \in Seq(Order) /\ was # <<>>
        /\ Head(was) = was[1] /\ was[1].remaining_quantity \in Quantity
    BY <1>1, FrontFacts
  <1>3. quantity \in 1 .. was[1].remaining_quantity /\ quantity \in Nat
    BY <1>2, ModulusAssumption DEF Quantity
  <1>4. /\ LevelsPopulated(nb)
        /\ \A x \in Side : DOMAIN nb.levels[x] \subseteq DOMAIN b.levels[x]
        /\ \A x \in Side, q \in Price :
              OrdersAt(nb, x, q) = IF x = side /\ q = p THEN left ELSE OrdersAt(b, x, q)
    BY <1>1, FillParts
  <1>5. p \in C
    BY DEF Crossing
  <1> HIDE DEF nb, was, C, f
  <1>6. RemainingSum(left) = RemainingSum(was) - quantity /\ RemainingSum(was) \in Nat
        /\ left \in Seq(Order)
    BY <1>2, <1>3, RemainingSumAfterFill, RemainingSumIs, AfterFillTyped
  <1>7. RemainingSum(left) \in Nat
    BY <1>6, RemainingSumIs
  <1> HIDE DEF left
  <1>8. /\ OrdersAt(nb, side, p) = left
        /\ \A q \in Price \ {p} : OrdersAt(nb, side, q) = OrdersAt(b, side, q)
    BY <1>1, <1>2, <1>4
  <1>9. /\ g[p] = RemainingSum(left) /\ f[p] = RemainingSum(was)
        /\ \A q \in C \ {p} : g[q] = f[q]
    BY <1>1, <1>5, <1>8 DEF was
  <1> HIDE DEF g
  <1>10. SumOver(g, C) = (SumOver(f, C) - f[p]) + g[p] /\ SumOver(f, C) \in Nat
    BY <1>1, <1>5, <1>7, <1>9, SumChanged
  <1>11. SumOver(g, C) = CrossingLiquidity(b, o) - quantity
    BY <1>1, <1>3, <1>6, <1>9, <1>10 DEF CrossingLiquidity, f, C
  <1>12. \A q \in C \ {p} : q \in DOMAIN nb.levels[side]
    <2> SUFFICES ASSUME NEW q \in C \ {p} PROVE q \in DOMAIN nb.levels[side]
      OBVIOUS
    <2>1. q \in DOMAIN b.levels[side]
      BY DEF C, Crossing
    <2>2. OrdersAt(b, side, q) # <<>>
      BY <1>1, <2>1 DEF WellFormed, LevelsPopulated
    <2>3. OrdersAt(nb, side, q) # <<>>
      BY <1>1, <1>8, <2>2
    <2> QED
      BY <2>3 DEF OrdersAt
  <1>13. Crossing(nb, o) \subseteq C /\ C \ {p} \subseteq Crossing(nb, o)
         /\ (p \in Crossing(nb, o) <=> p \in DOMAIN nb.levels[side])
    BY <1>1, <1>4, <1>12 DEF C, Crossing
  <1>14. \A q \in Crossing(nb, o) : WaitingAt(nb, o)[q] = g[q]
    BY <1>13 DEF g, WaitingAt
  <1>15. CrossingLiquidity(nb, o) = SumOver(g, Crossing(nb, o))
    BY <1>14, SumSame DEF CrossingLiquidity
  <1>16. CASE p \in DOMAIN nb.levels[side]
    <2>1. Crossing(nb, o) = C
      BY <1>13, <1>16
    <2> QED
      BY <1>11, <1>15, <2>1 DEF nb
  <1>17. CASE p \notin DOMAIN nb.levels[side]
    <2>1. Crossing(nb, o) = C \ {p}
      BY <1>13, <1>17
    <2>2. left = <<>>
      BY <1>8, <1>17 DEF OrdersAt
    <2>3. g[p] = 0
      BY <1>9, <2>2, RemainingSumOfNone
    <2>4. Summable(g, C)
      BY <1>1, <1>9, <2>3 DEF Summable
    <2>5. SumOver(g, C \ {p}) \in Nat /\ SumOver(g, C) = SumOver(g, C \ {p}) + g[p]
      BY <1>5, <2>4, SumWithout
    <2> QED
      BY <1>11, <1>15, <2>1, <2>3, <2>5 DEF nb
  <1> QED
    BY <1>16, <1>17

\* The quantity of a list of trades.
Traded(list) == SumOver([i \in DOMAIN list |-> list[i].quantity], DOMAIN list)

LEMMA TradedOfNone == Traded(<<>>) = 0
  <1>1. DOMAIN <<>> = {}
    OBVIOUS
  <1> QED
    BY <1>1, SumOfNone DEF Traded

\* A trade adds its quantity.
LEMMA TradedAppend ==
    ASSUME NEW list \in Seq(Trade), NEW t \in Trade
    PROVE  Traded(list) \in Nat /\ Traded(Append(list, t)) = Traded(list) + t.quantity
  <1> DEFINE n == Len(list)
             longer == Append(list, t)
             f == [i \in DOMAIN list |-> list[i].quantity]
             g == [i \in DOMAIN longer |-> longer[i].quantity]
  <1>1. n \in Nat /\ DOMAIN list = 1 .. n /\ \A i \in 1 .. n : list[i] \in Trade
    OBVIOUS
  <1>2. /\ DOMAIN longer = 1 .. n + 1 /\ longer[n + 1] = t
        /\ \A i \in 1 .. n : longer[i] = list[i]
    OBVIOUS
  <1>3. \A x \in Trade : x.quantity \in Nat
    BY ModulusAssumption DEF Trade, Quantity
  <1> HIDE DEF n, longer
  <1>4. /\ \A i \in 1 .. n : f[i] \in Nat
        /\ \A i \in 1 .. n : g[i] = f[i]
        /\ g[n + 1] = t.quantity /\ g[n + 1] \in Nat
    <2>1. \A i \in 1 .. n : i \in 1 .. n + 1
      BY <1>1
    <2>2. n + 1 \in 1 .. n + 1
      BY <1>1
    <2> QED
      BY <1>1, <1>2, <1>3, <2>1, <2>2
  <1>5. Traded(list) = SumOver(f, 1 .. n) /\ Traded(longer) = SumOver(g, 1 .. n + 1)
    BY <1>1, <1>2 DEF Traded
  <1> HIDE DEF f, g
  <1>6. SumOver(f, 1 .. n) \in Nat /\ SumOver(g, 1 .. n + 1) = SumOver(f, 1 .. n) + g[n + 1]
    BY <1>1, <1>4, SumExtended
  <1> QED
    BY <1>4, <1>5, <1>6 DEF longer

LEMMA InitSumInv == Init => SumInv
  <1> SUFFICES ASSUME Init PROVE SumInv
    OBVIOUS
  <1>1. book = EmptyBook /\ status = "ready"
    BY DEF Init
  <1>2. \A s \in Side : DOMAIN book.levels[s] = {}
    BY <1>1 DEF EmptyBook
  <1>3. Summed(book)
    BY <1>2, FS_EmptySet DEF Summed, TotalsConsistent
  <1> QED
    BY <1>1, <1>3 DEF SumInv, TradesAccountForIncoming, FillOrKillIsAllOrNothing,
                      FillOrKillCovered

\* A call that starts with a whole order: a fill-or-kill order is matched only when
\* enough is waiting.
LEMMA StartKeepsSumInv ==
    ASSUME NEW b, IsBook(b), Summed(b), NEW o \in Order,
           o.initial_quantity = o.remaining_quantity, StartProcessing(b, o)
    PROVE  SumInv'
  <1> DEFINE order == Effective(o)
  <1>1. /\ order \in Order /\ order.initial_quantity = order.remaining_quantity
        /\ order.remaining_quantity \in Nat
    BY ModulusAssumption DEF Effective, Order, TimeInForce, Quantity
  <1>2. /\ book' = b /\ incoming' = order /\ trades' = <<>>
        /\ status' = IF /\ order.time_in_force = "FillOrKill"
                        /\ executable_quantity(b, order) < order.remaining_quantity
                     THEN "killed" ELSE "matching"
    BY DEF StartProcessing
  <1> HIDE DEF order
  <1>3. TradedQuantity' = 0
    <2>1. TradedQuantity' = Traded(trades')
      BY DEF TradedQuantity, Traded
    <2> QED
      BY <1>2, <2>1, TradedOfNone
  <1>4. TradesAccountForIncoming'
    BY <1>1, <1>2, <1>3 DEF TradesAccountForIncoming
  <1>5. FillOrKillIsAllOrNothing'
    BY <1>2 DEF FillOrKillIsAllOrNothing
  <1>6. FillOrKillCovered'
    <2> SUFFICES ASSUME status' = "matching", order.time_in_force = "FillOrKill"
                 PROVE  order.remaining_quantity <= CrossingLiquidity(b, order)
      BY <1>2 DEF FillOrKillCovered
    <2>1. /\ executable_quantity(b, order) \in Nat
          /\ executable_quantity(b, order) <= CrossingLiquidity(b, order)
          /\ CrossingLiquidity(b, order) \in Nat
      BY <1>1, ExecutableIsThere, WaitingSummable
    <2>2. ~(executable_quantity(b, order) < order.remaining_quantity)
      BY <1>2
    <2> QED
      BY <1>1, <2>1, <2>2
  <1> QED
    BY <1>2, <1>4, <1>5, <1>6 DEF SumInv

\* An iteration of the loop moves its quantity from the order to a trade, and out
\* of the level it fills.
LEMMA MatchStepKeepsSumInv ==
    ASSUME IInv, SumInv, MatchStep
    PROVE  SumInv'
  <1> DEFINE side == Opposite(incoming.side)
  <1>0. WellFormed(book) /\ IsBook(book) /\ Summed(book)
    BY DEF IInv, WellFormed, SumInv
  <1>1. /\ incoming \in Order /\ status = "matching" /\ status' = status
        /\ trades \in Seq(Trade) /\ side \in Side
    BY MatchStepFills
  <1>2. PICK p \in DOMAIN book.levels[side] : \E quantity \in Nat : FillsAt(p, quantity)
    BY MatchStepFills
  <1>3. PICK quantity \in Nat : FillsAt(p, quantity)
    BY <1>2
  <1>4. /\ Crosses(incoming, p)
        /\ quantity \in 1 .. Head(book.levels[side][p].orders).remaining_quantity
        /\ trades' = Append(trades, TradeWith(p, quantity))
        /\ TradeWith(p, quantity) \in Trade
        /\ incoming' = [incoming EXCEPT !.remaining_quantity = @ - quantity]
        /\ book' = fill_front(book, side, p, quantity)
    BY <1>3 DEF FillsAt
  <1>5. /\ incoming'.remaining_quantity = incoming.remaining_quantity - quantity
        /\ incoming'.initial_quantity = incoming.initial_quantity
        /\ incoming'.time_in_force = incoming.time_in_force
        /\ incoming'.side = incoming.side /\ incoming'.type = incoming.type
        /\ incoming'.price = incoming.price
        /\ incoming.remaining_quantity \in Nat
    BY <1>1, <1>4, ModulusAssumption DEF Order, Quantity
  <1>6. Summed(book')
    <2> HIDE DEF side
    <2>1. Summed(fill_front(book, side, p, quantity))
      BY <1>0, <1>1, <1>4, FillKeepsSummed
    <2> QED
      BY <1>4, <2>1
  <1>7. TradesAccountForIncoming'
    <2>1. TradedQuantity = Traded(trades) /\ TradedQuantity' = Traded(trades')
      BY DEF TradedQuantity, Traded
    <2>2. TradeWith(p, quantity).quantity = quantity
      BY DEF TradeWith
    <2>3. Traded(trades) \in Nat /\ Traded(trades') = Traded(trades) + quantity
      BY <1>1, <1>4, <2>2, TradedAppend
    <2>4. incoming.initial_quantity = incoming.remaining_quantity + Traded(trades)
      BY <1>1, <2>1 DEF SumInv, TradesAccountForIncoming
    <2>5. incoming'.initial_quantity = incoming'.remaining_quantity + Traded(trades')
      BY <1>5, <2>3, <2>4
    <2> QED
      BY <2>1, <2>5 DEF TradesAccountForIncoming
  <1>8. FillOrKillIsAllOrNothing'
    BY <1>1 DEF FillOrKillIsAllOrNothing
  <1>9. FillOrKillCovered'
    <2> SUFFICES ASSUME incoming.time_in_force = "FillOrKill"
                 PROVE  incoming'.remaining_quantity <= CrossingLiquidity(book', incoming')
      BY <1>5 DEF FillOrKillCovered
    <2>1. incoming.remaining_quantity <= CrossingLiquidity(book, incoming)
      BY <1>1 DEF SumInv, FillOrKillCovered
    <2>2. CrossingLiquidity(book, incoming) \in Nat
      BY <1>0, <1>1, WaitingSummable
    <2>3. CrossingLiquidity(fill_front(book, side, p, quantity), incoming)
             = CrossingLiquidity(book, incoming) - quantity
      BY <1>0, <1>1, <1>4, FillTakesLiquidity
    <2>4. CrossingLiquidity(book', incoming') = CrossingLiquidity(book', incoming)
      BY <1>5 DEF CrossingLiquidity, Crossing, WaitingAt, Crosses
    <2> QED
      BY <1>4, <1>5, <2>1, <2>2, <2>3, <2>4
  <1> QED
    BY <1>6, <1>7, <1>8, <1>9 DEF SumInv

\* The loop is over: a fill-or-kill order that still crossed nothing had nothing left.
LEMMA CompleteKeepsSumInv ==
    ASSUME IInv, SumInv, Complete
    PROVE  SumInv'
  <1>1. /\ status = "matching" /\ status' = "done" /\ incoming \in Order
        /\ book' = book /\ incoming' = incoming /\ trades' = trades
        /\ ~(incoming.remaining_quantity > 0 /\ can_match(book, incoming))
    BY DEF Complete, LoopDone, IInv, TypeOK
  <1>2. Summed(book')
    BY <1>1 DEF SumInv
  <1>3. TradesAccountForIncoming'
    BY <1>1 DEF SumInv, TradesAccountForIncoming, TradedQuantity
  <1>4. FillOrKillIsAllOrNothing'
    <2> SUFFICES ASSUME incoming.time_in_force = "FillOrKill"
                 PROVE  incoming.remaining_quantity = 0
      BY <1>1 DEF FillOrKillIsAllOrNothing
    <2>1. incoming.remaining_quantity \in Nat
      BY <1>1, ModulusAssumption DEF Order, Quantity
    <2>2. incoming.remaining_quantity <= CrossingLiquidity(book, incoming)
      BY <1>1 DEF SumInv, FillOrKillCovered
    <2>3. CASE ~can_match(book, incoming)
      <3>1. Crossing(book, incoming) = {}
        BY <2>3 DEF can_match, Crossing
      <3>2. CrossingLiquidity(book, incoming) = 0
        BY <3>1, SumOfNone DEF CrossingLiquidity
      <3> QED
        BY <2>1, <2>2, <3>2
    <2> QED
      BY <1>1, <2>1, <2>3
  <1>5. FillOrKillCovered'
    BY <1>1 DEF FillOrKillCovered
  <1> QED
    BY <1>2, <1>3, <1>4, <1>5 DEF SumInv

\* Only a good-till-cancel order rests, and its level counts it.
LEMMA RestKeepsSumInv ==
    ASSUME IInv, SumInv, Rest
    PROVE  SumInv'
  <1>1. /\ status = "matching" /\ incoming \in Order /\ incoming' = incoming
        /\ trades' = trades /\ incoming.time_in_force = "GoodTillCancel"
    BY DEF Rest, LoopDone, may_rest, IInv, TypeOK
  <1>2. status' \in {"done", "invalid_argument"}
        /\ (book' = book \/ book' = add_order(book, incoming))
    BY DEF Rest
  <1>3. Summed(book')
    <2>1. IsBook(book) /\ Summed(book)
      BY DEF IInv, WellFormed, SumInv
    <2>2. Summed(add_order(book, incoming))
      BY <1>1, <2>1, AddOrderKeepsSummed
    <2> QED
      BY <1>2, <2>1, <2>2
  <1>4. TradesAccountForIncoming'
    BY <1>1, <1>2 DEF SumInv, TradesAccountForIncoming, TradedQuantity
  <1>5. FillOrKillIsAllOrNothing' /\ FillOrKillCovered'
    BY <1>1, <1>2 DEF FillOrKillIsAllOrNothing, FillOrKillCovered
  <1> QED
    BY <1>3, <1>4, <1>5 DEF SumInv

\* Between calls nothing is claimed of the incoming order.
LEMMA QuietKeepsSumInv ==
    ASSUME Summed(book'), status' \notin {"matching", "done", "killed"}
    PROVE  SumInv'
  BY DEF SumInv, TradesAccountForIncoming, FillOrKillIsAllOrNothing, FillOrKillCovered

LEMMA CancelKeepsSumInv ==
    ASSUME NEW id \in OrderId, IInv, SumInv, CancelOrder(id)
    PROVE  SumInv'
  <1>0. WellFormed(book) /\ Summed(book)
    BY DEF IInv, SumInv
  <1>1. status' \notin {"matching", "done", "killed"}
    BY DEF CancelOrder
  <1>2. Summed(book')
    <2>1. CASE book' = book
      BY <1>0, <2>1
    <2>2. CASE \E i : /\ contains(book, id) /\ IsPosition(book, id, i)
                      /\ ~erase_throws(book, id, i)
                      /\ book' = extract_order(book, id, i)
      BY <1>0, <2>2, ExtractKeepsSummed
    <2> QED
      BY <2>1, <2>2 DEF CancelOrder
  <1> QED
    BY <1>1, <1>2, QuietKeepsSumInv

\* A replacement is a whole order again.
LEMMA ReplaceKeepsSumInv ==
    ASSUME NEW id \in OrderId, NEW price \in Price, NEW quantity \in 1 .. MaxQuantity,
           IInv, SumInv, ReplaceOrder(id, price, quantity)
    PROVE  SumInv'
  <1>0. WellFormed(book) /\ Summed(book)
    BY DEF IInv, SumInv
  <1> DEFINE at == book.order_locations[id]
             Amended(i) == [book.levels[at.side][at.price].orders[i] EXCEPT
                               !.price = price, !.initial_quantity = quantity,
                               !.remaining_quantity = quantity]
  <1>1. CASE book' = book /\ status' \in {"not_found", "logic_error"}
    BY <1>0, <1>1, QuietKeepsSumInv
  <1>2. CASE \E i : /\ contains(book, id) /\ IsPosition(book, id, i)
                    /\ ~erase_throws(book, id, i)
                    /\ StartProcessing(extract_order(book, id, i), Amended(i))
    <2>1. PICK i : /\ contains(book, id) /\ IsPosition(book, id, i)
                   /\ ~erase_throws(book, id, i)
                   /\ StartProcessing(extract_order(book, id, i), Amended(i))
      BY <1>2
    <2>2. WellFormed(extract_order(book, id, i)) /\ Summed(extract_order(book, id, i))
      BY <1>0, <2>1, ExtractedBook, ExtractKeepsSummed
    <2>3. IsBook(extract_order(book, id, i))
      BY <2>2 DEF WellFormed
    <2>4. book.levels[at.side][at.price].orders[i] \in Order
      <3>1. /\ book.levels[at.side][at.price].orders = OrdersAt(book, at.side, at.price)
            /\ OrdersAt(book, at.side, at.price)[i] \in Order
        BY <1>0, <2>1, PositionFacts
      <3> QED
        BY <3>1
    <2>5. quantity \in Quantity
      BY MaxQuantityAssumption, ModulusAssumption DEF Quantity
    <2>6. Amended(i) \in Order /\ Amended(i).initial_quantity = Amended(i).remaining_quantity
      BY <2>4, <2>5 DEF Order
    <2> HIDE DEF Amended
    <2> QED
      BY <2>1, <2>2, <2>3, <2>6, StartKeepsSumInv
  <1> QED
    BY <1>1, <1>2 DEF ReplaceOrder

\* Every step of the engine keeps the invariant about quantities.
LEMMA NextKeepsSumInv == IInv /\ SumInv /\ [Next]_vars => SumInv'
  <1> SUFFICES ASSUME IInv, SumInv, [Next]_vars PROVE SumInv'
    OBVIOUS
  <1>0. IsBook(book) /\ Summed(book)
    BY DEF IInv, WellFormed, SumInv
  <1>1. ASSUME NEW id \in OrderId, NEW side \in Side, NEW type \in OrderType,
               NEW tif \in TimeInForce, NEW price \in Price, NEW quantity \in 1 .. MaxQuantity,
               ProcessOrder(id, side, type, tif, price, quantity)
        PROVE  SumInv'
    <2> DEFINE o == NewOrder(id, side, type, tif, price, quantity)
    <2>1. quantity \in Quantity
      BY MaxQuantityAssumption, ModulusAssumption DEF Quantity
    <2>2. o \in Order /\ o.initial_quantity = o.remaining_quantity
      BY <2>1 DEF NewOrder, Order
    <2>3. StartProcessing(book, o)
      BY <1>1 DEF ProcessOrder
    <2> HIDE DEF o
    <2> QED
      BY <1>0, <2>2, <2>3, StartKeepsSumInv
  <1>2. CASE ProcessZeroQuantity
    BY <1>0, <1>2, QuietKeepsSumInv DEF ProcessZeroQuantity
  <1>3. CASE MatchStep
    BY <1>3, MatchStepKeepsSumInv
  <1>4. CASE Rest
    BY <1>4, RestKeepsSumInv
  <1>5. CASE Complete
    BY <1>5, CompleteKeepsSumInv
  <1>6. ASSUME NEW id \in OrderId, CancelOrder(id) PROVE SumInv'
    BY <1>6, CancelKeepsSumInv
  <1>7. ASSUME NEW id \in OrderId, NEW price \in Price, NEW quantity \in 1 .. MaxQuantity,
               ReplaceOrder(id, price, quantity)
        PROVE  SumInv'
    BY <1>7, ReplaceKeepsSumInv
  <1>8. CASE Return
    BY <1>0, <1>8, QuietKeepsSumInv DEF Return
  <1>9. CASE UNCHANGED vars
    BY <1>9 DEF vars, SumInv, TradesAccountForIncoming, TradedQuantity,
                FillOrKillIsAllOrNothing, FillOrKillCovered
  <1> QED
    BY <1>1, <1>2, <1>3, <1>4, <1>5, <1>6, <1>7, <1>8, <1>9 DEF Next

\* The invariant about quantities holds throughout.
THEOREM QuantityInvariant == Spec => []SumInv
  <1>1. Init => SumInv
    BY InitSumInv
  <1>2. IInv /\ SumInv /\ [Next]_vars => SumInv'
    BY NextKeepsSumInv
  <1> QED
    BY <1>1, <1>2, EngineInvariant, PTL DEF Spec

\* The running total of every level is the sum of its orders, reduced to the width of
\* Quantity, for every width and however often it has wrapped.
THEOREM TotalsAlwaysSums == Spec => []TotalsAreSums
  <1>1. SumInv => TotalsAreSums
    BY DEF SumInv, Summed, TotalsAreSums
  <1> QED
    BY <1>1, QuantityInvariant, PTL

\* The trades of a call and what is left of its order add up to the order, at every
\* iteration and also when a replace starts from an order that was partly filled.
THEOREM TradesAlwaysAccount == Spec => []TradesAccountForIncoming
  <1>1. SumInv => TradesAccountForIncoming
    BY DEF SumInv
  <1> QED
    BY <1>1, QuantityInvariant, PTL

\* A fill-or-kill order trades all or nothing, even where totals have wrapped.
THEOREM FillOrKillAllOrNothing == Spec => []FillOrKillIsAllOrNothing
  <1>1. SumInv => FillOrKillIsAllOrNothing
    BY DEF SumInv
  <1> QED
    BY <1>1, QuantityInvariant, PTL

-----------------------------------------------------------------------------
(* Price-time priority *)

\* What the market sees of an order, and the ids of the first n orders of a line.
Seen(s, p, o) == [side |-> s, price |-> p, left |-> o.remaining_quantity]
Names(line, n) == {line[k].id : k \in 1 .. n}

\* The market's view of order id, the i-th of a line.
Stands(b, id, line, s, p, i) ==
    /\ id \in DOMAIN b.order_locations
    /\ b.order_locations[id] = [side |-> s, price |-> p]
    /\ WaitingIn(b)[id] = Seen(s, p, line[i])
    /\ AheadIn(b)[id] = Names(line, i - 1)

LEMMA PlaceIs ==
    ASSUME NEW b, WellFormed(b), NEW s \in Side, NEW p \in Price,
           NEW i \in DOMAIN OrdersAt(b, s, p)
    PROVE  Stands(b, OrdersAt(b, s, p)[i].id, OrdersAt(b, s, p), s, p, i)
  <1> DEFINE line == OrdersAt(b, s, p)
             id == line[i].id
  <1>0. IndexConsistent(b) /\ OrdersRestable(b)
    BY DEF WellFormed
  <1>1. /\ id \in DOMAIN b.order_locations
        /\ b.order_locations[id] = [side |-> s, price |-> p]
        /\ \A j \in DOMAIN line : line[j].id = id => j = i
    BY <1>0, OrdersInPlace DEF InPlace
  <1>2. LineOf(b, id) = line
    BY <1>1 DEF LineOf
  <1>3. PlaceOf(b, id) = i
    <2> HIDE DEF line, id
    <2>1. i \in DOMAIN line /\ line[i].id = id
      BY DEF line, id
    <2> QED
      BY <1>1, <1>2, <2>1 DEF PlaceOf
  <1> HIDE DEF line, id
  <1>4. WaitingIn(b)[id] = [side |-> s, price |-> p, left |-> line[i].remaining_quantity]
    BY <1>1, <1>2, <1>3 DEF WaitingIn
  <1>5. AheadIn(b)[id] = {line[k].id : k \in 1 .. i - 1}
    BY <1>1, <1>2, <1>3 DEF AheadIn
  <1> QED
    BY <1>1, <1>4, <1>5 DEF line, id, Stands, Seen, Names

\* Every waiting order has a place.
LEMMA PlaceExists ==
    ASSUME NEW b, WellFormed(b), NEW id \in DOMAIN b.order_locations
    PROVE  \E s \in Side, p \in Price :
              \E i \in DOMAIN OrdersAt(b, s, p) : OrdersAt(b, s, p)[i].id = id
  <1> DEFINE at == b.order_locations[id]
  <1>1. at.side \in Side /\ at.price \in Price
    BY DEF WellFormed, IsBook, IsMap, OrderLocation
  <1>2. \E i \in DOMAIN OrdersAt(b, at.side, at.price) :
           OrdersAt(b, at.side, at.price)[i].id = id
    BY DEF WellFormed, IndexConsistent
  <1> QED
    BY <1>1, <1>2

\* And only one.
LEMMA PlaceUnique ==
    ASSUME NEW b, WellFormed(b), NEW s \in Side, NEW p \in Price,
           NEW i \in DOMAIN OrdersAt(b, s, p), NEW x \in Side, NEW q \in Price,
           NEW k \in DOMAIN OrdersAt(b, x, q),
           OrdersAt(b, x, q)[k].id = OrdersAt(b, s, p)[i].id
    PROVE  x = s /\ q = p /\ k = i
  <1>0. IndexConsistent(b) /\ OrdersRestable(b)
    BY DEF WellFormed
  <1>1. InPlace(b, x, q, k) /\ InPlace(b, s, p, i)
    BY <1>0, OrdersInPlace
  <1> QED
    BY <1>1 DEF InPlace

\* The domains of the market's two functions.
LEMMA WaitingDomains ==
    ASSUME NEW b
    PROVE  /\ DOMAIN WaitingIn(b) = DOMAIN b.order_locations
           /\ DOMAIN AheadIn(b) = DOMAIN b.order_locations
           /\ WaitingIn(b) = [j \in DOMAIN b.order_locations |-> WaitingIn(b)[j]]
           /\ AheadIn(b) = [j \in DOMAIN b.order_locations |-> AheadIn(b)[j]]
  BY DEF WaitingIn, AheadIn

\* A line of n orders closes up behind its i-th, who alone has its id, and then the
\* names ahead of every other order are those of before without that id.
ClosesUp(was, now, n, i) ==
    /\ \A k \in 1 .. n : was[k].id = was[i].id => k = i
    /\ \A k \in 1 .. n - 1 : k < i => now[k] = was[k]
    /\ \A k \in 1 .. n - 1 : ~(k < i) => now[k] = was[k + 1]
NamesFollow(was, now, n, i) ==
    /\ \A m \in 1 .. n : m < i => Names(now, m - 1) = Names(was, m - 1) \ {was[i].id}
    /\ \A m \in 1 .. n : m > i => Names(now, m - 2) = Names(was, m - 1) \ {was[i].id}

LEMMA NamesClosedUp ==
    ASSUME NEW n \in Nat, NEW was, NEW now, NEW i \in 1 .. n, ClosesUp(was, now, n, i)
    PROVE  NamesFollow(was, now, n, i)
  <1>0. /\ \A k \in 1 .. n : was[k].id = was[i].id => k = i
        /\ \A k \in 1 .. n - 1 : k < i => now[k] = was[k]
        /\ \A k \in 1 .. n - 1 : ~(k < i) => now[k] = was[k + 1]
    BY DEF ClosesUp
  <1>1. ASSUME NEW m \in 1 .. n, m < i
        PROVE  Names(now, m - 1) = Names(was, m - 1) \ {was[i].id}
    <2>1. \A k \in 1 .. m - 1 : now[k] = was[k] /\ was[k].id # was[i].id
      BY <1>0, <1>1
    <2>2. {now[k].id : k \in 1 .. m - 1} = {was[k].id : k \in 1 .. m - 1}
      BY <2>1
    <2> QED
      BY <2>1, <2>2 DEF Names
  <1>2. ASSUME NEW m \in 1 .. n, m > i
        PROVE  Names(now, m - 2) = Names(was, m - 1) \ {was[i].id}
    <2>1. ASSUME NEW k \in 1 .. m - 2
          PROVE  now[k].id \in Names(was, m - 1) \ {was[i].id}
      <3>1. k \in 1 .. n - 1 /\ k \in 1 .. m - 1 /\ k + 1 \in 1 .. m - 1 /\ k + 1 \in 1 .. n
            /\ k \in 1 .. n
        BY <1>2
      <3>2. CASE k < i
        <4>1. now[k] = was[k] /\ was[k].id # was[i].id
          BY <1>0, <3>1, <3>2
        <4> QED
          BY <3>1, <4>1 DEF Names
      <3>3. CASE ~(k < i)
        <4>1. now[k] = was[k + 1] /\ k + 1 # i
          BY <1>0, <3>1, <3>3
        <4>2. was[k + 1].id # was[i].id
          BY <1>0, <3>1, <4>1
        <4> QED
          BY <3>1, <4>1, <4>2 DEF Names
      <3> QED
        BY <3>2, <3>3
    <2>2. ASSUME NEW h \in 1 .. m - 1, was[h].id # was[i].id
          PROVE  was[h].id \in Names(now, m - 2)
      <3>0. h \in 1 .. n /\ h # i
        BY <1>0, <1>2, <2>2
      <3>1. CASE h < i
        <4>1. h \in 1 .. m - 2 /\ h \in 1 .. n - 1
          BY <1>2, <3>1
        <4>2. now[h] = was[h]
          BY <1>0, <3>1, <4>1
        <4> QED
          BY <4>1, <4>2 DEF Names
      <3>2. CASE h > i
        <4>1. h - 1 \in 1 .. m - 2 /\ h - 1 \in 1 .. n - 1 /\ ~(h - 1 < i) /\ (h - 1) + 1 = h
          BY <1>2, <3>2
        <4>2. now[h - 1] = was[h]
          BY <1>0, <4>1
        <4> QED
          BY <4>1, <4>2 DEF Names
      <3> QED
        BY <3>0, <3>1, <3>2
    <2> QED
      BY <2>1, <2>2 DEF Names
  <1> QED
    BY <1>1, <1>2 DEF NamesFollow

\* The market without order id: Gone(WaitingIn(b), id) and AheadWithout(id).
LeavesMarket(b, nb, id) ==
    /\ WaitingIn(nb) = [j \in DOMAIN WaitingIn(b) \ {id} |-> WaitingIn(b)[j]]
    /\ AheadIn(nb) = [j \in DOMAIN AheadIn(b) \ {id} |-> AheadIn(b)[j] \ {id}]

\* An order leaves its line, by a cancel, a replace or its last fill: those behind it
\* move up, and nobody else notices.
LEMMA LeavingTheLine ==
    ASSUME NEW b, WellFormed(b), NEW nb, WellFormed(nb), NEW s \in Side, NEW p \in Price,
           NEW i \in DOMAIN OrdersAt(b, s, p), NEW id, OrdersAt(b, s, p)[i].id = id,
           nb.order_locations = Erase(b.order_locations, id),
           \A x \in Side, q \in Price :
              ~(x = s /\ q = p) => OrdersAt(nb, x, q) = OrdersAt(b, x, q),
           DOMAIN OrdersAt(nb, s, p) = 1 .. Len(OrdersAt(b, s, p)) - 1,
           \A k \in 1 .. Len(OrdersAt(b, s, p)) - 1 :
              k < i => OrdersAt(nb, s, p)[k] = OrdersAt(b, s, p)[k],
           \A k \in 1 .. Len(OrdersAt(b, s, p)) - 1 :
              ~(k < i) => OrdersAt(nb, s, p)[k] = OrdersAt(b, s, p)[k + 1]
    PROVE  LeavesMarket(b, nb, id)
  <1> DEFINE was == OrdersAt(b, s, p)
             now == OrdersAt(nb, s, p)
  <1>1. DOMAIN nb.order_locations = DOMAIN b.order_locations \ {id}
    BY DEF Erase, Restrict
  <1>2. DOMAIN was = 1 .. Len(was) /\ Len(was) \in Nat
    BY OrdersAtTyped DEF WellFormed
  <1>3. \A x \in Side, q \in Price : \A k \in DOMAIN OrdersAt(b, x, q) :
           OrdersAt(b, x, q)[k].id = id => x = s /\ q = p /\ k = i
    BY PlaceUnique
  <1>4. ASSUME NEW j \in DOMAIN nb.order_locations
        PROVE  WaitingIn(nb)[j] = WaitingIn(b)[j] /\ AheadIn(nb)[j] = AheadIn(b)[j] \ {id}
    <2>1. j \in DOMAIN b.order_locations /\ j # id
      BY <1>1
    <2>2. PICK x \in Side, q \in Price :
             \E k \in DOMAIN OrdersAt(b, x, q) : OrdersAt(b, x, q)[k].id = j
      BY <2>1, PlaceExists
    <2>3. PICK m \in DOMAIN OrdersAt(b, x, q) : OrdersAt(b, x, q)[m].id = j
      BY <2>2
    <2>4. Stands(b, j, OrdersAt(b, x, q), x, q, m)
      BY <2>3, PlaceIs
    <2>5. DOMAIN OrdersAt(b, x, q) = 1 .. Len(OrdersAt(b, x, q)) /\ Len(OrdersAt(b, x, q)) \in Nat
      BY OrdersAtTyped DEF WellFormed
    <2>6. CASE ~(x = s /\ q = p)
      <3>1. OrdersAt(nb, x, q) = OrdersAt(b, x, q)
        BY <2>6
      <3>2. m \in DOMAIN OrdersAt(nb, x, q) /\ OrdersAt(nb, x, q)[m].id = j
        BY <2>3, <3>1
      <3>3. Stands(nb, j, OrdersAt(nb, x, q), x, q, m)
        BY <3>2, PlaceIs
      <3>4. \A k \in 1 .. m - 1 : k \in DOMAIN OrdersAt(b, x, q)
        BY <2>5
      <3>5. id \notin Names(OrdersAt(b, x, q), m - 1)
        BY <1>3, <2>6, <3>4 DEF Names
      <3> QED
        BY <2>4, <3>1, <3>3, <3>5 DEF Stands
    <2>7. CASE x = s /\ q = p
      <3>1. m \in 1 .. Len(was) /\ was[m].id = j /\ i \in 1 .. Len(was) /\ was[i].id = id
        BY <1>2, <2>3, <2>7
      <3>2. \A k \in 1 .. Len(was) : was[k].id = was[i].id => k = i
        BY <1>2, <1>3
      <3>3. DOMAIN now = 1 .. Len(was) - 1
        OBVIOUS
      <3>4. \A k \in 1 .. Len(was) - 1 : k < i => now[k] = was[k]
        OBVIOUS
      <3>5. \A k \in 1 .. Len(was) - 1 : ~(k < i) => now[k] = was[k + 1]
        OBVIOUS
      <3>6. /\ WaitingIn(b)[j] = Seen(s, p, was[m])
            /\ AheadIn(b)[j] = Names(was, m - 1)
        BY <2>4, <2>7 DEF Stands
      <3>7. \A n \in DOMAIN now : Stands(nb, now[n].id, now, s, p, n)
        BY PlaceIs
      <3> HIDE DEF was, now
      <3>8. ClosesUp(was, now, Len(was), i)
        BY <3>2, <3>4, <3>5 DEF ClosesUp
      <3>9. NamesFollow(was, now, Len(was), i)
        BY <1>2, <3>1, <3>8, NamesClosedUp
      <3>10. \A h \in 1 .. Len(was) : h < i => Names(now, h - 1) = Names(was, h - 1) \ {was[i].id}
        BY <3>9 DEF NamesFollow
      <3>11. \A h \in 1 .. Len(was) : h > i => Names(now, h - 2) = Names(was, h - 1) \ {was[i].id}
        BY <3>9 DEF NamesFollow
      <3>12. CASE m < i
        <4>1. m \in DOMAIN now /\ now[m] = was[m]
          BY <1>2, <3>1, <3>3, <3>12, <3>4
        <4>2. Names(now, m - 1) = Names(was, m - 1) \ {id}
          BY <3>1, <3>10, <3>12
        <4> QED
          BY <3>1, <3>6, <3>7, <4>1, <4>2 DEF Stands
      <3>13. CASE m > i
        <4>1. m - 1 \in DOMAIN now /\ ~(m - 1 < i) /\ (m - 1) + 1 = m /\ (m - 1) - 1 = m - 2
          BY <1>2, <3>1, <3>3, <3>13
        <4>2. now[m - 1] = was[m]
          BY <3>3, <3>5, <4>1
        <4>3. Names(now, m - 2) = Names(was, m - 1) \ {id}
          BY <3>1, <3>13, <3>11
        <4>4. now[m - 1].id = j
          BY <3>1, <4>2
        <4>5. Stands(nb, j, now, s, p, m - 1)
          BY <3>7, <4>1, <4>4
        <4> QED
          BY <3>6, <4>1, <4>2, <4>3, <4>5 DEF Stands
      <3> QED
        BY <1>2, <2>1, <3>1, <3>12, <3>13
    <2> QED
      BY <2>6, <2>7
  <1> QED
    BY <1>1, <1>4, WaitingDomains DEF LeavesMarket

\* An order keeps its place when those up to it in its line keep theirs.
KeepsPlace(was, now, m) ==
    m \in DOMAIN now /\ \A k \in 1 .. m : now[k].id = was[k].id

LEMMA PlaceKept ==
    ASSUME NEW b, WellFormed(b), NEW nb, WellFormed(nb), NEW s \in Side, NEW p \in Price,
           NEW m \in DOMAIN OrdersAt(b, s, p), NEW j, OrdersAt(b, s, p)[m].id = j,
           KeepsPlace(OrdersAt(b, s, p), OrdersAt(nb, s, p), m)
    PROVE  /\ AheadIn(nb)[j] = AheadIn(b)[j]
           /\ WaitingIn(nb)[j] = Seen(s, p, OrdersAt(nb, s, p)[m])
           /\ WaitingIn(b)[j] = Seen(s, p, OrdersAt(b, s, p)[m])
  <1> DEFINE was == OrdersAt(b, s, p)
             now == OrdersAt(nb, s, p)
  <1>1. DOMAIN was = 1 .. Len(was) /\ Len(was) \in Nat
    BY OrdersAtTyped DEF WellFormed
  <1>2. m \in DOMAIN now /\ \A k \in 1 .. m : now[k].id = was[k].id
    BY DEF KeepsPlace
  <1>3. m \in 1 .. m
    BY <1>1
  <1>4. now[m].id = j
    BY <1>2, <1>3
  <1>5. Stands(b, j, was, s, p, m)
    BY PlaceIs
  <1>6. Stands(nb, j, now, s, p, m)
    BY <1>2, <1>4, PlaceIs
  <1> HIDE DEF was, now
  <1>7. \A k \in 1 .. m - 1 : now[k].id = was[k].id
    BY <1>1, <1>2
  <1>8. Names(now, m - 1) = Names(was, m - 1)
    BY <1>7 DEF Names
  <1> QED
    BY <1>5, <1>6, <1>8 DEF Stands, was, now

\* The market in which order o has joined the end of the line of its price.
JoinsMarket(b, nb, o) ==
    /\ WaitingIn(nb) = [j \in DOMAIN WaitingIn(b) \cup {o.id} |->
                           IF j = o.id THEN Seen(o.side, o.price, o) ELSE WaitingIn(b)[j]]
    /\ AheadIn(nb) = [j \in DOMAIN AheadIn(b) \cup {o.id} |->
                         IF j = o.id THEN {k \in DOMAIN WaitingIn(b) :
                                              /\ WaitingIn(b)[k].side = o.side
                                              /\ WaitingIn(b)[k].price = o.price}
                         ELSE AheadIn(b)[j]]

\* add_order puts an order there.
LEMMA JoiningTheLine ==
    ASSUME NEW b, WellFormed(b), NEW o \in Order, Restable(o), o.remaining_quantity > 0,
           ~contains(b, o.id)
    PROVE  JoinsMarket(b, add_order(b, o), o)
  <1> DEFINE nb == add_order(b, o)
             s == o.side
             p == o.price
             was == OrdersAt(b, s, p)
             n == Len(was)
             line == {k \in DOMAIN WaitingIn(b) :
                         WaitingIn(b)[k].side = s /\ WaitingIn(b)[k].price = p}
  <1>1. IsBook(b) /\ s \in Side /\ p \in Price
    BY DEF WellFormed, Order
  <1>2. WellFormed(nb)
    BY AddOrderKeepsWellFormed
  <1>3. \A x \in Side, q \in Price :
           OrdersAt(nb, x, q) = IF x = o.side /\ q = o.price THEN Append(OrdersAt(b, x, q), o)
                                ELSE OrdersAt(b, x, q)
    BY <1>1, AddOrderParts
  <1>4. nb.order_locations = Put(b.order_locations, o.id, [side |-> o.side, price |-> o.price])
    BY <1>1, AddOrderParts
  <1> HIDE DEF nb
  <1>5. DOMAIN nb.order_locations = DOMAIN b.order_locations \cup {o.id}
    BY <1>4 DEF Put
  <1>6. was \in Seq(Order) /\ n \in Nat /\ DOMAIN was = 1 .. n
    BY <1>1, OrdersAtTyped
  <1>7. OrdersAt(nb, s, p) = Append(was, o)
    BY <1>1, <1>3
  <1>8. ASSUME NEW j \in DOMAIN b.order_locations
        PROVE  AheadIn(nb)[j] = AheadIn(b)[j] /\ WaitingIn(nb)[j] = WaitingIn(b)[j]
    <2>1. PICK x \in Side, q \in Price :
             \E k \in DOMAIN OrdersAt(b, x, q) : OrdersAt(b, x, q)[k].id = j
      BY PlaceExists
    <2>2. PICK m \in DOMAIN OrdersAt(b, x, q) : OrdersAt(b, x, q)[m].id = j
      BY <2>1
    <2>3. KeepsPlace(OrdersAt(b, x, q), OrdersAt(nb, x, q), m)
          /\ OrdersAt(nb, x, q)[m] = OrdersAt(b, x, q)[m]
      <3>1. CASE ~(x = s /\ q = p)
        <4>1. OrdersAt(nb, x, q) = OrdersAt(b, x, q)
          BY <1>3, <3>1
        <4> QED
          BY <2>2, <4>1 DEF KeepsPlace
      <3>2. CASE x = s /\ q = p
        <4> HIDE DEF was
        <4>1. m \in 1 .. n
          BY <1>6, <3>2 DEF was
        <4>2. DOMAIN Append(was, o) = 1 .. n + 1 /\ \A k \in 1 .. n : Append(was, o)[k] = was[k]
          BY <1>6
        <4>3. KeepsPlace(was, Append(was, o), m) /\ Append(was, o)[m] = was[m]
          BY <1>6, <4>1, <4>2 DEF KeepsPlace
        <4> QED
          BY <1>7, <3>2, <4>3 DEF was
      <3> QED
        BY <3>1, <3>2
    <2>4. AheadIn(nb)[j] = AheadIn(b)[j]
      BY <1>2, <2>2, <2>3, PlaceKept
    <2>5. WaitingIn(nb)[j] = Seen(x, q, OrdersAt(nb, x, q)[m])
      BY <1>2, <2>2, <2>3, PlaceKept
    <2>6. WaitingIn(b)[j] = Seen(x, q, OrdersAt(b, x, q)[m])
      BY <1>2, <2>2, <2>3, PlaceKept
    <2> QED
      BY <2>3, <2>4, <2>5, <2>6
  <1>9. AheadIn(nb)[o.id] = line /\ WaitingIn(nb)[o.id] = Seen(s, p, o)
    <2>1. n + 1 \in DOMAIN OrdersAt(nb, s, p) /\ OrdersAt(nb, s, p)[n + 1] = o
      <3> HIDE DEF was
      <3> QED
        BY <1>6, <1>7
    <2>2. Stands(nb, o.id, OrdersAt(nb, s, p), s, p, n + 1)
      BY <1>1, <1>2, <2>1, PlaceIs
    <2>3. Names(OrdersAt(nb, s, p), n) = Names(was, n)
      <3> HIDE DEF was
      <3>1. \A k \in 1 .. n : Append(was, o)[k] = was[k]
        BY <1>6
      <3> QED
        BY <1>7, <3>1 DEF Names
    <2>4. ASSUME NEW k \in 1 .. n PROVE was[k].id \in line
      <3>1. Stands(b, was[k].id, was, s, p, k)
        BY <1>1, <1>6, PlaceIs
      <3> HIDE DEF was, s, p
      <3>2. was[k].id \in DOMAIN WaitingIn(b)
        BY <3>1, WaitingDomains DEF Stands
      <3>3. WaitingIn(b)[was[k].id].side = s /\ WaitingIn(b)[was[k].id].price = p
        BY <3>1 DEF Stands, Seen
      <3> QED
        BY <3>2, <3>3
    <2>5. ASSUME NEW j \in line PROVE j \in Names(was, n)
      <3>0. j \in DOMAIN b.order_locations
        BY WaitingDomains
      <3>1. PICK x \in Side, q \in Price :
               \E k \in DOMAIN OrdersAt(b, x, q) : OrdersAt(b, x, q)[k].id = j
        BY <3>0, PlaceExists
      <3>2. PICK m \in DOMAIN OrdersAt(b, x, q) : OrdersAt(b, x, q)[m].id = j
        BY <3>1
      <3>3. Stands(b, j, OrdersAt(b, x, q), x, q, m)
        BY <3>2, PlaceIs
      <3>4. x = s /\ q = p
        BY <3>3 DEF Stands, Seen
      <3> QED
        BY <1>6, <3>2, <3>4 DEF Names
    <2>6. Names(was, n) = line
      <3> HIDE DEF was, line
      <3>1. \A y \in {was[k].id : k \in 1 .. n} : y \in line
        <4>1. \A k \in 1 .. n : was[k].id \in line
          BY <2>4
        <4> HIDE DEF n
        <4> QED
          BY <4>1
      <3>2. \A y \in line : y \in Names(was, n)
        BY <2>5
      <3> QED
        BY <3>1, <3>2 DEF Names
    <2>7. (n + 1) - 1 = n
      BY <1>6
    <2> HIDE DEF line, n
    <2> QED
      BY <2>1, <2>2, <2>3, <2>6, <2>7 DEF Stands
  <1>10. DOMAIN WaitingIn(b) = DOMAIN b.order_locations /\ o.id \notin DOMAIN b.order_locations
         /\ DOMAIN AheadIn(b) = DOMAIN b.order_locations
    BY WaitingDomains DEF contains
  <1>11. WaitingIn(nb) = [j \in DOMAIN nb.order_locations |-> WaitingIn(nb)[j]]
         /\ AheadIn(nb) = [j \in DOMAIN nb.order_locations |-> AheadIn(nb)[j]]
    BY WaitingDomains
  <1> HIDE DEF line, s, p
  <1>12. WaitingIn(nb) = [j \in DOMAIN WaitingIn(b) \cup {o.id} |->
                             IF j = o.id THEN Seen(s, p, o) ELSE WaitingIn(b)[j]]
    BY <1>5, <1>8, <1>9, <1>10, <1>11
  <1>13. AheadIn(nb) = [j \in DOMAIN AheadIn(b) \cup {o.id} |->
                           IF j = o.id THEN line ELSE AheadIn(b)[j]]
    BY <1>5, <1>8, <1>9, <1>10, <1>11
  <1> QED
    BY <1>12, <1>13 DEF JoinsMarket, line, s, p, nb

\* The market in which order id has been filled by a quantity and keeps its place.
ShrinksInMarket(b, nb, id, quantity) ==
    /\ WaitingIn(nb) = [WaitingIn(b) EXCEPT ![id].left = @ - quantity]
    /\ AheadIn(nb) = AheadIn(b)

\* The front order of a line is filled in part: only what is left of it changes.
LEMMA FillingThePart ==
    ASSUME NEW b, WellFormed(b), NEW s \in Side, NEW p \in DOMAIN b.levels[s],
           NEW quantity \in 1 .. Head(b.levels[s][p].orders).remaining_quantity,
           NEW nb, nb = fill_front(b, s, p, quantity), WellFormed(nb),
           NEW id, OrdersAt(b, s, p)[1].id = id,
           OrdersAt(b, s, p)[1].remaining_quantity # quantity
    PROVE  ShrinksInMarket(b, nb, id, quantity)
  <1> DEFINE was == OrdersAt(b, s, p)
             now == OrdersAt(nb, s, p)
             left == was[1].remaining_quantity - quantity
  <1>0. p \in Price /\ was \in Seq(Order) /\ was # <<>> /\ b.levels[s][p].orders = was
        /\ Head(was) = was[1] /\ DOMAIN was = 1 .. Len(was) /\ Len(was) \in Nat /\ Len(was) >= 1
        /\ was[1] \in Order
    BY FrontFacts
  <1>1. quantity \in 1 .. was[1].remaining_quantity
    BY <1>0
  <1>2. nb.order_locations = b.order_locations
    BY FillParts
  <1>3. \A x \in Side, q \in Price :
           OrdersAt(nb, x, q) = IF x = s /\ q = p THEN AfterFill(was, quantity)
                                ELSE OrdersAt(b, x, q)
    BY FillParts
  <1>4. now = AfterFill(was, quantity)
    BY <1>0, <1>3
  <1>5. /\ DOMAIN now = 1 .. Len(was)
        /\ now[1] = [was[1] EXCEPT !.remaining_quantity = left]
        /\ \A k \in 2 .. Len(was) : now[k] = was[k]
    <2>1. AfterFill(was, quantity) = [was EXCEPT ![1].remaining_quantity = @ - quantity]
      BY DEF AfterFill
    <2> HIDE DEF was
    <2> QED
      BY <1>0, <1>4, <2>1
  <1>6. now[1].id = id /\ now[1].remaining_quantity = left
    <2> HIDE DEF was, now, left
    <2> QED
      BY <1>0, <1>5 DEF Order, was
  <1>7. ASSUME NEW j \in DOMAIN b.order_locations
        PROVE  /\ AheadIn(nb)[j] = AheadIn(b)[j]
               /\ j # id => WaitingIn(nb)[j] = WaitingIn(b)[j]
               /\ j = id => /\ WaitingIn(b)[j] = Seen(s, p, was[1])
                            /\ WaitingIn(nb)[j] = Seen(s, p, now[1])
    <2>1. PICK x \in Side, q \in Price :
             \E k \in DOMAIN OrdersAt(b, x, q) : OrdersAt(b, x, q)[k].id = j
      BY PlaceExists
    <2>2. PICK m \in DOMAIN OrdersAt(b, x, q) : OrdersAt(b, x, q)[m].id = j
      BY <2>1
    <2>3. KeepsPlace(OrdersAt(b, x, q), OrdersAt(nb, x, q), m)
          /\ (j # id => OrdersAt(nb, x, q)[m] = OrdersAt(b, x, q)[m])
      <3>1. CASE ~(x = s /\ q = p)
        <4>1. OrdersAt(nb, x, q) = OrdersAt(b, x, q)
          BY <1>3, <3>1
        <4> QED
          BY <2>2, <4>1 DEF KeepsPlace
      <3>2. CASE x = s /\ q = p
        <4>0. m \in 1 .. Len(was) /\ was[m].id = j /\ was[1].id = id
          BY <1>0, <2>2, <3>2
        <4> HIDE DEF was, now
        <4>1. ASSUME NEW k \in 1 .. Len(was) PROVE now[k].id = was[k].id
          <5>1. k = 1 \/ k \in 2 .. Len(was)
            BY <1>0
          <5> QED
            BY <1>5, <1>6, <4>0, <5>1
        <4>2. KeepsPlace(was, now, m)
          BY <1>0, <1>5, <4>0, <4>1 DEF KeepsPlace
        <4>3. j # id => now[m] = was[m]
          BY <1>0, <1>5, <4>0
        <4> QED
          BY <3>2, <4>2, <4>3 DEF was, now
      <3> QED
        BY <3>1, <3>2
    <2>4. AheadIn(nb)[j] = AheadIn(b)[j]
      BY <2>2, <2>3, PlaceKept
    <2>5. WaitingIn(nb)[j] = Seen(x, q, OrdersAt(nb, x, q)[m])
      BY <2>2, <2>3, PlaceKept
    <2>6. WaitingIn(b)[j] = Seen(x, q, OrdersAt(b, x, q)[m])
      BY <2>2, <2>3, PlaceKept
    <2>7. j = id => x = s /\ q = p /\ m = 1
      BY <1>0, <2>2, PlaceUnique
    <2> QED
      BY <2>3, <2>4, <2>5, <2>6, <2>7
  <1>8. DOMAIN WaitingIn(b) = DOMAIN b.order_locations
        /\ DOMAIN AheadIn(b) = DOMAIN b.order_locations
        /\ WaitingIn(nb) = [j \in DOMAIN b.order_locations |-> WaitingIn(nb)[j]]
        /\ AheadIn(nb) = [j \in DOMAIN b.order_locations |-> AheadIn(nb)[j]]
        /\ WaitingIn(b) = [j \in DOMAIN b.order_locations |-> WaitingIn(b)[j]]
        /\ AheadIn(b) = [j \in DOMAIN b.order_locations |-> AheadIn(b)[j]]
    BY <1>2, WaitingDomains
  <1>9. AheadIn(nb) = AheadIn(b)
    BY <1>7, <1>8
  <1>10. id \in DOMAIN b.order_locations
    <2>1. Stands(b, id, was, s, p, 1)
      BY <1>0, PlaceIs
    <2> QED
      BY <2>1 DEF Stands
  <1>11. /\ WaitingIn(b)[id] = [side |-> s, price |-> p, left |-> was[1].remaining_quantity]
         /\ WaitingIn(nb)[id] = [side |-> s, price |-> p, left |-> left]
    BY <1>6, <1>7, <1>10 DEF Seen
  <1> HIDE DEF was, now, left
  <1>12. [WaitingIn(b)[id] EXCEPT !.left = @ - quantity] = WaitingIn(nb)[id]
    BY <1>11 DEF left
  <1>13. WaitingIn(nb) = [WaitingIn(b) EXCEPT ![id] = WaitingIn(nb)[id]]
    BY <1>7, <1>8, <1>10
  <1>14. WaitingIn(nb) = [WaitingIn(b) EXCEPT ![id].left = @ - quantity]
    BY <1>8, <1>10, <1>12, <1>13
  <1> QED
    BY <1>9, <1>14 DEF ShrinksInMarket

\* extract_order takes an order out of the market.
LEMMA ExtractLeaves ==
    ASSUME NEW b, WellFormed(b), NEW id, contains(b, id), NEW i, IsPosition(b, id, i),
           ~erase_throws(b, id, i)
    PROVE  LeavesMarket(b, extract_order(b, id, i), id)
  <1> DEFINE nb == extract_order(b, id, i)
             s == b.order_locations[id].side
             p == b.order_locations[id].price
             was == OrdersAt(b, s, p)
  <1>1. s \in Side /\ p \in Price /\ i \in 1 .. Len(was) /\ was[i].id = id
    BY PositionFacts
  <1>2. DOMAIN was = 1 .. Len(was) /\ Len(was) \in Nat
    BY <1>1, OrdersAtTyped DEF WellFormed
  <1>3. WellFormed(nb)
    BY ExtractKeepsWellFormed
  <1>4. nb.order_locations = Erase(b.order_locations, id)
    BY ExtractParts
  <1>5. \A x \in Side, q \in Price :
           OrdersAt(nb, x, q) = IF x = s /\ q = p THEN Without(was, i) ELSE OrdersAt(b, x, q)
    BY ExtractParts
  <1> HIDE DEF nb, s, p
  <1>6. \A x \in Side, q \in Price :
           ~(x = s /\ q = p) => OrdersAt(nb, x, q) = OrdersAt(b, x, q)
    BY <1>5
  <1>7. OrdersAt(nb, s, p) = Without(was, i)
    BY <1>1, <1>5
  <1>8. DOMAIN OrdersAt(nb, s, p) = 1 .. Len(was) - 1
    BY <1>7 DEF Without
  <1>9. \A k \in 1 .. Len(was) - 1 : k < i => OrdersAt(nb, s, p)[k] = was[k]
    BY <1>7 DEF Without
  <1>10. \A k \in 1 .. Len(was) - 1 : ~(k < i) => OrdersAt(nb, s, p)[k] = was[k + 1]
    BY <1>7 DEF Without
  <1>11. i \in DOMAIN was
    BY <1>1, <1>2
  <1>12. LeavesMarket(b, nb, id)
    BY <1>1, <1>3, <1>4, <1>6, <1>8, <1>9, <1>10, <1>11, LeavingTheLine
  <1> QED
    BY <1>12 DEF nb

\* So does the fill that uses up the front order of a line.
LEMMA FillLeaves ==
    ASSUME NEW b, WellFormed(b), NEW s \in Side, NEW p \in DOMAIN b.levels[s],
           NEW quantity \in 1 .. Head(b.levels[s][p].orders).remaining_quantity,
           NEW nb, nb = fill_front(b, s, p, quantity), WellFormed(nb),
           NEW id, OrdersAt(b, s, p)[1].id = id,
           OrdersAt(b, s, p)[1].remaining_quantity = quantity
    PROVE  LeavesMarket(b, nb, id)
  <1> DEFINE was == OrdersAt(b, s, p)
  <1>1. p \in Price /\ was \in Seq(Order) /\ was # <<>> /\ b.levels[s][p].orders = was
        /\ Head(was) = was[1] /\ DOMAIN was = 1 .. Len(was) /\ Len(was) \in Nat /\ Len(was) >= 1
    BY FrontFacts
  <1>2. quantity \in 1 .. was[1].remaining_quantity
    BY <1>1
  <1>3. nb.order_locations = Erase(b.order_locations, id)
    BY FillParts
  <1>4. \A x \in Side, q \in Price :
           OrdersAt(nb, x, q) = IF x = s /\ q = p THEN AfterFill(was, quantity)
                                ELSE OrdersAt(b, x, q)
    BY FillParts
  <1>5. \A x \in Side, q \in Price :
           ~(x = s /\ q = p) => OrdersAt(nb, x, q) = OrdersAt(b, x, q)
    BY <1>4
  <1>6. OrdersAt(nb, s, p) = AfterFill(was, quantity)
    BY <1>1, <1>4
  <1>7. /\ DOMAIN AfterFill(was, quantity) = 1 .. Len(was) - 1
        /\ \A k \in 1 .. Len(was) - 1 : AfterFill(was, quantity)[k] = was[k + 1]
    BY <1>1, <1>2, AfterFillTyped
  <1>8. DOMAIN OrdersAt(nb, s, p) = 1 .. Len(was) - 1
    BY <1>6, <1>7
  <1>9. \A k \in 1 .. Len(was) - 1 : k < 1 => OrdersAt(nb, s, p)[k] = was[k]
    OBVIOUS
  <1>10. \A k \in 1 .. Len(was) - 1 : ~(k < 1) => OrdersAt(nb, s, p)[k] = was[k + 1]
    BY <1>6, <1>7
  <1>11. 1 \in DOMAIN was
    BY <1>1
  <1> QED
    BY <1>1, <1>3, <1>5, <1>8, <1>9, <1>10, <1>11, LeavingTheLine

\* The waiting orders that an order may trade with are those at the levels it crosses.
LEMMA EligibleIs ==
    ASSUME NEW b, WellFormed(b), NEW o \in Order, NEW id \in DOMAIN b.order_locations
    PROVE  id \in Market!Eligible(WaitingIn(b), TakerOf(o)) <=>
              /\ b.order_locations[id].side = Opposite(o.side)
              /\ Crosses(o, b.order_locations[id].price)
  <1> DEFINE at == b.order_locations[id]
  <1>1. /\ WaitingIn(b)[id].side = at.side /\ WaitingIn(b)[id].price = at.price
        /\ id \in DOMAIN WaitingIn(b)
    BY DEF WaitingIn
  <1>2. /\ at.side \in {"Buy", "Sell"} /\ at.price \in Int
        /\ o.side \in {"Buy", "Sell"} /\ o.price \in Int
    BY PriceAssumption DEF WellFormed, IsBook, IsMap, OrderLocation, Order, Side
  <1>3. /\ TakerOf(o).side = o.side /\ TakerOf(o).price = o.price
        /\ TakerOf(o).kind[1] = o.type
    BY DEF TakerOf
  <1>4. id \in Market!Eligible(WaitingIn(b), TakerOf(o)) <=>
           /\ at.side # o.side
           /\ \/ o.type = "Market"
              \/ o.side = "Buy" /\ at.price <= o.price
              \/ o.side = "Sell" /\ at.price >= o.price
    BY <1>1, <1>3 DEF Market!Eligible
  <1> HIDE DEF at
  <1>5. at.side # o.side <=> at.side = Opposite(o.side)
    BY <1>2 DEF Opposite
  <1>6. Crosses(o, at.price) <=>
           \/ o.type = "Market"
           \/ o.side = "Buy" /\ at.price <= o.price
           \/ o.side = "Sell" /\ at.price >= o.price
    BY <1>2 DEF Crosses
  <1> QED
    BY <1>4, <1>5, <1>6 DEF at

-----------------------------------------------------------------------------
(* What waits for an order: the totals of its levels against the market's sum *)

SmallOrders(b) ==
    \A s \in Side, p \in Price : \A i \in DOMAIN OrdersAt(b, s, p) :
        OrdersAt(b, s, p)[i].remaining_quantity <= MaxQuantity

\* What waits at each level fits in a Quantity: no running total has wrapped.
LevelsFit(b) ==
    \A s \in Side, p \in Price : RemainingSum(OrdersAt(b, s, p)) < QuantityModulus

\* All the orders there can be, at their largest, fit in a Quantity.
TotalsFit == IsFiniteSet(OrderId) /\ Cardinality(OrderId) * MaxQuantity < QuantityModulus

\* A natural number below the modulus is its own remainder.
LEMMA NoWrap ==
    ASSUME NEW x \in Nat, x < QuantityModulus
    PROVE  x % QuantityModulus = x
  BY ModulusAssumption

\* The names of a line, which are all different.
LEMMA LineNames ==
    ASSUME NEW b, WellFormed(b), NEW s \in Side, NEW p \in Price
    PROVE  LET line == OrdersAt(b, s, p)
           IN  [k \in 1 .. Len(line) |-> line[k].id]
                  \in Bijection(1 .. Len(line), Names(line, Len(line)))
  <1> DEFINE line == OrdersAt(b, s, p)
             n == Len(line)
             h == [k \in 1 .. n |-> line[k].id]
  <1>1. DOMAIN line = 1 .. n /\ n \in Nat
    BY OrdersAtTyped DEF WellFormed
  <1>2. \A k, m \in 1 .. n : line[k].id = line[m].id => k = m
    BY <1>1, PlaceUnique
  <1> HIDE DEF line, n
  <1>3. h \in [1 .. n -> Names(line, n)]
    BY DEF Names
  <1>4. \A k, m \in 1 .. n : h[k] = h[m] => k = m
    BY <1>2
  <1>5. \A t \in Names(line, n) : \E k \in 1 .. n : h[k] = t
    BY DEF Names
  <1>6. h \in Bijection(1 .. n, Names(line, n))
    <2> HIDE DEF h
    <2> QED
      BY <1>3, <1>4, <1>5 DEF Bijection, Injection, Surjection, IsInjective
  <1> QED
    BY <1>6 DEF line, n

\* What waits at one level fits in a Quantity.
LEMMA LineFits ==
    ASSUME NEW b, WellFormed(b), SmallOrders(b), TotalsFit, NEW s \in Side, NEW p \in Price
    PROVE  RemainingSum(OrdersAt(b, s, p)) < QuantityModulus
  <1> DEFINE line == OrdersAt(b, s, p)
             n == Len(line)
             h == [k \in 1 .. n |-> line[k].id]
  <1>1. line \in Seq(Order) /\ DOMAIN line = 1 .. n /\ n \in Nat
    BY OrdersAtTyped DEF WellFormed
  <1>2. h \in Bijection(1 .. n, Names(line, n))
    BY LineNames
  <1>3. \A i \in 1 .. n : line[i].remaining_quantity <= MaxQuantity
    BY <1>1 DEF SmallOrders
  <1> HIDE DEF line
  <1>4. Names(line, n) \subseteq OrderId
    <2>1. ASSUME NEW k \in 1 .. n PROVE line[k].id \in OrderId
      <3>1. line[k] \in Order
        BY <1>1
      <3> QED
        BY <3>1 DEF Order
    <2> HIDE DEF n
    <2> QED
      BY <2>1 DEF Names
  <1>5. IsFiniteSet(Names(line, n)) /\ Cardinality(Names(line, n)) <= Cardinality(OrderId)
    BY <1>4, FS_Subset DEF TotalsFit
  <1>6. h \in Injection(1 .. n, Names(line, n))
    BY <1>2 DEF Bijection
  <1>7. IsFiniteSet(1 .. n) /\ Cardinality(1 .. n) = n
    BY <1>1, FS_Interval
  <1>8. Cardinality(1 .. n) <= Cardinality(Names(line, n))
    <2> HIDE DEF h
    <2> QED
      BY <1>5, <1>6, FS_Injection
  <1>9. /\ \A i \in 1 .. n : /\ Remaining(line)[i] \in Nat
                             /\ Remaining(line)[i] = line[i].remaining_quantity
        /\ RemainingSum(line) = SumOver(Remaining(line), 1 .. n)
        /\ RemainingSum(line) \in Nat
    BY <1>1, RemainingSumIs
  <1>10. Summable(Remaining(line), 1 .. n) /\ MaxQuantity \in Nat
         /\ \A i \in 1 .. n : Remaining(line)[i] <= MaxQuantity
    BY <1>3, <1>7, <1>9, MaxQuantityAssumption, ModulusAssumption DEF Summable
  <1>11. SumOver(Remaining(line), 1 .. n) <= Cardinality(1 .. n) * MaxQuantity
    BY <1>10, SumBounded
  <1>12. Cardinality(OrderId) \in Nat /\ Cardinality(Names(line, n)) \in Nat
    BY <1>5, FS_CardinalityType DEF TotalsFit
  <1>13. n * MaxQuantity <= Cardinality(OrderId) * MaxQuantity
    <2> DEFINE c == Cardinality(OrderId)
    <2>1. c \in Nat /\ n <= c
      BY <1>1, <1>5, <1>7, <1>8, <1>12
    <2> HIDE DEF n, c
    <2>2. c * MaxQuantity = (n * MaxQuantity) + ((c - n) * MaxQuantity)
      BY <1>1, <1>10, <2>1 DEF n
    <2>3. (c - n) * MaxQuantity >= 0
      BY <1>1, <1>10, <2>1 DEF n
    <2>4. n * MaxQuantity \in Int /\ (c - n) * MaxQuantity \in Int
      BY <1>1, <1>10, <2>1 DEF n
    <2>5. n * MaxQuantity <= c * MaxQuantity
      BY <2>2, <2>3, <2>4
    <2> QED
      BY <2>5 DEF c
  <1>14. Cardinality(OrderId) * MaxQuantity < QuantityModulus
    BY DEF TotalsFit
  <1>15. n * MaxQuantity \in Int /\ Cardinality(OrderId) * MaxQuantity \in Int
    BY <1>1, <1>10, <1>12
  <1>16. RemainingSum(line) < QuantityModulus
    BY <1>7, <1>9, <1>11, <1>13, <1>14, <1>15, ModulusAssumption
  <1> QED
    BY <1>16 DEF line

\* So the total of a level is what waits there, not just modulo the width.
LEMMA TotalIsExact ==
    ASSUME NEW b, WellFormed(b), Summed(b), LevelsFit(b),
           NEW s \in Side, NEW p \in DOMAIN b.levels[s]
    PROVE  b.levels[s][p].total_quantity = RemainingSum(OrdersAt(b, s, p))
  <1>1. p \in Price
    BY FrontFacts
  <1>2. OrdersAt(b, s, p) \in Seq(Order)
    BY <1>1, OrdersAtTyped DEF WellFormed
  <1>3. RemainingSum(OrdersAt(b, s, p)) \in Nat
    BY <1>2, RemainingSumIs
  <1>4. RemainingSum(OrdersAt(b, s, p)) < QuantityModulus
    BY <1>1 DEF LevelsFit
  <1>5. b.levels[s][p].total_quantity = RemainingSum(OrdersAt(b, s, p)) % QuantityModulus
    BY DEF Summed, TotalsConsistent
  <1> QED
    BY <1>3, <1>4, <1>5, NoWrap

\* executable_quantity then adds up exactly what waits at the crossing levels.
LEMMA ExecutableIsExact ==
    ASSUME NEW b, WellFormed(b), Summed(b), LevelsFit(b), NEW o \in Order
    PROVE  executable_quantity(b, o) = CrossingLiquidity(b, o)
  <1> DEFINE side == Opposite(o.side)
             total == [p \in DOMAIN b.levels[side] |-> b.levels[side][p].total_quantity]
  <1>0. IsBook(b) /\ side \in Side
    BY DEF WellFormed, Opposite, Side
  <1>1. \A p \in Crossing(b, o) : WaitingAt(b, o)[p] = RemainingSum(OrdersAt(b, side, p))
    BY <1>0, WaitingSummable
  <1>2. \A p \in DOMAIN b.levels[side] :
           b.levels[side][p].total_quantity = RemainingSum(OrdersAt(b, side, p))
    BY <1>0, TotalIsExact
  <1>3. \A p \in Crossing(b, o) : p \in DOMAIN b.levels[side]
    BY DEF Crossing
  <1>4. \A p \in Crossing(b, o) : total[p] = WaitingAt(b, o)[p]
    BY <1>1, <1>2, <1>3
  <1>5. executable_quantity(b, o) = SumOver(total, Crossing(b, o))
    BY DEF executable_quantity, Crossing
  <1> HIDE DEF total
  <1>6. SumOver(total, Crossing(b, o)) = SumOver(WaitingAt(b, o), Crossing(b, o))
    BY <1>4, SumSame
  <1> QED
    BY <1>5, <1>6 DEF CrossingLiquidity

\* The market adds up the same orders one by one.
LEMMA LiquidityIs ==
    ASSUME NEW b, WellFormed(b), Summed(b), NEW o \in Order
    PROVE  Market!Liquidity(WaitingIn(b), TakerOf(o)) = CrossingLiquidity(b, o)
  <1> DEFINE side == Opposite(o.side)
             left == [j \in DOMAIN WaitingIn(b) |-> WaitingIn(b)[j].left]
             eligible == Market!Eligible(WaitingIn(b), TakerOf(o))
             line(p) == OrdersAt(b, side, p)
             there(p) == Names(line(p), Len(line(p)))
             D == [p \in Crossing(b, o) |-> Units(left, there(p))]
  <1>0. IsBook(b) /\ side \in Side
    BY DEF WellFormed, Opposite, Side
  <1>1. /\ Crossing(b, o) \subseteq Price
        /\ Summable(WaitingAt(b, o), Crossing(b, o))
        /\ \A p \in Crossing(b, o) : WaitingAt(b, o)[p] = RemainingSum(line(p))
    BY <1>0, WaitingSummable
  <1>2. Market!Liquidity(WaitingIn(b), TakerOf(o)) = SumOver(left, eligible)
    BY DEF Market!Liquidity, Market!SumOver, SumOver, Units, Market!Units,
           Cardinality, Market!Cardinality
  <1>3. ASSUME NEW p \in Price, NEW k \in 1 .. Len(line(p))
        PROVE  /\ line(p)[k].id \in DOMAIN b.order_locations
               /\ b.order_locations[line(p)[k].id] = [side |-> side, price |-> p]
               /\ left[line(p)[k].id] = line(p)[k].remaining_quantity
    <2>1. DOMAIN line(p) = 1 .. Len(line(p))
      BY <1>0, OrdersAtTyped
    <2>2. Stands(b, line(p)[k].id, line(p), side, p, k)
      BY <1>0, <2>1, PlaceIs
    <2> HIDE DEF line, side
    <2>3. /\ line(p)[k].id \in DOMAIN b.order_locations
          /\ b.order_locations[line(p)[k].id] = [side |-> side, price |-> p]
          /\ WaitingIn(b)[line(p)[k].id] = Seen(side, p, line(p)[k])
      BY <2>2 DEF Stands
    <2>4. line(p)[k].id \in DOMAIN WaitingIn(b)
      BY <2>3, WaitingDomains
    <2>5. left[line(p)[k].id] = WaitingIn(b)[line(p)[k].id].left
      BY <2>4
    <2>6. Seen(side, p, line(p)[k]).left = line(p)[k].remaining_quantity
      BY DEF Seen
    <2> HIDE DEF left
    <2> QED
      BY <2>3, <2>5, <2>6
  <1>4. ASSUME NEW p \in Crossing(b, o)
        PROVE  IsFiniteSet(Units(left, there(p)))
               /\ SumOver(left, there(p)) = WaitingAt(b, o)[p]
    <2> DEFINE n == Len(line(p))
               h == [k \in 1 .. n |-> line(p)[k].id]
    <2>0. p \in Price
      BY <1>1
    <2>1. line(p) \in Seq(Order)
      BY <1>0, <2>0, OrdersAtTyped
    <2>2. h \in Bijection(1 .. n, there(p))
      BY <1>0, <2>0, LineNames
    <2>3. /\ \A k \in 1 .. n : /\ Remaining(line(p))[k] \in Nat
                               /\ Remaining(line(p))[k] = line(p)[k].remaining_quantity
          /\ RemainingSum(line(p)) = SumOver(Remaining(line(p)), 1 .. n)
          /\ n \in Nat
      BY <2>1, RemainingSumIs
    <2>4. Summable(Remaining(line(p)), 1 .. n)
      BY <2>3, FS_Interval DEF Summable
    <2>5. \A k \in 1 .. n : left[h[k]] = Remaining(line(p))[k]
      <3> HIDE DEF left, line
      <3>1. \A k \in 1 .. n : left[line(p)[k].id] = line(p)[k].remaining_quantity
        BY <1>3, <2>0
      <3> QED
        BY <2>3, <3>1
    <2>6. Summable(left, there(p))
      <3>1. IsFiniteSet(there(p))
        <4>1. ExistsBijection(1 .. n, there(p))
          BY <2>2 DEF ExistsBijection
        <4> HIDE DEF there, n
        <4> QED
          BY <2>4, <4>1, FS_Bijection DEF Summable
      <3>2. \A j \in there(p) : \E k \in 1 .. n : j = h[k]
        <4> HIDE DEF line
        <4> QED
          BY DEF Names
      <3>3. \A j \in there(p) : left[j] \in Nat
        <4> HIDE DEF there, h, left, line
        <4> QED
          BY <2>3, <2>5, <3>2
      <3> QED
        BY <3>1, <3>3 DEF Summable
    <2>7. SumOver(left, there(p)) = SumOver(Remaining(line(p)), 1 .. n)
      <3> HIDE DEF left, there, h, line
      <3> QED
        BY <2>2, <2>4, <2>5, SumRenamed
    <2>8. IsFiniteSet(Units(left, there(p)))
      <3> HIDE DEF left, there
      <3> QED
        BY <2>6, OwnUnits, SumIsNat
    <2> QED
      BY <1>1, <2>3, <2>7, <2>8
  <1>5. ASSUME NEW j
        PROVE  j \in eligible <=> \E p \in Crossing(b, o) : j \in there(p)
    <2>1. ASSUME j \in eligible PROVE \E p \in Crossing(b, o) : j \in there(p)
      <3>1. j \in DOMAIN b.order_locations
        BY <2>1, WaitingDomains DEF Market!Eligible
      <3>2. b.order_locations[j].side = side /\ Crosses(o, b.order_locations[j].price)
        BY <2>1, <3>1, EligibleIs
      <3>3. PICK x \in Side, q \in Price :
               \E k \in DOMAIN OrdersAt(b, x, q) : OrdersAt(b, x, q)[k].id = j
        BY <3>1, PlaceExists
      <3>4. PICK m \in DOMAIN OrdersAt(b, x, q) : OrdersAt(b, x, q)[m].id = j
        BY <3>3
      <3>5. Stands(b, j, OrdersAt(b, x, q), x, q, m)
        BY <3>4, PlaceIs
      <3>6. b.order_locations[j] = [side |-> x, price |-> q]
        BY <3>5 DEF Stands
      <3>7. x = side /\ Crosses(o, q)
        BY <3>2, <3>6
      <3>8. DOMAIN line(q) = 1 .. Len(line(q))
        BY <1>0, OrdersAtTyped
      <3>9. m \in 1 .. Len(line(q)) /\ line(q)[m].id = j
        BY <3>4, <3>7, <3>8
      <3>10. q \in DOMAIN b.levels[side]
        BY <3>4, <3>7 DEF OrdersAt
      <3>11. q \in Crossing(b, o)
        BY <3>7, <3>10 DEF Crossing
      <3> HIDE DEF line
      <3>12. j \in there(q)
        BY <3>9 DEF Names
      <3> QED
        BY <3>11, <3>12
    <2>2. ASSUME NEW p \in Crossing(b, o), j \in there(p) PROVE j \in eligible
      <3>1. PICK k \in 1 .. Len(line(p)) : j = line(p)[k].id
        <4> HIDE DEF line
        <4> QED
          BY <2>2 DEF Names
      <3>2. j \in DOMAIN b.order_locations /\ b.order_locations[j] = [side |-> side, price |-> p]
        BY <1>1, <1>3, <3>1
      <3>3. Crosses(o, p)
        BY DEF Crossing
      <3> QED
        BY <3>2, <3>3, EligibleIs
    <2> QED
      BY <2>1, <2>2
  <1>6. ASSUME NEW p \in Crossing(b, o), NEW q \in Crossing(b, o), p # q
        PROVE  there(p) \cap there(q) = {}
    <2> SUFFICES ASSUME NEW j \in there(p), j \in there(q) PROVE FALSE
      OBVIOUS
    <2>1. ASSUME NEW x \in Price, j \in there(x)
          PROVE  b.order_locations[j] = [side |-> side, price |-> x]
      <3>1. PICK k \in 1 .. Len(line(x)) : j = line(x)[k].id
        <4> HIDE DEF line
        <4> QED
          BY <2>1 DEF Names
      <3> QED
        BY <1>3, <3>1
    <2> HIDE DEF there
    <2> HIDE DEF side
    <2>2. p \in Price /\ q \in Price
      BY <1>1
    <2>3. b.order_locations[j] = [side |-> side, price |-> p]
      BY <2>1, <2>2
    <2>4. b.order_locations[j] = [side |-> side, price |-> q]
      BY <2>1, <2>2
    <2> QED
      BY <1>6, <2>3, <2>4
  <1> HIDE DEF left, there, eligible
  <1>7. \A x \in Crossing(b, o) : IsFiniteSet(D[x]) /\ WaitingAt(b, o)[x] = Cardinality(D[x])
    BY <1>4 DEF SumOver
  <1>8. ASSUME NEW p \in Crossing(b, o), NEW q \in Crossing(b, o), p # q
        PROVE  D[p] \cap D[q] = {}
    <2>1. there(p) \cap there(q) = {}
      BY <1>6, <1>8
    <2>2. \A u \in Units(left, there(p)) : u[1] \in there(p)
      BY DEF Units
    <2>3. \A u \in Units(left, there(q)) : u[1] \in there(q)
      BY DEF Units
    <2> QED
      BY <2>1, <2>2, <2>3
  <1>9. UNION {D[p] : p \in Crossing(b, o)} = Units(left, eligible)
    <2>1. \A u : u \in Units(left, eligible) <=>
                    \E j \in eligible : u \in {j} \X (1 .. left[j])
      BY DEF Units
    <2>2. \A p, u : u \in Units(left, there(p)) <=>
                    \E j \in there(p) : u \in {j} \X (1 .. left[j])
      BY DEF Units
    <2>3. \A u : (\E p \in Crossing(b, o) : u \in D[p]) <=> u \in Units(left, eligible)
      BY <1>5, <2>1, <2>2
    <2> QED
      BY <2>3
  <1>10. IsFiniteSet(Crossing(b, o))
    BY <1>1 DEF Summable
  <1> HIDE DEF D
  <1>11. Cardinality(UNION {D[x] : x \in Crossing(b, o)}) = SumOver(WaitingAt(b, o), Crossing(b, o))
    BY <1>7, <1>8, <1>10, SumOfSizes
  <1> QED
    BY <1>2, <1>9, <1>11 DEF SumOver, CrossingLiquidity

-----------------------------------------------------------------------------
(* The steps of the engine as steps of the market *)

\* Every waiting order was entered with at most MaxQuantity.
SmallWaiting(b) == \A id \in DOMAIN WaitingIn(b) : WaitingIn(b)[id].left <= MaxQuantity

\* What the mapping needs besides the invariants: quantities that were entered, and no
\* order in hand between calls.
MarketInv ==
    /\ SmallWaiting(book)
    /\ incoming # NoOrder => incoming.remaining_quantity <= MaxQuantity
    /\ status = "ready" => incoming = NoOrder

LEMMA WaitingAreSmall ==
    ASSUME NEW b, WellFormed(b), SmallWaiting(b)
    PROVE  SmallOrders(b)
  <1> SUFFICES ASSUME NEW s \in Side, NEW p \in Price, NEW i \in DOMAIN OrdersAt(b, s, p)
               PROVE  OrdersAt(b, s, p)[i].remaining_quantity <= MaxQuantity
    BY DEF SmallOrders
  <1> DEFINE o == OrdersAt(b, s, p)[i]
  <1>1. Stands(b, o.id, OrdersAt(b, s, p), s, p, i)
    BY PlaceIs
  <1> HIDE DEF o
  <1>2. o.id \in DOMAIN WaitingIn(b)
    BY <1>1, WaitingDomains DEF Stands
  <1>3. WaitingIn(b)[o.id] = Seen(s, p, o)
    BY <1>1 DEF Stands, o
  <1>4. WaitingIn(b)[o.id].left = o.remaining_quantity
    BY <1>3 DEF Seen
  <1> QED
    BY <1>2, <1>4 DEF SmallWaiting, o

\* The order in hand is never mistaken for none.
LEMMA TakerIsSome ==
    ASSUME NEW o \in Order
    PROVE  o # NoOrder /\ TakerOf(o) # NoOrder
  <1>1. TakerOf(o) \in [id : OrderId, side : Side, kind : OrderType \X TimeInForce,
                        price : Price, left : Quantity]
    BY DEF TakerOf, Order
  <1> QED
    BY <1>1, NoOrderAssumption, NoTakerAssumption

\* The beginning of process_order_into, on a book b: the order enters the market, and
\* is killed exactly when the market has too little for it.
LEMMA StartEnters ==
    ASSUME NEW b, WellFormed(b), Summed(b), LevelsFit(b), NEW o \in Order,
           StartProcessing(b, o)
    PROVE  Market!Enter(WaitingIn(b), TakerOf(Effective(o)))
  <1> DEFINE e == Effective(o)
  <1>1. e \in Order
    BY DEF Effective, Order, TimeInForce
  <1>2. incoming' = e /\ trades' = <<>>
        /\ status' = IF e.time_in_force = "FillOrKill"
                        /\ executable_quantity(b, e) < e.remaining_quantity
                     THEN "killed" ELSE "matching"
    BY DEF StartProcessing
  <1> HIDE DEF e
  <1>3. AbstractTaker' = TakerOf(e)
    BY <1>1, <1>2, TakerIsSome DEF AbstractTaker
  <1>4. AbstractFills' = <<>>
    BY <1>2 DEF AbstractFills
  <1>5. Market!Liquidity(WaitingIn(b), TakerOf(e)) = executable_quantity(b, e)
    BY <1>1, LiquidityIs, ExecutableIsExact
  <1>6. TakerOf(e).kind[2] = e.time_in_force /\ TakerOf(e).left = e.remaining_quantity
    BY DEF TakerOf
  <1>7. (status' = "matching") <=>
           ~(/\ TakerOf(e).kind[2] = "FillOrKill"
             /\ Market!Liquidity(WaitingIn(b), TakerOf(e)) < TakerOf(e).left)
    BY <1>2, <1>5, <1>6
  <1>8. Market!Enter(WaitingIn(b), TakerOf(e))
    BY <1>3, <1>4, <1>7 DEF Market!Enter
  <1> QED
    BY <1>8 DEF e

\* The incoming order of a started call is small if the order is.
LEMMA StartKeepsMarketInv ==
    ASSUME NEW b, SmallWaiting(b), NEW o \in Order, o.remaining_quantity <= MaxQuantity,
           StartProcessing(b, o)
    PROVE  MarketInv'
  <1>1. Effective(o).remaining_quantity = o.remaining_quantity
    BY DEF Effective, Order
  <1>2. book' = b /\ incoming' = Effective(o) /\ status' \in {"killed", "matching"}
    BY DEF StartProcessing
  <1> QED
    BY <1>1, <1>2 DEF MarketInv

\* A new order is an offer.
LEMMA ProcessOffers ==
    ASSUME NEW id \in OrderId, NEW side \in Side, NEW type \in OrderType,
           NEW tif \in TimeInForce, NEW price \in Price, NEW quantity \in 1 .. MaxQuantity,
           IInv, SumInv, MarketInv, ProcessOrder(id, side, type, tif, price, quantity)
    PROVE  (LevelsFit(book') => Market!Next) /\ MarketInv'
  <1> DEFINE o == NewOrder(id, side, type, tif, price, quantity)
             e == Effective(o)
  <1>0. WellFormed(book) /\ Summed(book) /\ SmallWaiting(book) /\ status = "ready"
        /\ incoming = NoOrder
    BY DEF IInv, SumInv, MarketInv, ProcessOrder, Idle
  <1>1. quantity \in Quantity
    BY MaxQuantityAssumption, ModulusAssumption DEF Quantity
  <1>2. o \in Order /\ o.remaining_quantity = quantity
    BY <1>1 DEF NewOrder, Order
  <1>3. StartProcessing(book, o)
    BY DEF ProcessOrder
  <1> HIDE DEF o
  <1>4. MarketInv'
    <2>1. o.remaining_quantity <= MaxQuantity
      BY <1>2, MaxQuantityAssumption, ModulusAssumption
    <2> QED
      BY <1>0, <1>2, <1>3, <2>1, StartKeepsMarketInv
  <1>5. LevelsFit(book') => Market!Enter(WaitingIn(book), TakerOf(e))
    <2> SUFFICES ASSUME LevelsFit(book') PROVE Market!Enter(WaitingIn(book), TakerOf(e))
      OBVIOUS
    <2>1. LevelsFit(book)
      BY <1>3 DEF StartProcessing
    <2> QED
      BY <1>0, <1>2, <1>3, <2>1, StartEnters
  <1>6. TakerOf(e) \in Market!Takers
    <2>1. e \in Order /\ e.remaining_quantity = quantity
      BY <1>2 DEF Effective, Order, TimeInForce
    <2> HIDE DEF e
    <2> QED
      BY <2>1 DEF TakerOf, Order, OrderType, TimeInForce, Side, Market!Takers, Market!Kinds
  <1>7. AbstractTaker = NoOrder
    BY <1>0 DEF AbstractTaker
  <1>8. book' = book
    BY <1>3 DEF StartProcessing
  <1>9. WaitingIn(book)' = WaitingIn(book) /\ AheadIn(book)' = AheadIn(book)
    BY <1>8
  <1>10. LevelsFit(book') => Market!Offer(TakerOf(e))
    BY <1>5, <1>7, <1>9 DEF Market!Offer
  <1>11. LevelsFit(book') => Market!Next
    BY <1>6, <1>10 DEF Market!Next
  <1> QED
    BY <1>4, <1>11

\* A step that leaves book, order and trades alone, and is not about matching.
LEMMA QuietStutters ==
    ASSUME book' = book, incoming' = incoming, trades' = trades,
           (status' = "matching") <=> (status = "matching")
    PROVE  UNCHANGED Market!vars
  BY DEF Market!vars, AbstractTaker, AbstractFills

\* The empty trade buffer of a call that finds nothing to replace.
LEMMA QuietMisses ==
    ASSUME book' = book, incoming' = incoming, trades' = <<>>, incoming = NoOrder,
           status # "matching", status' # "matching"
    PROVE  Market!Next
  <1>1. AbstractTaker = NoOrder /\ AbstractTaker' = AbstractTaker
    BY DEF AbstractTaker
  <1>2. AbstractFills' = <<>>
    BY DEF AbstractFills
  <1>3. WaitingIn(book)' = WaitingIn(book) /\ AheadIn(book)' = AheadIn(book)
    OBVIOUS
  <1>4. Market!Miss
    BY <1>1, <1>2, <1>3 DEF Market!Miss
  <1> QED
    BY <1>4 DEF Market!Next

\* A cancel withdraws the order, or changes nothing that the market sees.
LEMMA CancelWithdraws ==
    ASSUME NEW id \in OrderId, IInv, MarketInv, CancelOrder(id)
    PROVE  (Market!Next \/ UNCHANGED Market!vars) /\ MarketInv'
  <1>0. /\ WellFormed(book) /\ SmallWaiting(book) /\ status = "ready" /\ incoming = NoOrder
        /\ incoming' = incoming /\ trades' = trades
    BY DEF IInv, MarketInv, CancelOrder, Idle
  <1>1. CASE book' = book /\ status' \in {"not_found", "logic_error"}
    <2>1. UNCHANGED Market!vars
      BY <1>0, <1>1, QuietStutters
    <2> QED
      BY <1>0, <1>1, <2>1 DEF MarketInv
  <1>2. CASE \E i : /\ contains(book, id) /\ IsPosition(book, id, i)
                    /\ ~erase_throws(book, id, i)
                    /\ book' = extract_order(book, id, i) /\ status' = "cancelled"
    <2>1. PICK i : /\ contains(book, id) /\ IsPosition(book, id, i)
                   /\ ~erase_throws(book, id, i)
                   /\ book' = extract_order(book, id, i) /\ status' = "cancelled"
      BY <1>2
    <2>2. LeavesMarket(book, book', id)
      BY <1>0, <2>1, ExtractLeaves
    <2>3. id \in DOMAIN WaitingIn(book)
      BY <2>1, WaitingDomains DEF contains
    <2>4. AbstractTaker = NoOrder /\ AbstractTaker' = AbstractTaker
          /\ AbstractFills' = AbstractFills
      BY <1>0 DEF AbstractTaker, AbstractFills
    <2>5. WaitingIn(book)' = Market!Gone(WaitingIn(book), id)
      BY <2>2 DEF LeavesMarket, Market!Gone
    <2>6. AheadIn(book)' = Market!AheadWithout(id)
      BY <2>2 DEF LeavesMarket, Market!AheadWithout
    <2>7. Market!Withdraw(id)
      BY <1>0, <2>1, <2>3, <2>4, <2>5, <2>6 DEF Market!Withdraw
    <2>8. Market!Next
      BY <2>7 DEF Market!Next
    <2>9. SmallWaiting(book')
      BY <1>0, <2>2 DEF SmallWaiting, LeavesMarket
    <2> QED
      BY <1>0, <2>1, <2>8, <2>9 DEF MarketInv
  <1> QED
    BY <1>1, <1>2 DEF CancelOrder

\* A replace takes the order out of its line and enters it again.
LEMMA ReplaceAmends ==
    ASSUME NEW id \in OrderId, NEW price \in Price, NEW quantity \in 1 .. MaxQuantity,
           IInv, SumInv, MarketInv, ReplaceOrder(id, price, quantity)
    PROVE  (LevelsFit(book') => Market!Next) /\ MarketInv'
  <1>0. /\ WellFormed(book) /\ Summed(book) /\ SmallWaiting(book) /\ status = "ready"
        /\ incoming = NoOrder
    BY DEF IInv, SumInv, MarketInv, ReplaceOrder, Idle
  <1> DEFINE at == book.order_locations[id]
             Amended(i) == [book.levels[at.side][at.price].orders[i] EXCEPT
                               !.price = price, !.initial_quantity = quantity,
                               !.remaining_quantity = quantity]
  <1>1. CASE /\ book' = book /\ incoming' = incoming /\ trades' = <<>>
             /\ status' \in {"not_found", "logic_error"}
    <2>1. Market!Next
      BY <1>0, <1>1, QuietMisses
    <2> QED
      BY <1>0, <1>1, <2>1 DEF MarketInv
  <1>2. CASE \E i : /\ contains(book, id) /\ IsPosition(book, id, i)
                    /\ ~erase_throws(book, id, i)
                    /\ StartProcessing(extract_order(book, id, i), Amended(i))
    <2>1. PICK i : /\ contains(book, id) /\ IsPosition(book, id, i)
                   /\ ~erase_throws(book, id, i)
                   /\ StartProcessing(extract_order(book, id, i), Amended(i))
      BY <1>2
    <2> DEFINE nb == extract_order(book, id, i)
               was == book.levels[at.side][at.price].orders[i]
               o == Amended(i)
    <2>2. WellFormed(nb) /\ Summed(nb)
      BY <1>0, <2>1, ExtractedBook, ExtractKeepsSummed
    <2>3. LeavesMarket(book, nb, id)
      BY <1>0, <2>1, ExtractLeaves
    <2>4. was \in Order /\ was.id = id /\ Restable(was) /\ was.side = at.side
      <3>1. /\ book.levels[at.side][at.price].orders = OrdersAt(book, at.side, at.price)
            /\ OrdersAt(book, at.side, at.price)[i] \in Order
            /\ OrdersAt(book, at.side, at.price)[i].id = id
            /\ Restable(OrdersAt(book, at.side, at.price)[i])
            /\ at.side \in Side /\ at.price \in Price
            /\ i \in 1 .. Len(OrdersAt(book, at.side, at.price))
        BY <1>0, <2>1, PositionFacts
      <3>2. i \in DOMAIN OrdersAt(book, at.side, at.price)
        BY <1>0, <3>1, OrdersAtTyped DEF WellFormed
      <3>3. OrdersAt(book, at.side, at.price)[i].side = at.side
        BY <1>0, <3>1, <3>2 DEF WellFormed, OrdersRestable
      <3> QED
        BY <3>1, <3>3
    <2>5. quantity \in Quantity /\ quantity <= MaxQuantity
      BY MaxQuantityAssumption, ModulusAssumption DEF Quantity
    <2>6. /\ o \in Order /\ o.remaining_quantity = quantity /\ o.price = price
          /\ o.id = id /\ o.side = at.side /\ o.type = "Limit"
          /\ o.time_in_force = "GoodTillCancel"
      <3> HIDE DEF was
      <3>1. o = [was EXCEPT !.price = price, !.initial_quantity = quantity,
                            !.remaining_quantity = quantity]
        BY DEF was
      <3> HIDE DEF o, Amended
      <3> QED
        BY <2>4, <2>5, <3>1 DEF Order, Restable
    <2> HIDE DEF Amended, o, nb
    <2>7. StartProcessing(nb, o)
      BY <2>1 DEF nb, o
    <2>8. SmallWaiting(nb)
      BY <1>0, <2>3 DEF SmallWaiting, LeavesMarket
    <2>9. MarketInv'
      BY <2>5, <2>6, <2>7, <2>8, StartKeepsMarketInv
    <2>10. Effective(o) = o
      BY <2>6 DEF Effective
    <2>11. LevelsFit(book') => Market!Enter(WaitingIn(nb), TakerOf(Effective(o)))
      <3> SUFFICES ASSUME LevelsFit(book')
                   PROVE  Market!Enter(WaitingIn(nb), TakerOf(Effective(o)))
        OBVIOUS
      <3>1. LevelsFit(nb)
        BY <2>7 DEF StartProcessing
      <3> QED
        BY <2>2, <2>6, <2>7, <3>1, StartEnters
    <2>12. WaitingIn(nb) = Market!Gone(WaitingIn(book), id)
      BY <2>3 DEF LeavesMarket, Market!Gone
    <2>13. book' = nb
      BY <2>7 DEF StartProcessing
    <2>14. WaitingIn(book)' = Market!Gone(WaitingIn(book), id)
      BY <2>12, <2>13
    <2>15. AheadIn(book)' = Market!AheadWithout(id)
      BY <2>3, <2>13 DEF LeavesMarket, Market!AheadWithout
    <2>16. id \in DOMAIN WaitingIn(book) /\ WaitingIn(book)[id].side = at.side
      BY <2>1 DEF WaitingIn, contains
    <2>17. TakerOf(o) = [id |-> id, side |-> WaitingIn(book)[id].side,
                         kind |-> <<"Limit", "GoodTillCancel">>, price |-> price,
                         left |-> quantity]
      BY <2>6, <2>16 DEF TakerOf
    <2>18. AbstractTaker = NoOrder
      BY <1>0 DEF AbstractTaker
    <2>19. LevelsFit(book') =>
             Market!Enter(Market!Gone(WaitingIn(book), id),
                        [id |-> id, side |-> WaitingIn(book)[id].side,
                         kind |-> <<"Limit", "GoodTillCancel">>, price |-> price,
                         left |-> quantity])
      BY <2>10, <2>11, <2>12, <2>17
    <2>20. LevelsFit(book') => Market!Amend(id, price, quantity)
      BY <2>14, <2>15, <2>16, <2>18, <2>19 DEF Market!Amend
    <2>21. LevelsFit(book') => Market!Next
      BY <2>20 DEF Market!Next
    <2> QED
      BY <2>9, <2>21
  <1> QED
    BY <1>1, <1>2 DEF ReplaceOrder

\* The call returns, and the taker leaves.
LEMMA ReturnLeaves ==
    ASSUME IInv, MarketInv, Return
    PROVE  (Market!Next \/ UNCHANGED Market!vars) /\ MarketInv'
  <1>0. /\ status \notin {"ready", "matching"} /\ status' = "ready" /\ incoming' = NoOrder
        /\ book' = book /\ trades' = trades /\ incoming \in Order \cup {NoOrder}
    BY DEF Return, IInv, TypeOK
  <1>1. MarketInv'
    BY <1>0 DEF MarketInv
  <1>2. CASE incoming = NoOrder
    <2>1. UNCHANGED Market!vars
      BY <1>0, <1>2, QuietStutters
    <2> QED
      BY <1>1, <2>1
  <1>3. CASE incoming # NoOrder
    <2>1. AbstractTaker # NoOrder /\ AbstractTaker' = NoOrder
      BY <1>0, <1>3, TakerIsSome DEF AbstractTaker
    <2>2. WaitingIn(book)' = WaitingIn(book) /\ AheadIn(book)' = AheadIn(book)
          /\ AbstractFills' = AbstractFills
      BY <1>0 DEF AbstractFills
    <2>3. Market!Leave
      BY <1>0, <2>1, <2>2 DEF Market!Leave
    <2>4. Market!Next
      BY <2>3 DEF Market!Next
    <2> QED
      BY <1>1, <2>4
  <1> QED
    BY <1>2, <1>3

\* The loop ends when nothing waits that the order may trade with.
LEMMA LoopDoneSettles ==
    ASSUME IInv, LoopDone
    PROVE  /\ incoming \in Order /\ status = "matching"
           /\ AbstractTaker = TakerOf(incoming)
           /\ AbstractTaker.left = 0 \/ Market!Eligible(WaitingIn(book), AbstractTaker) = {}
  <1>0. WellFormed(book) /\ status = "matching" /\ incoming \in Order
        /\ ~(incoming.remaining_quantity > 0 /\ can_match(book, incoming))
    BY DEF IInv, LoopDone, TypeOK
  <1>1. AbstractTaker = TakerOf(incoming)
    BY <1>0, TakerIsSome DEF AbstractTaker
  <1>2. CASE ~(incoming.remaining_quantity > 0)
    <2>1. incoming.remaining_quantity \in Nat
      BY <1>0, ModulusAssumption DEF Order, Quantity
    <2>2. TakerOf(incoming).left = 0
      BY <1>2, <2>1 DEF TakerOf
    <2> QED
      BY <1>0, <1>1, <2>2
  <1>3. CASE ~can_match(book, incoming)
    <2>1. ASSUME NEW j \in Market!Eligible(WaitingIn(book), TakerOf(incoming)) PROVE FALSE
      <3>1. j \in DOMAIN book.order_locations
        BY <2>1, WaitingDomains DEF Market!Eligible
      <3> DEFINE at == book.order_locations[j]
      <3>2. at.side = Opposite(incoming.side) /\ Crosses(incoming, at.price)
        BY <1>0, <2>1, <3>1, EligibleIs
      <3>3. \E i \in DOMAIN OrdersAt(book, at.side, at.price) :
               OrdersAt(book, at.side, at.price)[i].id = j
        BY <1>0, <3>1 DEF WellFormed, IndexConsistent
      <3>4. at.price \in DOMAIN book.levels[at.side]
        BY <3>3 DEF OrdersAt
      <3> QED
        BY <1>3, <3>2, <3>4 DEF can_match
    <2> QED
      BY <1>0, <1>1, <2>1
  <1> QED
    BY <1>0, <1>2, <1>3

\* An order that is used up, or may not rest, settles without joining a line.
LEMMA CompleteSettles ==
    ASSUME IInv, MarketInv, Complete
    PROVE  Market!Next /\ MarketInv'
  <1>0. /\ LoopDone /\ ~(incoming.remaining_quantity > 0 /\ may_rest(incoming))
        /\ status' = "done" /\ book' = book /\ incoming' = incoming /\ trades' = trades
    BY DEF Complete
  <1>1. /\ incoming \in Order /\ status = "matching"
        /\ AbstractTaker = TakerOf(incoming)
        /\ AbstractTaker.left = 0 \/ Market!Eligible(WaitingIn(book), AbstractTaker) = {}
    BY <1>0, LoopDoneSettles
  <1>2. MarketInv'
    BY <1>0, <1>1 DEF MarketInv
  <1>3. AbstractTaker' = AbstractTaker /\ AbstractFills' = AbstractFills
        /\ WaitingIn(book)' = WaitingIn(book) /\ AheadIn(book)' = AheadIn(book)
    BY <1>0 DEF AbstractTaker, AbstractFills
  <1>4. ~(AbstractTaker.left > 0 /\ AbstractTaker.kind = <<"Limit", "GoodTillCancel">>)
    BY <1>0, <1>1 DEF TakerOf, may_rest
  <1>5. Market!Settle
    BY <1>0, <1>1, <1>3, <1>4 DEF Market!Settle
  <1>6. Market!Next
    BY <1>5 DEF Market!Next
  <1> QED
    BY <1>2, <1>6

\* A rest goes to the end of the line, unless its id waits already.
LEMMA RestSettles ==
    ASSUME IInv, MarketInv, Rest
    PROVE  Market!Next /\ MarketInv'
  <1>0. /\ LoopDone /\ incoming.remaining_quantity > 0 /\ may_rest(incoming)
        /\ incoming' = incoming /\ trades' = trades /\ WellFormed(book) /\ SmallWaiting(book)
    BY DEF Rest, IInv, MarketInv
  <1>1. /\ incoming \in Order /\ status = "matching"
        /\ AbstractTaker = TakerOf(incoming)
        /\ AbstractTaker.left = 0 \/ Market!Eligible(WaitingIn(book), AbstractTaker) = {}
    BY <1>0, LoopDoneSettles
  <1>2. AbstractTaker' = AbstractTaker /\ AbstractFills' = AbstractFills
    BY <1>0 DEF AbstractTaker, AbstractFills
  <1>3. /\ AbstractTaker.left > 0 /\ AbstractTaker.kind = <<"Limit", "GoodTillCancel">>
        /\ AbstractTaker.id = incoming.id /\ AbstractTaker.side = incoming.side
        /\ AbstractTaker.price = incoming.price
        /\ AbstractTaker.left = incoming.remaining_quantity
    BY <1>0, <1>1 DEF TakerOf, may_rest
  <1>4. incoming.id \in DOMAIN WaitingIn(book) <=> contains(book, incoming.id)
    BY WaitingDomains DEF contains
  <1>5. CASE contains(book, incoming.id)
    <2>1. book' = book /\ status' = "invalid_argument"
      BY <1>5 DEF Rest
    <2>2. WaitingIn(book)' = WaitingIn(book) /\ AheadIn(book)' = AheadIn(book)
      BY <2>1
    <2>3. AbstractTaker.id \in DOMAIN WaitingIn(book)
      BY <1>3, <1>4, <1>5
    <2>4. Market!Settle
      BY <1>1, <1>2, <2>1, <2>2, <2>3 DEF Market!Settle
    <2>5. Market!Next
      BY <2>4 DEF Market!Next
    <2> QED
      BY <1>0, <2>1, <2>5 DEF MarketInv
  <1>6. CASE ~contains(book, incoming.id)
    <2>1. book' = add_order(book, incoming) /\ status' = "done"
      BY <1>6 DEF Rest
    <2>2. Restable(incoming)
      BY <1>0 DEF may_rest, Restable
    <2> DEFINE joined ==
                 [j \in DOMAIN WaitingIn(book) \cup {incoming.id} |->
                     IF j = incoming.id THEN Seen(incoming.side, incoming.price, incoming)
                     ELSE WaitingIn(book)[j]]
               behind ==
                 [j \in DOMAIN AheadIn(book) \cup {incoming.id} |->
                     IF j = incoming.id
                     THEN {k \in DOMAIN WaitingIn(book) :
                              /\ WaitingIn(book)[k].side = incoming.side
                              /\ WaitingIn(book)[k].price = incoming.price}
                     ELSE AheadIn(book)[j]]
    <2>3. JoinsMarket(book, add_order(book, incoming), incoming)
      BY <1>0, <1>1, <1>6, <2>2, JoiningTheLine
    <2>4. WaitingIn(add_order(book, incoming)) = joined
          /\ AheadIn(add_order(book, incoming)) = behind
      BY <2>3 DEF JoinsMarket
    <2> HIDE DEF joined, behind
    <2>5. WaitingIn(book)' = joined /\ AheadIn(book)' = behind
      BY <2>1, <2>4
    <2>6. joined = [i \in DOMAIN WaitingIn(book) \cup {AbstractTaker.id} |->
                      IF i = AbstractTaker.id
                      THEN [side |-> AbstractTaker.side, price |-> AbstractTaker.price,
                            left |-> AbstractTaker.left]
                      ELSE WaitingIn(book)[i]]
      BY <1>3 DEF joined, Seen
    <2>7. behind = [i \in DOMAIN AheadIn(book) \cup {AbstractTaker.id} |->
                      IF i = AbstractTaker.id
                      THEN {j \in DOMAIN WaitingIn(book) :
                               /\ WaitingIn(book)[j].side = AbstractTaker.side
                               /\ WaitingIn(book)[j].price = AbstractTaker.price}
                      ELSE AheadIn(book)[i]]
      BY <1>3 DEF behind
    <2>8. AbstractTaker.id \notin DOMAIN WaitingIn(book)
      BY <1>3, <1>4, <1>6
    <2>9. Market!Settle
      BY <1>1, <1>2, <1>3, <2>1, <2>5, <2>6, <2>7, <2>8 DEF Market!Settle
    <2>10. Market!Next
      BY <2>9 DEF Market!Next
    <2>11. incoming.remaining_quantity <= MaxQuantity
      BY <1>1, TakerIsSome DEF MarketInv
    <2>12. SmallWaiting(book')
      <3> SUFFICES ASSUME NEW j \in DOMAIN joined PROVE joined[j].left <= MaxQuantity
        BY <2>1, <2>4 DEF SmallWaiting
      <3> QED
        BY <1>0, <2>11 DEF joined, Seen, SmallWaiting
    <2> QED
      BY <1>0, <2>1, <2>10, <2>11, <2>12 DEF MarketInv
  <1> QED
    BY <1>5, <1>6

\* The market's list of fills grows as the trade buffer does.
FillOf(x) == <<x.buy_order_id, x.sell_order_id, x.price, x.quantity>>
FillsOf(list) == [i \in DOMAIN list |-> FillOf(list[i])]

LEMMA FillsAppend ==
    ASSUME NEW list \in Seq(Trade), NEW x \in Trade
    PROVE  FillsOf(Append(list, x)) = Append(FillsOf(list), FillOf(x))
  <1> DEFINE n == Len(list)
             Fills == OrderId \X OrderId \X Price \X Quantity
  <1>1. /\ n \in Nat /\ DOMAIN list = 1 .. n /\ DOMAIN Append(list, x) = 1 .. n + 1
        /\ \A i \in 1 .. n : list[i] \in Trade /\ Append(list, x)[i] = list[i]
        /\ Append(list, x)[n + 1] = x
    OBVIOUS
  <1>2. \A y \in Trade : FillOf(y) \in Fills
    BY DEF Trade, FillOf
  <1> HIDE DEF n, Fills
  <1>3. FillsOf(list) \in [1 .. n -> Fills]
    BY <1>1, <1>2 DEF FillsOf
  <1>4. FillsOf(list) \in Seq(Fills) /\ Len(FillsOf(list)) = n
    BY <1>1, <1>3
  <1>5. /\ DOMAIN Append(FillsOf(list), FillOf(x)) = 1 .. n + 1
        /\ \A i \in 1 .. n : Append(FillsOf(list), FillOf(x))[i] = FillsOf(list)[i]
        /\ Append(FillsOf(list), FillOf(x))[n + 1] = FillOf(x)
        /\ Append(FillsOf(list), FillOf(x)) \in Seq(Fills)
    BY <1>1, <1>2, <1>4
  <1>6. /\ DOMAIN FillsOf(Append(list, x)) = 1 .. n + 1
        /\ \A i \in 1 .. n + 1 : FillsOf(Append(list, x))[i] = FillOf(Append(list, x)[i])
    BY <1>1 DEF FillsOf
  <1>7. \A i \in 1 .. n : FillsOf(list)[i] = FillOf(list[i])
    BY <1>1 DEF FillsOf
  <1>8. ASSUME NEW i \in 1 .. n + 1
        PROVE  FillsOf(Append(list, x))[i] = Append(FillsOf(list), FillOf(x))[i]
    <2>1. i \in 1 .. n \/ i = n + 1
      BY <1>1
    <2> QED
      BY <1>1, <1>5, <1>6, <1>7, <2>1
  <1>9. FillsOf(Append(list, x)) = [i \in 1 .. n + 1 |-> FillsOf(Append(list, x))[i]]
    BY <1>6 DEF FillsOf
  <1>10. Append(FillsOf(list), FillOf(x))
            = [i \in 1 .. n + 1 |-> Append(FillsOf(list), FillOf(x))[i]]
    <2> DEFINE q == Append(FillsOf(list), FillOf(x))
    <2>1. q \in Seq(Fills) /\ DOMAIN q = 1 .. n + 1
      BY <1>5
    <2> HIDE DEF q
    <2>2. q \in [1 .. Len(q) -> Fills] /\ DOMAIN q = 1 .. Len(q)
      BY <2>1
    <2>3. q = [i \in DOMAIN q |-> q[i]]
      BY <2>2
    <2> QED
      BY <2>1, <2>3 DEF q
  <1> QED
    BY <1>8, <1>9, <1>10

\* An iteration of the loop trades with the first in line at the best price.
LEMMA MatchStepFillsFirst ==
    ASSUME IInv, MarketInv, MatchStep
    PROVE  Market!Next /\ MarketInv'
  <1> DEFINE side == Opposite(incoming.side)
             t == TakerOf(incoming)
             w == WaitingIn(book)
  <1>0. WellFormed(book) /\ WellFormed(book') /\ IsBook(book) /\ SmallWaiting(book)
    BY MatchStepKeepsIInv DEF IInv, MarketInv, WellFormed
  <1>1. /\ incoming \in Order /\ status = "matching" /\ status' = status
        /\ incoming.remaining_quantity > 0 /\ trades \in Seq(Trade)
        /\ side \in Side
    BY MatchStepFills
  <1>2. PICK p \in DOMAIN book.levels[side] : \E quantity \in Nat : FillsAt(p, quantity)
    BY MatchStepFills
  <1>3. PICK quantity \in Nat : FillsAt(p, quantity)
    BY <1>2
  <1> DEFINE resting == OrdersAt(book, side, p)[1]
             id == resting.id
  <1>4. /\ IsBest(book, side, p) /\ Crosses(incoming, p)
        /\ quantity = IF incoming.remaining_quantity < resting.remaining_quantity
                      THEN incoming.remaining_quantity ELSE resting.remaining_quantity
        /\ quantity \in 1 .. Head(book.levels[side][p].orders).remaining_quantity
        /\ trades' = Append(trades, TradeWith(p, quantity))
        /\ incoming' = [incoming EXCEPT !.remaining_quantity = @ - quantity]
        /\ incoming' \in Order
        /\ book' = fill_front(book, side, p, quantity)
    BY <1>3 DEF FillsAt
  <1>5. /\ p \in Price /\ 1 \in DOMAIN OrdersAt(book, side, p)
        /\ resting \in Order /\ resting.remaining_quantity > 0
    BY <1>0, <1>1, FrontFacts
  <1>6. Stands(book, id, OrdersAt(book, side, p), side, p, 1)
    BY <1>0, <1>1, <1>5, PlaceIs
  <1>7. /\ id \in DOMAIN book.order_locations
        /\ book.order_locations[id] = [side |-> side, price |-> p]
        /\ w[id] = Seen(side, p, resting)
    BY <1>6 DEF Stands
  <1>8. AheadIn(book)[id] = {}
    <2>1. Names(OrdersAt(book, side, p), 1 - 1) = {}
      BY DEF Names
    <2> QED
      BY <1>6, <2>1 DEF Stands
  <1> HIDE DEF resting, id, side
  <1>9. /\ id \in DOMAIN w /\ w[id].side = side /\ w[id].price = p
        /\ w[id].left = resting.remaining_quantity
    <2>1. id \in DOMAIN w
      BY <1>7, WaitingDomains
    <2> HIDE DEF w
    <2> QED
      BY <1>7, <2>1 DEF Seen
  <1>10. id \in Market!Eligible(w, t)
    BY <1>0, <1>1, <1>4, <1>7, EligibleIs DEF side
  <1>11. ASSUME NEW j \in Market!Eligible(w, t)
         PROVE  /\ w[j].price \in Int /\ p \in Int
                /\ IF incoming.side = "Buy" THEN p <= w[j].price ELSE p >= w[j].price
    <2>1. j \in DOMAIN book.order_locations
      BY <1>11, WaitingDomains DEF Market!Eligible
    <2> DEFINE at == book.order_locations[j]
    <2>2. at.side = side
      BY <1>0, <1>1, <1>11, <2>1, EligibleIs DEF side
    <2>3. \E i \in DOMAIN OrdersAt(book, at.side, at.price) :
             OrdersAt(book, at.side, at.price)[i].id = j
      BY <1>0, <2>1 DEF WellFormed, IndexConsistent
    <2>4. at.price \in DOMAIN book.levels[at.side]
      BY <2>3 DEF OrdersAt
    <2>5. w[j].price = at.price
      BY <2>1 DEF WaitingIn
    <2>6. IF side = "Buy" THEN at.price <= p ELSE at.price >= p
      BY <1>4, <2>2, <2>4 DEF IsBest
    <2>7. at.price \in Int /\ p \in Int
      BY <1>0, <1>5, <2>1, PriceAssumption DEF IsBook, IsMap, OrderLocation
    <2>8. side = "Buy" <=> incoming.side # "Buy"
      BY <1>1 DEF side, Opposite, Order, Side
    <2> QED
      BY <2>5, <2>6, <2>7, <2>8
  <1>12. AbstractTaker = t /\ AbstractTaker' = TakerOf(incoming')
    BY <1>1, <1>4, TakerIsSome DEF AbstractTaker
  <1>13. /\ t.side = incoming.side /\ t.left = incoming.remaining_quantity /\ t.id = incoming.id
    BY DEF TakerOf
  <1> HIDE DEF t, w
  <1>14. Market!FirstInLine(id, t)
    BY <1>8, <1>9, <1>10, <1>11, <1>13 DEF Market!FirstInLine, w
  <1>15. quantity = IF t.left < w[id].left THEN t.left ELSE w[id].left
    BY <1>4, <1>9, <1>13
  <1>16. AbstractTaker' = [AbstractTaker EXCEPT !.left = @ - quantity]
    <2>1. /\ incoming'.id = incoming.id /\ incoming'.side = incoming.side
          /\ incoming'.type = incoming.type /\ incoming'.price = incoming.price
          /\ incoming'.time_in_force = incoming.time_in_force
          /\ incoming'.remaining_quantity = incoming.remaining_quantity - quantity
      BY <1>1, <1>4 DEF Order
    <2>2. TakerOf(incoming') = [id |-> incoming.id, side |-> incoming.side,
                                kind |-> <<incoming.type, incoming.time_in_force>>,
                                price |-> incoming.price,
                                left |-> incoming.remaining_quantity - quantity]
      BY <2>1 DEF TakerOf
    <2>3. [t EXCEPT !.left = @ - quantity] = TakerOf(incoming')
      BY <2>2 DEF t, TakerOf
    <2> QED
      BY <1>12, <2>3
  <1>17. AbstractFills' = Append(AbstractFills,
                             IF t.side = "Buy" THEN <<t.id, id, w[id].price, quantity>>
                                               ELSE <<id, t.id, w[id].price, quantity>>)
    <2> DEFINE trade == TradeWith(p, quantity)
    <2>1. trade \in Trade
      BY <1>3 DEF FillsAt
    <2>2. FillOf(trade) = IF t.side = "Buy" THEN <<t.id, id, w[id].price, quantity>>
                                            ELSE <<id, t.id, w[id].price, quantity>>
      BY <1>9, <1>13 DEF FillOf, TradeWith, id, resting, side
    <2> HIDE DEF trade
    <2>3. FillsOf(Append(trades, trade)) = Append(FillsOf(trades), FillOf(trade))
      BY <1>1, <2>1, FillsAppend
    <2>4. AbstractFills = FillsOf(trades) /\ AbstractFills' = FillsOf(trades')
      BY DEF AbstractFills, FillsOf, FillOf
    <2> QED
      BY <1>4, <2>2, <2>3, <2>4 DEF trade
  <1>18. /\ quantity = w[id].left => /\ WaitingIn(book)' = Market!Gone(WaitingIn(book), id)
                                     /\ AheadIn(book)' = Market!AheadWithout(id)
         /\ quantity # w[id].left =>
               /\ WaitingIn(book)' = [WaitingIn(book) EXCEPT ![id].left = @ - quantity]
               /\ AheadIn(book)' = AheadIn(book)
         /\ SmallWaiting(book')
    <2>1. OrdersAt(book, side, p)[1].id = id
      BY DEF id, resting
    <2>2. CASE quantity = w[id].left
      <3>1. OrdersAt(book, side, p)[1].remaining_quantity = quantity
        BY <1>9, <2>2 DEF resting
      <3>2. LeavesMarket(book, book', id)
        BY <1>0, <1>1, <1>4, <2>1, <3>1, FillLeaves
      <3>3. WaitingIn(book') = Market!Gone(WaitingIn(book), id)
            /\ AheadIn(book') = Market!AheadWithout(id)
        BY <3>2 DEF LeavesMarket, Market!Gone, Market!AheadWithout
      <3>4. SmallWaiting(book')
        BY <1>0, <3>2 DEF SmallWaiting, LeavesMarket
      <3> QED
        BY <2>2, <3>3, <3>4
    <2>3. CASE quantity # w[id].left
      <3>1. OrdersAt(book, side, p)[1].remaining_quantity # quantity
        BY <1>9, <2>3 DEF resting
      <3>2. ShrinksInMarket(book, book', id, quantity)
        BY <1>0, <1>1, <1>4, <2>1, <3>1, FillingThePart
      <3>3. WaitingIn(book') = [WaitingIn(book) EXCEPT ![id].left = @ - quantity]
        BY <3>2 DEF ShrinksInMarket
      <3>4. AheadIn(book') = AheadIn(book)
        BY <3>2 DEF ShrinksInMarket
      <3>5. SmallWaiting(book')
        <4>1. resting.remaining_quantity \in Nat /\ resting.remaining_quantity <= MaxQuantity
          BY <1>0, <1>5, <1>9, ModulusAssumption DEF Order, Quantity, SmallWaiting, w
        <4>2. WaitingIn(book)[id].left = resting.remaining_quantity
          BY <1>9 DEF w
        <4>3. WaitingIn(book)[id] = Seen(side, p, resting)
          BY <1>7 DEF w
        <4>4. ASSUME NEW j \in DOMAIN WaitingIn(book')
              PROVE  WaitingIn(book')[j].left <= MaxQuantity
          <5>1. j \in DOMAIN WaitingIn(book)
            BY <3>3
          <5>2. CASE j # id
            <6>1. WaitingIn(book')[j] = WaitingIn(book)[j]
              BY <3>3, <5>1, <5>2
            <6> QED
              BY <1>0, <5>1, <6>1 DEF SmallWaiting
          <5>3. CASE j = id
            <6>1. WaitingIn(book')[j] = [WaitingIn(book)[id] EXCEPT !.left = @ - quantity]
              BY <3>3, <5>1, <5>3
            <6>2. WaitingIn(book')[j].left = resting.remaining_quantity - quantity
              BY <4>2, <4>3, <6>1 DEF Seen
            <6> QED
              BY <4>1, <6>2, MaxQuantityAssumption, ModulusAssumption
          <5> QED
            BY <5>2, <5>3
        <4> QED
          BY <4>4 DEF SmallWaiting
      <3> QED
        BY <2>3, <3>3, <3>4, <3>5
    <2> QED
      BY <2>2, <2>3
  <1>19. Market!Fill
    <2>1. AbstractTaker.left > 0 /\ id \in DOMAIN WaitingIn(book)
          /\ Market!FirstInLine(id, AbstractTaker)
      BY <1>1, <1>9, <1>12, <1>13, <1>14 DEF w
    <2> DEFINE amount == IF AbstractTaker.left < WaitingIn(book)[id].left
                         THEN AbstractTaker.left ELSE WaitingIn(book)[id].left
    <2>2. amount = quantity
      BY <1>12, <1>15 DEF w
    <2>3. AbstractFills' = Append(AbstractFills,
                             IF AbstractTaker.side = "Buy"
                             THEN <<AbstractTaker.id, id, WaitingIn(book)[id].price, amount>>
                             ELSE <<id, AbstractTaker.id, WaitingIn(book)[id].price, amount>>)
      BY <1>12, <1>17, <2>2 DEF w
    <2>4. AbstractTaker' = [AbstractTaker EXCEPT !.left = @ - amount]
      BY <1>16, <2>2
    <2>5. IF amount = WaitingIn(book)[id].left
          THEN /\ WaitingIn(book)' = Market!Gone(WaitingIn(book), id)
               /\ AheadIn(book)' = Market!AheadWithout(id)
          ELSE /\ WaitingIn(book)' = [WaitingIn(book) EXCEPT ![id].left = @ - amount]
               /\ AheadIn(book)' = AheadIn(book)
      BY <1>18, <2>2 DEF w
    <2> QED
      BY <1>1, <2>1, <2>3, <2>4, <2>5 DEF Market!Fill
  <1>20. Market!Next
    BY <1>19 DEF Market!Next
  <1>21. MarketInv'
    <2>1. incoming.remaining_quantity \in Nat /\ incoming.remaining_quantity <= MaxQuantity
      BY <1>1, TakerIsSome, ModulusAssumption DEF MarketInv, Order, Quantity
    <2>2. incoming'.remaining_quantity = incoming.remaining_quantity - quantity
      BY <1>1, <1>4 DEF Order
    <2>3. incoming'.remaining_quantity <= MaxQuantity
      BY <2>1, <2>2, MaxQuantityAssumption, ModulusAssumption
    <2> QED
      BY <1>1, <1>18, <2>3 DEF MarketInv
  <1> QED
    BY <1>20, <1>21

\* The empty book is the empty market.
LEMMA InitIsMarket == Init => Market!Init /\ MarketInv
  <1> SUFFICES ASSUME Init PROVE Market!Init /\ MarketInv
    OBVIOUS
  <1>1. book = EmptyBook /\ incoming = NoOrder /\ trades = <<>> /\ status = "ready"
    BY DEF Init
  <1>2. DOMAIN book.order_locations = {}
    BY <1>1 DEF EmptyBook
  <1>3. WaitingIn(book) = [i \in {} |-> {}] /\ AheadIn(book) = [i \in {} |-> {}]
    BY <1>2 DEF WaitingIn, AheadIn
  <1>4. AbstractTaker = NoOrder /\ AbstractFills = <<>>
    BY <1>1 DEF AbstractTaker, AbstractFills
  <1>5. SmallWaiting(book)
    BY <1>2, WaitingDomains DEF SmallWaiting
  <1>6. Market!Init
    BY <1>1, <1>3, <1>4 DEF Market!Init
  <1> QED
    BY <1>1, <1>5, <1>6 DEF MarketInv

\* What waits at every level fits in its running total.
NoTotalWraps == LevelsFit(book)

\* Every step of the engine that leaves no total wrapped is a step of the market, or one
\* that the market does not see.
LEMMA NextIsMarket ==
    ASSUME IInv, SumInv, MarketInv, [Next]_vars
    PROVE  /\ LevelsFit(book') => (Market!Next \/ UNCHANGED Market!vars)
           /\ MarketInv'
  <1>1. ASSUME NEW id \in OrderId, NEW side \in Side, NEW type \in OrderType,
               NEW tif \in TimeInForce, NEW price \in Price, NEW quantity \in 1 .. MaxQuantity,
               ProcessOrder(id, side, type, tif, price, quantity)
        PROVE  (LevelsFit(book') => Market!Next) /\ MarketInv'
    BY <1>1, ProcessOffers
  <1>2. CASE ProcessZeroQuantity
    <2>1. /\ status = "ready" /\ status' = "invalid_argument" /\ book' = book
          /\ incoming' = incoming /\ trades' = trades
      BY <1>2 DEF ProcessZeroQuantity, Idle
    <2>2. UNCHANGED Market!vars
      BY <2>1, QuietStutters
    <2> QED
      BY <2>1, <2>2 DEF MarketInv
  <1>3. CASE MatchStep
    BY <1>3, MatchStepFillsFirst
  <1>4. CASE Rest
    BY <1>4, RestSettles
  <1>5. CASE Complete
    BY <1>5, CompleteSettles
  <1>6. ASSUME NEW id \in OrderId, CancelOrder(id)
        PROVE  (Market!Next \/ UNCHANGED Market!vars) /\ MarketInv'
    BY <1>6, CancelWithdraws
  <1>7. ASSUME NEW id \in OrderId, NEW price \in Price, NEW quantity \in 1 .. MaxQuantity,
               ReplaceOrder(id, price, quantity)
        PROVE  (LevelsFit(book') => Market!Next) /\ MarketInv'
    BY <1>7, ReplaceAmends
  <1>8. CASE Return
    BY <1>8, ReturnLeaves
  <1>9. CASE UNCHANGED vars
    <2>1. book' = book /\ incoming' = incoming /\ trades' = trades /\ status' = status
      BY <1>9 DEF vars
    <2>2. UNCHANGED Market!vars
      BY <2>1, QuietStutters
    <2> QED
      BY <2>1, <2>2 DEF MarketInv
  <1> QED
    BY <1>1, <1>2, <1>3, <1>4, <1>5, <1>6, <1>7, <1>8, <1>9 DEF Next

\* The invariant of the mapping holds throughout.
LEMMA MarketInvariant == Spec => []MarketInv
  <1>1. Init => MarketInv
    BY InitIsMarket
  <1>2. IInv /\ SumInv /\ MarketInv /\ [Next]_vars => MarketInv'
    BY NextIsMarket
  <1> QED
    BY <1>1, <1>2, EngineInvariant, QuantityInvariant, PTL DEF Spec

\* As long as no running total wraps, the engine of matching_engine.hpp, with its level
\* maps, lists, index and totals, implements the price-time priority market: each trade
\* is with the first in line at the best price, a replaced order gives up its place, and
\* a fill-or-kill order is killed exactly when too little waits for it.
THEOREM EngineImplementsMarket ==
    Spec /\ []NoTotalWraps => ImplementsPriceTimePriority
  <1>1. Init => Market!Init
    BY InitIsMarket
  <1>2. IInv /\ SumInv /\ MarketInv /\ [Next]_vars /\ NoTotalWraps'
           => [Market!Next]_(Market!vars)
    BY NextIsMarket DEF NoTotalWraps
  <1> QED
    BY <1>1, <1>2, EngineInvariant, QuantityInvariant, MarketInvariant, PTL
       DEF Spec, ImplementsPriceTimePriority, Market!Spec

\* No total wraps where all the orders there can be, at their largest, fit in a Quantity.
THEOREM FewOrdersNeverWrap ==
    ASSUME TotalsFit
    PROVE  Spec => []NoTotalWraps
  <1>1. IInv /\ MarketInv => NoTotalWraps
    <2> SUFFICES ASSUME IInv, MarketInv PROVE LevelsFit(book)
      BY DEF NoTotalWraps
    <2>1. WellFormed(book) /\ SmallOrders(book)
      BY WaitingAreSmall DEF IInv, MarketInv
    <2> QED
      BY <2>1, LineFits DEF LevelsFit
  <1> QED
    BY <1>1, EngineInvariant, MarketInvariant, PTL

-----------------------------------------------------------------------------
(* The running totals cover their orders *)

\* No order is larger than the total of its level, so PriceLevel::erase does not throw.
LEMMA TotalCovers ==
    ASSUME NEW b, WellFormed(b), Summed(b), LevelsFit(b), NEW id, contains(b, id), NEW i, IsPosition(b, id, i)
    PROVE  ~erase_throws(b, id, i)
  <1> DEFINE s == b.order_locations[id].side
             p == b.order_locations[id].price
             was == OrdersAt(b, s, p)
  <1>1. /\ s \in Side /\ p \in DOMAIN b.levels[s] /\ p \in Price
        /\ b.levels[s][p].orders = was /\ i \in 1 .. Len(was)
    BY PositionFacts
  <1>2. was \in Seq(Order)
    BY <1>1, OrdersAtTyped DEF WellFormed
  <1>3. b.levels[s][p].total_quantity = RemainingSum(was)
    BY <1>1, TotalIsExact
  <1>4. erase_throws(b, id, i) <=> was[i].remaining_quantity > RemainingSum(was)
    BY <1>1, <1>3 DEF erase_throws
  <1> HIDE DEF was
  <1>5. /\ \A k \in 1 .. Len(was) : /\ Remaining(was)[k] \in Nat
                                    /\ Remaining(was)[k] = was[k].remaining_quantity
        /\ RemainingSum(was) = SumOver(Remaining(was), 1 .. Len(was))
        /\ Len(was) \in Nat
    BY <1>2, RemainingSumIs
  <1>6. Summable(Remaining(was), 1 .. Len(was))
    BY <1>5, FS_Interval DEF Summable
  <1> DEFINE rest == SumOver(Remaining(was), (1 .. Len(was)) \ {i})
  <1>7. rest \in Nat /\ SumOver(Remaining(was), 1 .. Len(was)) = rest + Remaining(was)[i]
    BY <1>1, <1>6, SumWithout
  <1> HIDE DEF rest
  <1> QED
    BY <1>1, <1>4, <1>5, <1>7

\* The check "Price level quantity is inconsistent" of PriceLevel::erase never fires as
\* long as no total wraps: the overflow is the only way to it.
THEOREM TotalsAlwaysCover ==
    Spec /\ []NoTotalWraps => []LevelQuantityConsistent
  <1>1. Init => LevelQuantityConsistent
    BY DEF Init, LevelQuantityConsistent
  <1>2. IInv /\ SumInv /\ NoTotalWraps /\ LevelQuantityConsistent /\ [Next]_vars
           => LevelQuantityConsistent'
    <2> SUFFICES ASSUME IInv, SumInv, NoTotalWraps, LevelQuantityConsistent, [Next]_vars
                 PROVE  status' # "logic_error"
      BY DEF LevelQuantityConsistent
    <2>1. WellFormed(book) /\ Summed(book) /\ LevelsFit(book)
      BY DEF IInv, SumInv, NoTotalWraps
    <2>2. \A id, i : contains(book, id) /\ IsPosition(book, id, i) => ~erase_throws(book, id, i)
      BY <2>1, TotalCovers
    <2>3. ASSUME NEW id \in OrderId, CancelOrder(id) PROVE status' # "logic_error"
      BY <2>2, <2>3 DEF CancelOrder
    <2>4. ASSUME NEW id \in OrderId, NEW price \in Price, NEW quantity \in 1 .. MaxQuantity,
                 ReplaceOrder(id, price, quantity)
          PROVE  status' # "logic_error"
      BY <2>2, <2>4 DEF ReplaceOrder, StartProcessing
    <2>5. ASSUME NEW id \in OrderId, NEW side \in Side, NEW type \in OrderType,
                 NEW tif \in TimeInForce, NEW price \in Price, NEW quantity \in 1 .. MaxQuantity,
                 ProcessOrder(id, side, type, tif, price, quantity)
          PROVE  status' # "logic_error"
      BY <2>5 DEF ProcessOrder, StartProcessing
    <2>6. CASE ProcessZeroQuantity \/ MatchStep \/ Complete \/ Return \/ UNCHANGED vars
      <3>1. status' \in {"invalid_argument", "done", "ready", status}
        BY <2>6 DEF ProcessZeroQuantity, MatchStep, Complete, Return, vars
      <3> QED
        BY <3>1 DEF LevelQuantityConsistent
    <2>7. CASE Rest
      BY <2>7 DEF Rest
    <2> QED
      BY <2>3, <2>4, <2>5, <2>6, <2>7 DEF Next
  <1> QED
    BY <1>1, <1>2, EngineInvariant, QuantityInvariant, PTL DEF Spec
=============================================================================
