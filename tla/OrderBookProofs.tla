--------------------------- MODULE OrderBookProofs ---------------------------
(***************************************************************************)
(* What the three operations that change a book keep: its type, the        *)
(* agreement of index and lists, and that only populated levels of         *)
(* restable orders stay. MatchingEngineProofs builds on these lemmas.      *)
(***************************************************************************)
EXTENDS OrderBook, SumsProofs

\* The book part of the inductive invariant.
WellFormed(b) ==
    /\ IsBook(b)
    /\ IndexConsistent(b)
    /\ LevelsPopulated(b)
    /\ OrdersRestable(b)

\* Unsigned arithmetic stays within the width of Quantity.
LEMMA WrapIsQuantity ==
    ASSUME NEW x \in Int
    PROVE  x % QuantityModulus \in Quantity
  BY ModulusAssumption DEF Quantity

\* A level of a typed book: its total and its orders, one by one.
LEMMA LevelTyped ==
    ASSUME NEW b, IsBook(b), NEW s \in Side, NEW p \in DOMAIN b.levels[s]
    PROVE  /\ p \in Price
           /\ b.levels[s][p] = [orders |-> b.levels[s][p].orders,
                                total_quantity |-> b.levels[s][p].total_quantity]
           /\ b.levels[s][p].total_quantity \in Quantity
           /\ b.levels[s][p].orders \in Seq(Order)
           /\ DOMAIN b.levels[s][p].orders = 1 .. Len(b.levels[s][p].orders)
           /\ \A i \in DOMAIN b.levels[s][p].orders : b.levels[s][p].orders[i] \in Order
  <1>1. b.levels[s] \in [DOMAIN b.levels[s] -> PriceLevel] /\ p \in Price
    BY DEF IsBook, IsMap
  <1>2. b.levels[s][p] \in PriceLevel
    BY <1>1
  <1>3. b.levels[s][p].orders \in Seq(Order)
    BY <1>2 DEF PriceLevel
  <1> QED
    BY <1>1, <1>2, <1>3 DEF PriceLevel

\* The orders at a price are a list of orders, whether or not there is a level.
LEMMA OrdersAtTyped ==
    ASSUME NEW b, IsBook(b), NEW s \in Side, NEW p \in Price
    PROVE  /\ OrdersAt(b, s, p) \in Seq(Order)
           /\ DOMAIN OrdersAt(b, s, p) = 1 .. Len(OrdersAt(b, s, p))
           /\ Len(OrdersAt(b, s, p)) \in Nat
           /\ \A i \in 1 .. Len(OrdersAt(b, s, p)) : OrdersAt(b, s, p)[i] \in Order
  <1>1. OrdersAt(b, s, p) \in Seq(Order)
    <2>1. CASE p \in DOMAIN b.levels[s]
      BY <2>1, LevelTyped DEF OrdersAt
    <2>2. CASE p \notin DOMAIN b.levels[s]
      BY <2>2 DEF OrdersAt
    <2> QED
      BY <2>1, <2>2
  <1> QED
    BY <1>1

\* What a well formed book says of the i-th order at a side and price.
InPlace(b, s, p, i) ==
    LET orders == OrdersAt(b, s, p)
    IN  /\ orders[i].id \in DOMAIN b.order_locations
        /\ b.order_locations[orders[i].id] = [side |-> s, price |-> p]
        /\ \A j \in DOMAIN orders : orders[j].id = orders[i].id => j = i
        /\ Restable(orders[i])
        /\ orders[i].remaining_quantity > 0
        /\ orders[i].side = s
        /\ orders[i].price = p

\* A consistent index and restable orders, said of one order of the book.
LEMMA OrdersInPlace ==
    ASSUME NEW b, IndexConsistent(b), OrdersRestable(b),
           NEW s \in Side, NEW p \in Price, NEW i \in DOMAIN OrdersAt(b, s, p)
    PROVE  InPlace(b, s, p, i)
  <1>1. /\ OrdersAt(b, s, p)[i].id \in DOMAIN b.order_locations
        /\ b.order_locations[OrdersAt(b, s, p)[i].id] = [side |-> s, price |-> p]
        /\ \A j \in DOMAIN OrdersAt(b, s, p) :
              OrdersAt(b, s, p)[j].id = OrdersAt(b, s, p)[i].id => j = i
    BY DEF IndexConsistent
  <1>2. /\ Restable(OrdersAt(b, s, p)[i])
        /\ OrdersAt(b, s, p)[i].remaining_quantity > 0
        /\ OrdersAt(b, s, p)[i].side = s
        /\ OrdersAt(b, s, p)[i].price = p
    BY DEF OrdersRestable
  <1> QED
    BY <1>1, <1>2 DEF InPlace

\* And the other way round.
LEMMA InPlaceSuffices ==
    ASSUME NEW b,
           \A id \in DOMAIN b.order_locations :
              LET orders == OrdersAt(b, b.order_locations[id].side,
                                        b.order_locations[id].price)
              IN  \E i \in DOMAIN orders : orders[i].id = id,
           \A s \in Side, p \in Price :
              \A i \in DOMAIN OrdersAt(b, s, p) : InPlace(b, s, p, i)
    PROVE  IndexConsistent(b) /\ OrdersRestable(b)
  <1>1. IndexConsistent(b)
    BY Zenon DEF IndexConsistent, InPlace
  <1>2. OrdersRestable(b)
    <2> SUFFICES ASSUME NEW s \in Side, NEW p \in Price, NEW i \in DOMAIN OrdersAt(b, s, p)
                 PROVE  LET o == OrdersAt(b, s, p)[i]
                        IN  Restable(o) /\ o.remaining_quantity > 0
                            /\ o.side = s /\ o.price = p
      BY DEF OrdersRestable
    <2>1. InPlace(b, s, p, i)
      OBVIOUS
    <2> QED
      BY <2>1 DEF InPlace
  <1> QED
    BY <1>1, <1>2

\* The running total at a price, which is zero where there is no level.
TotalAt(b, s, p) == IF p \in DOMAIN b.levels[s] THEN b.levels[s][p].total_quantity ELSE 0

\* The parts of the book that add_order returns.
LEMMA AddOrderParts ==
    ASSUME NEW b, IsBook(b), NEW o \in Order
    PROVE  LET nb == add_order(b, o)
           IN  /\ IsBook(nb)
               /\ \A s \in Side : s # o.side => nb.levels[s] = b.levels[s]
               /\ DOMAIN nb.levels[o.side] = DOMAIN b.levels[o.side] \cup {o.price}
               /\ \A s \in Side, p \in Price :
                     OrdersAt(nb, s, p) = IF s = o.side /\ p = o.price
                                          THEN Append(OrdersAt(b, s, p), o)
                                          ELSE OrdersAt(b, s, p)
               /\ nb.levels[o.side][o.price].total_quantity =
                     (TotalAt(b, o.side, o.price) + o.remaining_quantity) % QuantityModulus
               /\ \A p \in DOMAIN b.levels[o.side] :
                     p # o.price => nb.levels[o.side][p] = b.levels[o.side][p]
               /\ nb.order_locations = Put(b.order_locations, o.id,
                                           [side |-> o.side, price |-> o.price])
  <1> DEFINE nb == add_order(b, o)
             side == b.levels[o.side]
             level == IF o.price \in DOMAIN side THEN side[o.price]
                      ELSE [total_quantity |-> 0, orders |-> <<>>]
             added == [total_quantity |-> (level.total_quantity + o.remaining_quantity)
                                             % QuantityModulus,
                       orders |-> Append(level.orders, o)]
  <1>1. o.side \in Side /\ o.price \in Price /\ o.id \in OrderId
        /\ o.remaining_quantity \in Quantity
    BY DEF Order
  <1>2. b.levels = [s \in Side |-> b.levels[s]]
    BY DEF IsBook
  <1>3. level.total_quantity \in Quantity /\ level.orders \in Seq(Order)
    <2>1. CASE o.price \in DOMAIN side
      <3>1. side[o.price].total_quantity \in Quantity /\ side[o.price].orders \in Seq(Order)
        BY <1>1, <2>1, LevelTyped
      <3> QED
        BY <2>1, <3>1
    <2>2. CASE o.price \notin DOMAIN side
      <3>1. 0 \in Quantity
        BY ModulusAssumption DEF Quantity
      <3> QED
        BY <2>2, <3>1
    <2> QED
      BY <2>1, <2>2
  <1>4. added \in PriceLevel
    <2>1. (level.total_quantity + o.remaining_quantity) % QuantityModulus \in Quantity
      <3> HIDE DEF level
      <3>1. level.total_quantity + o.remaining_quantity \in Int
        BY <1>1, <1>3, ModulusAssumption DEF Quantity
      <3> QED
        BY <3>1, WrapIsQuantity
    <2>2. Append(level.orders, o) \in Seq(Order)
      BY <1>3
    <2> QED
      BY <2>1, <2>2 DEF PriceLevel
  <1>5. nb.levels = [b.levels EXCEPT ![o.side] = Put(side, o.price, added)]
        /\ nb.order_locations = Put(b.order_locations, o.id,
                                    [side |-> o.side, price |-> o.price])
        /\ nb = [levels |-> nb.levels, order_locations |-> nb.order_locations]
    BY DEF add_order, level_add_order
  <1> HIDE DEF nb, added, level
  <1>6. /\ nb.levels[o.side] = Put(side, o.price, added)
        /\ \A s \in Side : s # o.side => nb.levels[s] = b.levels[s]
        /\ nb.levels = [s \in Side |-> nb.levels[s]]
    BY <1>1, <1>2, <1>5
  <1>7. IsMap(side, Price, PriceLevel) /\ IsMap(b.order_locations, OrderId, OrderLocation)
    BY <1>1 DEF IsBook
  <1>8. IsMap(Put(side, o.price, added), Price, PriceLevel)
    BY <1>1, <1>4, <1>7 DEF IsMap, Put
  <1>9. IsMap(nb.order_locations, OrderId, OrderLocation)
    BY <1>1, <1>5, <1>7 DEF IsMap, Put, OrderLocation
  <1>10. \A s \in Side : IsMap(nb.levels[s], Price, PriceLevel)
    BY <1>6, <1>8 DEF IsBook
  <1>11. IsBook(nb)
    BY <1>5, <1>6, <1>9, <1>10 DEF IsBook
  <1>12. /\ DOMAIN nb.levels[o.side] = DOMAIN b.levels[o.side] \cup {o.price}
         /\ \A p \in DOMAIN b.levels[o.side] :
               p # o.price => nb.levels[o.side][p] = b.levels[o.side][p]
         /\ nb.levels[o.side][o.price] = added
    BY <1>6 DEF Put
  <1>13. added.orders = Append(level.orders, o)
    BY DEF added
  <1>14. level.orders = OrdersAt(b, o.side, o.price)
    BY DEF level, OrdersAt
  <1>15. ASSUME NEW s \in Side, NEW p \in Price
         PROVE  OrdersAt(nb, s, p) = IF s = o.side /\ p = o.price
                                     THEN Append(OrdersAt(b, s, p), o)
                                     ELSE OrdersAt(b, s, p)
    <2>1. CASE s = o.side /\ p = o.price
      BY <2>1, <1>12, <1>13, <1>14 DEF OrdersAt
    <2>2. CASE s = o.side /\ p # o.price
      BY <2>2, <1>12 DEF OrdersAt
    <2>3. CASE s # o.side
      BY <2>3, <1>6 DEF OrdersAt
    <2> QED
      BY <2>1, <2>2, <2>3
  <1>16. added.total_quantity
            = (TotalAt(b, o.side, o.price) + o.remaining_quantity) % QuantityModulus
    <2>1. level.total_quantity = TotalAt(b, o.side, o.price)
      BY DEF level, TotalAt
    <2> HIDE DEF level
    <2> QED
      BY <2>1 DEF added
  <1> QED
    BY <1>5, <1>6, <1>11, <1>12, <1>15, <1>16 DEF nb

\* Resting a new, unfilled good-till-cancel limit order keeps a book well formed.
LEMMA AddOrderKeepsWellFormed ==
    ASSUME NEW b, WellFormed(b), NEW o \in Order,
           Restable(o), o.remaining_quantity > 0, ~contains(b, o.id)
    PROVE  WellFormed(add_order(b, o))
  <1> DEFINE nb == add_order(b, o)
             was == OrdersAt(b, o.side, o.price)
             home == [side |-> o.side, price |-> o.price]
  <1>0. IsBook(b) /\ IndexConsistent(b) /\ LevelsPopulated(b) /\ OrdersRestable(b)
    BY DEF WellFormed
  <1>1. o.side \in Side /\ o.id \in OrderId /\ o.price \in Price
    BY DEF Order
  <1>2. /\ IsBook(nb)
        /\ \A s \in Side : s # o.side => nb.levels[s] = b.levels[s]
        /\ DOMAIN nb.levels[o.side] = DOMAIN b.levels[o.side] \cup {o.price}
        /\ \A s \in Side, p \in Price :
              OrdersAt(nb, s, p) = IF s = o.side /\ p = o.price
                                   THEN Append(was, o) ELSE OrdersAt(b, s, p)
        /\ nb.order_locations = Put(b.order_locations, o.id, home)
    BY <1>0, AddOrderParts
  <1>3. /\ DOMAIN nb.order_locations = DOMAIN b.order_locations \cup {o.id}
        /\ nb.order_locations[o.id] = home
        /\ \A id \in DOMAIN b.order_locations :
              id # o.id /\ nb.order_locations[id] = b.order_locations[id]
    BY <1>2 DEF Put, contains
  <1>4. was \in Seq(Order) /\ DOMAIN was = 1 .. Len(was) /\ Len(was) \in Nat
    BY <1>0, <1>1, OrdersAtTyped
  <1> HIDE DEF nb, was
  <1>5. /\ DOMAIN Append(was, o) = 1 .. Len(was) + 1
        /\ Append(was, o)[Len(was) + 1] = o
        /\ \A i \in 1 .. Len(was) : Append(was, o)[i] = was[i]
    BY <1>4
  <1>6. ASSUME NEW id \in DOMAIN nb.order_locations
        PROVE  LET orders == OrdersAt(nb, nb.order_locations[id].side,
                                          nb.order_locations[id].price)
               IN  \E i \in DOMAIN orders : orders[i].id = id
    <2>1. CASE id = o.id
      <3>1. OrdersAt(nb, nb.order_locations[id].side, nb.order_locations[id].price)
               = Append(was, o)
        BY <1>1, <1>2, <1>3, <2>1
      <3>2. Len(was) + 1 \in DOMAIN Append(was, o) /\ Append(was, o)[Len(was) + 1].id = id
        BY <1>4, <1>5, <2>1
      <3> QED
        BY <3>1, <3>2
    <2>2. CASE id # o.id
      <3> DEFINE at == b.order_locations[id]
      <3>1. id \in DOMAIN b.order_locations /\ nb.order_locations[id] = at
        BY <1>3, <2>2
      <3>2. at.side \in Side /\ at.price \in Price
        BY <1>0, <3>1 DEF IsBook, IsMap, OrderLocation
      <3>3. PICK i \in DOMAIN OrdersAt(b, at.side, at.price) :
               OrdersAt(b, at.side, at.price)[i].id = id
        BY <1>0, <3>1 DEF IndexConsistent
      <3>4. i \in DOMAIN OrdersAt(nb, at.side, at.price)
            /\ OrdersAt(nb, at.side, at.price)[i].id = id
        BY <1>2, <1>4, <1>5, <3>2, <3>3 DEF was
      <3> QED
        BY <3>1, <3>4
    <2> QED
      BY <2>1, <2>2
  <1>7. ASSUME NEW s \in Side, NEW p \in Price, NEW i \in DOMAIN OrdersAt(nb, s, p)
        PROVE  InPlace(nb, s, p, i)
    <2>1. \A k \in DOMAIN OrdersAt(b, s, p) : InPlace(b, s, p, k)
      BY <1>0, OrdersInPlace
    <2>2. CASE s = o.side /\ p = o.price
      <3>1. OrdersAt(nb, s, p) = Append(was, o) /\ OrdersAt(b, s, p) = was
        BY <1>2, <2>2 DEF was
      <3>2. CASE i = Len(was) + 1
        BY <1>3, <1>4, <1>5, <2>1, <2>2, <3>1, <3>2 DEF InPlace
      <3>3. CASE i \in 1 .. Len(was)
        BY <1>3, <1>4, <1>5, <2>1, <2>2, <3>1, <3>3 DEF InPlace
      <3> QED
        BY <1>4, <1>5, <3>1, <3>2, <3>3
    <2>3. CASE ~(s = o.side /\ p = o.price)
      <3>1. OrdersAt(nb, s, p) = OrdersAt(b, s, p)
        BY <1>2, <2>3
      <3> QED
        BY <1>3, <2>1, <3>1 DEF InPlace
    <2> QED
      BY <2>2, <2>3
  <1>8. IndexConsistent(nb) /\ OrdersRestable(nb)
    BY <1>6, <1>7, InPlaceSuffices
  <1>9. LevelsPopulated(nb)
    <2> SUFFICES ASSUME NEW s \in Side, NEW p \in DOMAIN nb.levels[s]
                 PROVE  OrdersAt(nb, s, p) # <<>>
      BY DEF LevelsPopulated
    <2>1. p \in Price
      BY <1>2 DEF IsBook, IsMap
    <2>2. CASE s = o.side /\ p = o.price
      <3>1. Append(was, o) # <<>>
        BY <1>4, <1>5
      <3> QED
        BY <1>2, <2>1, <2>2, <3>1
    <2>3. CASE ~(s = o.side /\ p = o.price)
      <3>1. p \in DOMAIN b.levels[s] /\ OrdersAt(nb, s, p) = OrdersAt(b, s, p)
        BY <1>2, <2>1, <2>3
      <3> QED
        BY <1>0, <3>1 DEF LevelsPopulated
    <2> QED
      BY <2>2, <2>3
  <1> QED
    BY <1>2, <1>8, <1>9 DEF WellFormed, nb

-----------------------------------------------------------------------------

\* extract_order and fill_front both put a changed level back, or drop it when it
\* is empty, and change nothing else of the levels.
WithLevel(b, s, p, level, index) ==
    [levels |-> [b.levels EXCEPT ![s] = IF level.orders = <<>> THEN Erase(@, p)
                                        ELSE Put(@, p, level)],
     order_locations |-> index]

\* The parts of a book with a changed level.
LEMMA ChangedLevelParts ==
    ASSUME NEW b, IsBook(b), NEW s \in Side, NEW p \in DOMAIN b.levels[s],
           NEW level \in PriceLevel, NEW index, IsMap(index, OrderId, OrderLocation),
           NEW nb, nb = WithLevel(b, s, p, level, index)
    PROVE  /\ IsBook(nb)
           /\ nb.order_locations = index
           /\ \A x \in Side : DOMAIN nb.levels[x] \subseteq DOMAIN b.levels[x]
           /\ \A x \in Side, q \in Price :
                 OrdersAt(nb, x, q) = IF x = s /\ q = p THEN level.orders
                                      ELSE OrdersAt(b, x, q)
           /\ \A x \in Side : \A q \in DOMAIN nb.levels[x] :
                 nb.levels[x][q] = IF x = s /\ q = p THEN level ELSE b.levels[x][q]
           /\ LevelsPopulated(b) => LevelsPopulated(nb)
  <1> DEFINE changed == IF level.orders = <<>> THEN Erase(b.levels[s], p)
                        ELSE Put(b.levels[s], p, level)
  <1>1. b.levels = [x \in Side |-> b.levels[x]] /\ IsMap(b.levels[s], Price, PriceLevel)
    BY DEF IsBook
  <1>2. /\ nb = [levels |-> nb.levels, order_locations |-> nb.order_locations]
        /\ nb.order_locations = index
        /\ nb.levels = [b.levels EXCEPT ![s] = changed]
    BY DEF WithLevel
  <1>3. IsMap(changed, Price, PriceLevel) /\ DOMAIN changed \subseteq DOMAIN b.levels[s]
    <2>1. CASE level.orders = <<>>
      BY <1>1, <2>1 DEF IsMap, Erase, Restrict
    <2>2. CASE level.orders # <<>>
      BY <1>1, <2>2 DEF IsMap, Put
    <2> QED
      BY <2>1, <2>2
  <1>4. /\ \A q \in DOMAIN b.levels[s] :
              q # p => q \in DOMAIN changed /\ changed[q] = b.levels[s][q]
        /\ level.orders = <<>> => p \notin DOMAIN changed
        /\ level.orders # <<>> => p \in DOMAIN changed /\ changed[p] = level
    BY DEF Erase, Restrict, Put
  <1> HIDE DEF changed
  <1>5. /\ nb.levels = [x \in Side |-> nb.levels[x]]
        /\ nb.levels[s] = changed
        /\ \A x \in Side : x # s => nb.levels[x] = b.levels[x]
    BY <1>1, <1>2
  <1>6. \A x \in Side : IsMap(nb.levels[x], Price, PriceLevel)
    BY <1>3, <1>5 DEF IsBook
  <1>7. IsBook(nb)
    BY <1>2, <1>5, <1>6 DEF IsBook
  <1>8. \A x \in Side : DOMAIN nb.levels[x] \subseteq DOMAIN b.levels[x]
    BY <1>3, <1>5
  <1>9. ASSUME NEW x \in Side, NEW q \in Price
        PROVE  OrdersAt(nb, x, q) = IF x = s /\ q = p THEN level.orders
                                    ELSE OrdersAt(b, x, q)
    <2>1. CASE x # s
      BY <1>5, <2>1 DEF OrdersAt
    <2>2. CASE x = s /\ q = p
      BY <1>4, <1>5, <2>2 DEF OrdersAt
    <2>3. CASE x = s /\ q # p
      BY <1>3, <1>4, <1>5, <2>3 DEF OrdersAt
    <2> QED
      BY <2>1, <2>2, <2>3
  <1>10. ASSUME LevelsPopulated(b), NEW x \in Side, NEW q \in DOMAIN nb.levels[x]
         PROVE  OrdersAt(nb, x, q) # <<>>
    <2>1. q \in Price /\ q \in DOMAIN b.levels[x]
      BY <1>7, <1>8 DEF IsBook, IsMap
    <2>2. CASE x = s /\ q = p
      BY <1>4, <1>5, <1>9, <2>1, <2>2
    <2>3. CASE ~(x = s /\ q = p)
      BY <1>9, <1>10, <2>1, <2>3 DEF LevelsPopulated
    <2> QED
      BY <2>2, <2>3
  <1>11. \A x \in Side : \A q \in DOMAIN nb.levels[x] :
            nb.levels[x][q] = IF x = s /\ q = p THEN level ELSE b.levels[x][q]
    BY <1>3, <1>4, <1>5
  <1> QED
    BY <1>2, <1>7, <1>8, <1>9, <1>10, <1>11 DEF LevelsPopulated

\* The order an index entry points to, and where it is.
LEMMA PositionFacts ==
    ASSUME NEW b, WellFormed(b), NEW id, contains(b, id), NEW i, IsPosition(b, id, i)
    PROVE  LET at == b.order_locations[id]
           IN  /\ id \in OrderId
               /\ at.side \in Side
               /\ at.price \in DOMAIN b.levels[at.side]
               /\ at.price \in Price
               /\ b.levels[at.side][at.price].orders = OrdersAt(b, at.side, at.price)
               /\ i \in 1 .. Len(OrdersAt(b, at.side, at.price))
               /\ OrdersAt(b, at.side, at.price)[i].id = id
               /\ OrdersAt(b, at.side, at.price)[i] \in Order
               /\ Restable(OrdersAt(b, at.side, at.price)[i])
  <1> DEFINE at == b.order_locations[id]
  <1>0. IsBook(b) /\ IndexConsistent(b) /\ OrdersRestable(b)
    BY DEF WellFormed
  <1>1. id \in OrderId /\ at.side \in Side /\ at.price \in Price
    BY <1>0 DEF contains, IsBook, IsMap, OrderLocation
  <1>2. \E k \in DOMAIN OrdersAt(b, at.side, at.price) : TRUE
    BY <1>0 DEF contains, IndexConsistent
  <1>3. at.price \in DOMAIN b.levels[at.side]
    BY <1>2 DEF OrdersAt
  <1>4. b.levels[at.side][at.price].orders = OrdersAt(b, at.side, at.price)
    BY <1>3 DEF OrdersAt
  <1>5. i \in DOMAIN OrdersAt(b, at.side, at.price)
        /\ OrdersAt(b, at.side, at.price)[i].id = id
    BY <1>4 DEF IsPosition
  <1>6. i \in 1 .. Len(OrdersAt(b, at.side, at.price))
        /\ OrdersAt(b, at.side, at.price)[i] \in Order
    BY <1>0, <1>1, <1>5, OrdersAtTyped
  <1>7. Restable(OrdersAt(b, at.side, at.price)[i])
    BY <1>0, <1>1, <1>5, OrdersInPlace DEF InPlace
  <1> QED
    BY <1>1, <1>3, <1>4, <1>5, <1>6, <1>7

\* The list without its i-th order.
LEMMA WithoutTyped ==
    ASSUME NEW orders \in Seq(Order), NEW i \in 1 .. Len(orders)
    PROVE  /\ Without(orders, i) \in Seq(Order)
           /\ DOMAIN Without(orders, i) = 1 .. Len(orders) - 1
           /\ \A k \in 1 .. Len(orders) - 1 :
                 Without(orders, i)[k] = IF k < i THEN orders[k] ELSE orders[k + 1]
  <1>1. Len(orders) - 1 \in Nat
    OBVIOUS
  <1>2. \A k \in 1 .. Len(orders) - 1 :
           (IF k < i THEN orders[k] ELSE orders[k + 1]) \in Order
    OBVIOUS
  <1>3. Without(orders, i) \in [1 .. Len(orders) - 1 -> Order]
    BY <1>2 DEF Without
  <1>4. \A n \in Nat : \A f \in [1 .. n -> Order] : f \in Seq(Order)
    OBVIOUS
  <1> QED
    BY <1>1, <1>3, <1>4 DEF Without

\* The parts of the book that extract_order returns.
LEMMA ExtractParts ==
    ASSUME NEW b, WellFormed(b), NEW id, contains(b, id), NEW i, IsPosition(b, id, i),
           ~erase_throws(b, id, i)
    PROVE  LET nb == extract_order(b, id, i)
               at == b.order_locations[id]
               was == OrdersAt(b, at.side, at.price)
           IN  /\ IsBook(nb)
               /\ nb.order_locations = Erase(b.order_locations, id)
               /\ \A x \in Side : DOMAIN nb.levels[x] \subseteq DOMAIN b.levels[x]
               /\ \A x \in Side, q \in Price :
                     OrdersAt(nb, x, q) = IF x = at.side /\ q = at.price THEN Without(was, i)
                                          ELSE OrdersAt(b, x, q)
               /\ \A x \in Side : \A q \in DOMAIN nb.levels[x] :
                     nb.levels[x][q].total_quantity =
                        IF x = at.side /\ q = at.price
                        THEN b.levels[x][q].total_quantity - was[i].remaining_quantity
                        ELSE b.levels[x][q].total_quantity
               /\ was[i].remaining_quantity <= b.levels[at.side][at.price].total_quantity
               /\ LevelsPopulated(nb)
  <1> DEFINE nb == extract_order(b, id, i)
             at == b.order_locations[id]
             was == OrdersAt(b, at.side, at.price)
             level == b.levels[at.side][at.price]
             left == [total_quantity |->
                          level.total_quantity - level.orders[i].remaining_quantity,
                      orders |-> Without(level.orders, i)]
  <1>0. IsBook(b) /\ IndexConsistent(b) /\ LevelsPopulated(b) /\ OrdersRestable(b)
    BY DEF WellFormed
  <1>1. /\ id \in OrderId /\ at.side \in Side /\ at.price \in DOMAIN b.levels[at.side]
        /\ at.price \in Price /\ level.orders = was /\ i \in 1 .. Len(was)
        /\ was[i].id = id /\ was[i] \in Order
    BY PositionFacts
  <1>2. was \in Seq(Order) /\ DOMAIN was = 1 .. Len(was) /\ Len(was) \in Nat
    BY <1>0, <1>1, OrdersAtTyped
  <1>3. /\ Without(was, i) \in Seq(Order)
        /\ DOMAIN Without(was, i) = 1 .. Len(was) - 1
        /\ \A k \in 1 .. Len(was) - 1 :
              Without(was, i)[k] = IF k < i THEN was[k] ELSE was[k + 1]
    <2> HIDE DEF was
    <2> QED
      BY <1>1, <1>2, WithoutTyped
  <1>4. left \in PriceLevel /\ was[i].remaining_quantity <= level.total_quantity
    <2>1. level.total_quantity \in Quantity /\ was[i].remaining_quantity \in Quantity
      BY <1>0, <1>1, LevelTyped DEF Order
    <2>2. was[i].remaining_quantity <= level.total_quantity
      BY <1>1, <2>1, ModulusAssumption DEF erase_throws, Quantity
    <2>3. level.total_quantity - was[i].remaining_quantity \in Quantity
      BY <2>1, <2>2, ModulusAssumption DEF Quantity
    <2> QED
      BY <1>1, <1>3, <2>2, <2>3 DEF PriceLevel
  <1>5. left.orders = Without(was, i)
        /\ left.total_quantity = level.total_quantity - was[i].remaining_quantity
    BY <1>1
  <1>6. /\ IsMap(Erase(b.order_locations, id), OrderId, OrderLocation)
        /\ DOMAIN Erase(b.order_locations, id) = DOMAIN b.order_locations \ {id}
        /\ \A x \in DOMAIN b.order_locations :
              x # id => Erase(b.order_locations, id)[x] = b.order_locations[x]
    BY <1>0 DEF IsBook, IsMap, Erase, Restrict
  <1>7. nb = WithLevel(b, at.side, at.price, left, Erase(b.order_locations, id))
    BY <1>0, <1>1 DEF extract_order, IsBook, level_erase, put_or_remove, remove_from_index,
                      WithLevel
  <1> HIDE DEF nb, left, was, level
  <1>8. /\ IsBook(nb)
        /\ nb.order_locations = Erase(b.order_locations, id)
        /\ \A x \in Side : DOMAIN nb.levels[x] \subseteq DOMAIN b.levels[x]
        /\ \A x \in Side, q \in Price :
              OrdersAt(nb, x, q) = IF x = at.side /\ q = at.price THEN Without(was, i)
                                   ELSE OrdersAt(b, x, q)
        /\ \A x \in Side : \A q \in DOMAIN nb.levels[x] :
              nb.levels[x][q] = IF x = at.side /\ q = at.price THEN left ELSE b.levels[x][q]
        /\ LevelsPopulated(nb)
    <2>1. /\ IsBook(b) /\ at.side \in Side /\ at.price \in DOMAIN b.levels[at.side]
          /\ left \in PriceLevel /\ LevelsPopulated(b)
          /\ IsMap(Erase(b.order_locations, id), OrderId, OrderLocation)
      BY <1>0, <1>1, <1>4, <1>6
    <2>2. left.orders = Without(was, i)
      BY <1>5
    <2> HIDE DEF at
    <2>3. /\ IsBook(nb)
          /\ nb.order_locations = Erase(b.order_locations, id)
          /\ \A x \in Side : DOMAIN nb.levels[x] \subseteq DOMAIN b.levels[x]
          /\ \A x \in Side, q \in Price :
                OrdersAt(nb, x, q) = IF x = at.side /\ q = at.price THEN left.orders
                                     ELSE OrdersAt(b, x, q)
          /\ \A x \in Side : \A q \in DOMAIN nb.levels[x] :
                nb.levels[x][q] = IF x = at.side /\ q = at.price THEN left ELSE b.levels[x][q]
          /\ LevelsPopulated(nb)
      BY <1>7, <2>1, ChangedLevelParts
    <2> QED
      BY <2>2, <2>3
  <1>9. \A x \in Side : \A q \in DOMAIN nb.levels[x] :
           nb.levels[x][q].total_quantity =
              IF x = at.side /\ q = at.price
              THEN b.levels[x][q].total_quantity - was[i].remaining_quantity
              ELSE b.levels[x][q].total_quantity
    BY <1>5, <1>8 DEF level
  <1> QED
    BY <1>4, <1>8, <1>9 DEF nb, was, level

\* Taking an order out keeps a book well formed and opens no level.
LEMMA ExtractKeepsWellFormed ==
    ASSUME NEW b, WellFormed(b), NEW id, contains(b, id), NEW i, IsPosition(b, id, i),
           ~erase_throws(b, id, i)
    PROVE  /\ WellFormed(extract_order(b, id, i))
           /\ \A x \in Side : DOMAIN extract_order(b, id, i).levels[x]
                                  \subseteq DOMAIN b.levels[x]
  <1> DEFINE nb == extract_order(b, id, i)
             at == b.order_locations[id]
             was == OrdersAt(b, at.side, at.price)
  <1>0. IsBook(b) /\ IndexConsistent(b) /\ LevelsPopulated(b) /\ OrdersRestable(b)
    BY DEF WellFormed
  <1>1. /\ id \in OrderId /\ at.side \in Side /\ at.price \in DOMAIN b.levels[at.side]
        /\ at.price \in Price /\ i \in 1 .. Len(was)
        /\ was[i].id = id /\ was[i] \in Order
    BY PositionFacts
  <1>2. was \in Seq(Order) /\ DOMAIN was = 1 .. Len(was) /\ Len(was) \in Nat
    BY <1>0, <1>1, OrdersAtTyped
  <1>3. /\ DOMAIN Erase(b.order_locations, id) = DOMAIN b.order_locations \ {id}
        /\ \A x \in DOMAIN b.order_locations :
              x # id => Erase(b.order_locations, id)[x] = b.order_locations[x]
    BY DEF Erase, Restrict
  <1>4. /\ IsBook(nb)
        /\ nb.order_locations = Erase(b.order_locations, id)
        /\ \A x \in Side : DOMAIN nb.levels[x] \subseteq DOMAIN b.levels[x]
        /\ \A x \in Side, q \in Price :
              OrdersAt(nb, x, q) = IF x = at.side /\ q = at.price THEN Without(was, i)
                                   ELSE OrdersAt(b, x, q)
        /\ LevelsPopulated(nb)
    BY ExtractParts
  <1> HIDE DEF nb, was
  <1>5. /\ Without(was, i) \in Seq(Order)
        /\ DOMAIN Without(was, i) = 1 .. Len(was) - 1
        /\ \A k \in 1 .. Len(was) - 1 :
              Without(was, i)[k] = IF k < i THEN was[k] ELSE was[k + 1]
    BY <1>1, <1>2, WithoutTyped
  <1>6. \A s \in Side, p \in Price :
           \A k \in DOMAIN OrdersAt(b, s, p) : InPlace(b, s, p, k)
    BY <1>0, OrdersInPlace
  <1>7. \A k \in 1 .. Len(was) : InPlace(b, at.side, at.price, k)
    BY <1>1, <1>2, <1>6 DEF was
  <1>8. \A k \in 1 .. Len(was) : was[k].id = id => k = i
    BY <1>1, <1>2, <1>7 DEF InPlace, was
  <1>9. ASSUME NEW x \in DOMAIN nb.order_locations
        PROVE  LET orders == OrdersAt(nb, nb.order_locations[x].side,
                                          nb.order_locations[x].price)
               IN  \E k \in DOMAIN orders : orders[k].id = x
    <2> DEFINE ax == b.order_locations[x]
    <2>1. x \in DOMAIN b.order_locations /\ x # id /\ nb.order_locations[x] = ax
      BY <1>3, <1>4
    <2>2. ax.side \in Side /\ ax.price \in Price
      BY <1>0, <2>1 DEF IsBook, IsMap, OrderLocation
    <2>3. PICK k \in DOMAIN OrdersAt(b, ax.side, ax.price) :
             OrdersAt(b, ax.side, ax.price)[k].id = x
      BY <1>0, <2>1 DEF IndexConsistent
    <2>4. CASE ax.side = at.side /\ ax.price = at.price
      <3>1. OrdersAt(b, ax.side, ax.price) = was
        BY <2>4 DEF was
      <3>2. k \in 1 .. Len(was) /\ was[k].id = x /\ k # i
        BY <1>1, <1>2, <2>1, <2>3, <3>1
      <3>3. PICK n \in 1 .. Len(was) - 1 : Without(was, i)[n].id = x
        <4>1. CASE k < i
          <5>1. k \in 1 .. Len(was) - 1 /\ Without(was, i)[k].id = x
            BY <1>1, <1>2, <1>5, <3>2, <4>1
          <5> QED
            BY <5>1
        <4>2. CASE k > i
          <5>1. k - 1 \in 1 .. Len(was) - 1 /\ ~(k - 1 < i) /\ (k - 1) + 1 = k
            BY <1>1, <1>2, <3>2, <4>2
          <5>2. Without(was, i)[k - 1].id = x
            BY <1>5, <3>2, <5>1
          <5> QED
            BY <5>1, <5>2
        <4> QED
          BY <1>1, <1>2, <3>2, <4>1, <4>2
      <3>4. OrdersAt(nb, ax.side, ax.price) = Without(was, i)
        BY <1>4, <2>2, <2>4
      <3> QED
        BY <1>5, <2>1, <3>3, <3>4
    <2>5. CASE ~(ax.side = at.side /\ ax.price = at.price)
      <3>1. OrdersAt(nb, ax.side, ax.price) = OrdersAt(b, ax.side, ax.price)
        BY <1>4, <2>2, <2>5
      <3> QED
        BY <2>1, <2>3, <3>1
    <2> QED
      BY <2>4, <2>5
  <1>10. ASSUME NEW s \in Side, NEW p \in Price, NEW k \in DOMAIN OrdersAt(nb, s, p)
         PROVE  InPlace(nb, s, p, k)
    <2>1. CASE s = at.side /\ p = at.price
      <3> DEFINE old(n) == IF n < i THEN n ELSE n + 1
      <3>1. OrdersAt(nb, s, p) = Without(was, i) /\ OrdersAt(b, s, p) = was
        BY <1>4, <2>1 DEF was
      <3>2. \A n \in 1 .. Len(was) - 1 :
               old(n) \in 1 .. Len(was) /\ old(n) # i /\ Without(was, i)[n] = was[old(n)]
        BY <1>1, <1>2, <1>5
      <3>3. \A m, n \in 1 .. Len(was) - 1 : old(m) = old(n) => m = n
        BY <1>1, <1>2
      <3>4. k \in 1 .. Len(was) - 1
        BY <1>5, <3>1
      <3>5. InPlace(b, s, p, old(k))
        BY <1>7, <2>1, <3>2, <3>4
      <3>6. was[old(k)].id # id
        BY <1>8, <3>2, <3>4
      <3> HIDE DEF old
      <3>7. OrdersAt(nb, s, p)[k] = was[old(k)]
        BY <3>1, <3>2, <3>4
      <3>8. /\ was[old(k)].id \in DOMAIN nb.order_locations
            /\ nb.order_locations[was[old(k)].id] = [side |-> s, price |-> p]
        BY <1>3, <1>4, <3>1, <3>5, <3>6 DEF InPlace
      <3>9. ASSUME NEW j \in DOMAIN OrdersAt(nb, s, p),
                   OrdersAt(nb, s, p)[j].id = OrdersAt(nb, s, p)[k].id
            PROVE  j = k
        <4>1. j \in 1 .. Len(was) - 1
          BY <1>5, <3>1, <3>9
        <4>2. was[old(j)].id = was[old(k)].id /\ old(j) \in DOMAIN was
          BY <1>2, <3>1, <3>2, <3>7, <3>9, <4>1
        <4>3. old(j) = old(k)
          BY <3>1, <3>5, <4>2 DEF InPlace
        <4> QED
          BY <3>3, <3>4, <4>1, <4>3
      <3>10. /\ Restable(was[old(k)]) /\ was[old(k)].remaining_quantity > 0
             /\ was[old(k)].side = s /\ was[old(k)].price = p
        BY <3>1, <3>5 DEF InPlace
      <3> QED
        BY <3>7, <3>8, <3>9, <3>10 DEF InPlace
    <2>2. CASE ~(s = at.side /\ p = at.price)
      <3>1. OrdersAt(nb, s, p) = OrdersAt(b, s, p)
        BY <1>4, <2>2
      <3>2. InPlace(b, s, p, k)
        BY <1>6, <3>1
      <3>3. OrdersAt(b, s, p)[k].id # id
        BY <2>2, <3>2 DEF InPlace
      <3> QED
        BY <1>3, <1>4, <3>1, <3>2, <3>3 DEF InPlace
    <2> QED
      BY <2>1, <2>2
  <1>11. IndexConsistent(nb) /\ OrdersRestable(nb)
    BY <1>9, <1>10, InPlaceSuffices
  <1> QED
    BY <1>4, <1>11 DEF WellFormed, nb

\* What fill_front leaves of a list of orders.
AfterFill(orders, quantity) ==
    IF orders[1].remaining_quantity = quantity THEN Tail(orders)
    ELSE [orders EXCEPT ![1].remaining_quantity = @ - quantity]

\* The list after a fill of its front order.
LEMMA AfterFillTyped ==
    ASSUME NEW was \in Seq(Order), was # <<>>, NEW quantity \in 1 .. was[1].remaining_quantity
    PROVE  /\ AfterFill(was, quantity) \in Seq(Order)
           /\ was[1].remaining_quantity = quantity =>
                 /\ DOMAIN AfterFill(was, quantity) = 1 .. Len(was) - 1
                 /\ \A k \in 1 .. Len(was) - 1 : AfterFill(was, quantity)[k] = was[k + 1]
           /\ was[1].remaining_quantity # quantity =>
                 /\ DOMAIN AfterFill(was, quantity) = 1 .. Len(was)
                 /\ AfterFill(was, quantity)[1]
                       = [was[1] EXCEPT !.remaining_quantity = @ - quantity]
                 /\ \A k \in 2 .. Len(was) : AfterFill(was, quantity)[k] = was[k]
                 /\ was[1].remaining_quantity - quantity > 0
                 /\ AfterFill(was, quantity)[1] \in Order
  <1> DEFINE shrunk == [was EXCEPT ![1].remaining_quantity = @ - quantity]
  <1>1. Len(was) >= 1 /\ Len(was) \in Nat /\ DOMAIN was = 1 .. Len(was) /\ was[1] \in Order
    OBVIOUS
  <1>2. was[1].remaining_quantity \in Quantity
    BY <1>1 DEF Order
  <1>3. CASE was[1].remaining_quantity = quantity
    <2>1. AfterFill(was, quantity) = Tail(was)
      BY <1>3 DEF AfterFill
    <2>2. /\ Tail(was) \in Seq(Order) /\ DOMAIN Tail(was) = 1 .. Len(was) - 1
          /\ \A k \in 1 .. Len(was) - 1 : Tail(was)[k] = was[k + 1]
      BY <1>1
    <2> QED
      BY <1>3, <2>1, <2>2
  <1>4. CASE was[1].remaining_quantity # quantity
    <2>1. AfterFill(was, quantity) = shrunk
      BY <1>4 DEF AfterFill
    <2>2. was[1].remaining_quantity - quantity \in Quantity
          /\ was[1].remaining_quantity - quantity > 0
      BY <1>2, <1>4, ModulusAssumption DEF Quantity
    <2>3. [was[1] EXCEPT !.remaining_quantity = @ - quantity] \in Order
      BY <1>1, <2>2 DEF Order
    <2>4. /\ DOMAIN shrunk = 1 .. Len(was)
          /\ shrunk[1] = [was[1] EXCEPT !.remaining_quantity = @ - quantity]
          /\ \A k \in 2 .. Len(was) : shrunk[k] = was[k]
      BY <1>1
    <2>5. shrunk \in Seq(Order)
      BY <1>1, <2>3
    <2> HIDE DEF shrunk
    <2> QED
      BY <1>4, <2>1, <2>2, <2>3, <2>4, <2>5
  <1> QED
    BY <1>3, <1>4

\* The front order of a level of a well formed book.
LEMMA FrontFacts ==
    ASSUME NEW b, WellFormed(b), NEW s \in Side, NEW p \in DOMAIN b.levels[s]
    PROVE  LET was == OrdersAt(b, s, p)
           IN  /\ p \in Price
               /\ b.levels[s][p].orders = was
               /\ was \in Seq(Order) /\ was # <<>>
               /\ DOMAIN was = 1 .. Len(was) /\ Len(was) \in Nat /\ Len(was) >= 1
               /\ Head(was) = was[1]
               /\ was[1] \in Order
               /\ was[1].remaining_quantity \in Quantity
               /\ was[1].remaining_quantity > 0
  <1> DEFINE was == OrdersAt(b, s, p)
  <1>1. p \in Price /\ b.levels[s][p].orders = was
    BY LevelTyped DEF OrdersAt, WellFormed
  <1>2. was \in Seq(Order) /\ was # <<>>
    BY <1>1, OrdersAtTyped DEF WellFormed, LevelsPopulated
  <1> HIDE DEF was
  <1>3. /\ DOMAIN was = 1 .. Len(was) /\ Len(was) \in Nat /\ Len(was) >= 1
        /\ 1 \in DOMAIN was /\ Head(was) = was[1] /\ was[1] \in Order
    BY <1>2
  <1>4. was[1].remaining_quantity \in Quantity
    BY <1>3 DEF Order
  <1>5. IndexConsistent(b) /\ OrdersRestable(b)
    BY DEF WellFormed
  <1>6. InPlace(b, s, p, 1)
    BY <1>1, <1>3, <1>5, OrdersInPlace DEF was
  <1>7. was[1].remaining_quantity > 0
    BY <1>6 DEF InPlace, was
  <1> QED
    BY <1>1, <1>2, <1>3, <1>4, <1>7 DEF was

\* The parts of the book that fill_front returns.
LEMMA FillParts ==
    ASSUME NEW b, WellFormed(b), NEW s \in Side, NEW p \in DOMAIN b.levels[s],
           NEW quantity \in 1 .. Head(b.levels[s][p].orders).remaining_quantity
    PROVE  LET nb == fill_front(b, s, p, quantity)
               was == OrdersAt(b, s, p)
           IN  /\ IsBook(nb)
               /\ nb.order_locations = IF was[1].remaining_quantity = quantity
                                       THEN Erase(b.order_locations, was[1].id)
                                       ELSE b.order_locations
               /\ \A x \in Side : DOMAIN nb.levels[x] \subseteq DOMAIN b.levels[x]
               /\ \A x \in Side, q \in Price :
                     OrdersAt(nb, x, q) = IF x = s /\ q = p THEN AfterFill(was, quantity)
                                          ELSE OrdersAt(b, x, q)
               /\ \A x \in Side : \A q \in DOMAIN nb.levels[x] :
                     nb.levels[x][q].total_quantity =
                        IF x = s /\ q = p
                        THEN (b.levels[x][q].total_quantity - quantity) % QuantityModulus
                        ELSE b.levels[x][q].total_quantity
               /\ LevelsPopulated(nb)
  <1> DEFINE nb == fill_front(b, s, p, quantity)
             was == OrdersAt(b, s, p)
             level == b.levels[s][p]
             left == [total_quantity |-> (level.total_quantity - quantity) % QuantityModulus,
                      orders |-> AfterFill(was, quantity)]
             index == IF was[1].remaining_quantity = quantity
                      THEN Erase(b.order_locations, was[1].id) ELSE b.order_locations
  <1>0. IsBook(b) /\ LevelsPopulated(b)
    BY DEF WellFormed
  <1>1. /\ p \in Price /\ level.orders = was /\ was \in Seq(Order) /\ was # <<>>
        /\ Head(was) = was[1]
    BY FrontFacts
  <1>2. quantity \in 1 .. was[1].remaining_quantity
    BY <1>1
  <1>3. AfterFill(was, quantity) \in Seq(Order)
    BY <1>1, <1>2, AfterFillTyped
  <1>4. left \in PriceLevel
    <2>0. was[1].remaining_quantity \in Quantity
      BY FrontFacts
    <2>1. level.total_quantity \in Quantity /\ quantity \in Int
      <3>1. quantity \in Int
        BY <1>2, <2>0, ModulusAssumption DEF Quantity
      <3>2. level.total_quantity \in Quantity
        BY <1>0, LevelTyped
      <3> QED
        BY <3>1, <3>2
    <2>2. (level.total_quantity - quantity) % QuantityModulus \in Quantity
      <3> HIDE DEF level
      <3>1. level.total_quantity - quantity \in Int
        BY <2>1, ModulusAssumption DEF Quantity
      <3> QED
        BY <3>1, WrapIsQuantity
    <2> QED
      BY <1>3, <2>2 DEF PriceLevel
  <1>5. IsMap(index, OrderId, OrderLocation)
    BY <1>0 DEF IsBook, IsMap, Erase, Restrict
  <1>6. nb = WithLevel(b, s, p, left, index)
    BY <1>1 DEF fill_front, level_fill_front, put_or_remove, remove_from_index, WithLevel,
                AfterFill
  <1>7. /\ left.orders = AfterFill(was, quantity)
        /\ left.total_quantity = (level.total_quantity - quantity) % QuantityModulus
    OBVIOUS
  <1> HIDE DEF nb, left, index, was
  <1>8. /\ IsBook(nb)
        /\ nb.order_locations = index
        /\ \A x \in Side : DOMAIN nb.levels[x] \subseteq DOMAIN b.levels[x]
        /\ \A x \in Side, q \in Price :
              OrdersAt(nb, x, q) = IF x = s /\ q = p THEN left.orders ELSE OrdersAt(b, x, q)
        /\ \A x \in Side : \A q \in DOMAIN nb.levels[x] :
              nb.levels[x][q] = IF x = s /\ q = p THEN left ELSE b.levels[x][q]
        /\ LevelsPopulated(nb)
    BY <1>0, <1>4, <1>5, <1>6, ChangedLevelParts
  <1> QED
    BY <1>7, <1>8 DEF nb, was, index, level

\* Filling the front order of a level, in part or in full, keeps a book well formed
\* and opens no level.
LEMMA FillKeepsWellFormed ==
    ASSUME NEW b, WellFormed(b), NEW s \in Side, NEW p \in DOMAIN b.levels[s],
           NEW quantity \in 1 .. Head(b.levels[s][p].orders).remaining_quantity
    PROVE  /\ WellFormed(fill_front(b, s, p, quantity))
           /\ \A x \in Side : DOMAIN fill_front(b, s, p, quantity).levels[x]
                                  \subseteq DOMAIN b.levels[x]
  <1> DEFINE nb == fill_front(b, s, p, quantity)
             was == OrdersAt(b, s, p)
             filled == was[1].remaining_quantity = quantity
             orders == AfterFill(was, quantity)
             index == IF filled THEN Erase(b.order_locations, was[1].id)
                      ELSE b.order_locations
  <1>0. IsBook(b) /\ IndexConsistent(b) /\ LevelsPopulated(b) /\ OrdersRestable(b)
    BY DEF WellFormed
  <1>1. p \in Price /\ b.levels[s][p].orders = was
    BY FrontFacts
  <1>2. /\ was \in Seq(Order) /\ DOMAIN was = 1 .. Len(was) /\ Len(was) \in Nat
        /\ was # <<>>
    BY FrontFacts
  <1>3. Len(was) >= 1 /\ 1 \in DOMAIN was /\ Head(was) = was[1] /\ was[1] \in Order
    <2> HIDE DEF was
    <2> QED
      BY <1>2
  <1>4. was[1].remaining_quantity \in Quantity /\ quantity \in 1 .. was[1].remaining_quantity
    BY <1>1, <1>3 DEF Order
  <1>5. /\ IsBook(nb)
        /\ nb.order_locations = index
        /\ \A x \in Side : DOMAIN nb.levels[x] \subseteq DOMAIN b.levels[x]
        /\ \A x \in Side, q \in Price :
              OrdersAt(nb, x, q) = IF x = s /\ q = p THEN orders ELSE OrdersAt(b, x, q)
        /\ LevelsPopulated(nb)
    BY FillParts
  <1>6. filled => /\ DOMAIN orders = 1 .. Len(was) - 1
                  /\ \A k \in 1 .. Len(was) - 1 : orders[k] = was[k + 1]
    BY <1>2, <1>4, AfterFillTyped
  <1>7. ~filled =>
           /\ DOMAIN orders = 1 .. Len(was)
           /\ orders[1] = [was[1] EXCEPT !.remaining_quantity = @ - quantity]
           /\ \A k \in 2 .. Len(was) : orders[k] = was[k]
           /\ was[1].remaining_quantity - quantity > 0
           /\ orders[1] \in Order
    BY <1>2, <1>4, AfterFillTyped
  <1>8. /\ ~filled => index = b.order_locations
        /\ filled => /\ DOMAIN index = DOMAIN b.order_locations \ {was[1].id}
                     /\ \A x \in DOMAIN index : index[x] = b.order_locations[x]
    BY DEF Erase, Restrict
  <1> HIDE DEF nb, was, index, orders, filled
  <1>9. \A x \in Side, q \in Price :
            \A k \in DOMAIN OrdersAt(b, x, q) : InPlace(b, x, q, k)
    BY <1>0, OrdersInPlace
  <1>10. \A k \in 1 .. Len(was) : InPlace(b, s, p, k)
    BY <1>1, <1>2, <1>9 DEF was
  <1>11. \A k \in 1 .. Len(was) : was[k].id = was[1].id => k = 1
    BY <1>2, <1>3, <1>10 DEF InPlace, was
  \* Where the k-th order of the new list was before.
  <1> DEFINE old(k) == IF filled THEN k + 1 ELSE k
  <1>12. \A k \in DOMAIN orders :
            /\ k \in Nat
            /\ old(k) \in 1 .. Len(was)
            /\ orders[k].id = was[old(k)].id
            /\ orders[k].side = was[old(k)].side
            /\ orders[k].price = was[old(k)].price
            /\ Restable(was[old(k)]) => Restable(orders[k])
            /\ was[old(k)].remaining_quantity > 0 => orders[k].remaining_quantity > 0
            /\ filled => old(k) # 1
    <2>1. CASE filled
      BY <1>2, <1>3, <1>6, <2>1
    <2>2. CASE ~filled
      <3>1. ASSUME NEW k \in DOMAIN orders, k = 1
            PROVE  /\ orders[k].id = was[1].id /\ orders[k].side = was[1].side
                   /\ orders[k].price = was[1].price
                   /\ Restable(was[1]) => Restable(orders[k])
                   /\ orders[k].remaining_quantity > 0
        BY <1>3, <1>7, <2>2, <3>1 DEF Order, Restable
      <3>2. ASSUME NEW k \in DOMAIN orders, k # 1
            PROVE  orders[k] = was[k]
        BY <1>2, <1>7, <2>2, <3>2
      <3>3. DOMAIN orders = 1 .. Len(was)
        BY <1>7, <2>2
      <3> QED
        BY <1>2, <2>2, <3>1, <3>2, <3>3
    <2> QED
      BY <2>1, <2>2
  <1>13. \A k \in 1 .. Len(was) : (filled /\ k = 1) \/ \E n \in DOMAIN orders : old(n) = k
    <2>1. CASE filled
      <3> SUFFICES ASSUME NEW k \in 1 .. Len(was), k # 1
                   PROVE  \E n \in DOMAIN orders : old(n) = k
        BY <2>1
      <3>1. k - 1 \in DOMAIN orders /\ old(k - 1) = k
        BY <1>2, <1>6, <2>1
      <3> QED
        BY <3>1
    <2>2. CASE ~filled
      BY <1>2, <1>7, <2>2
    <2> QED
      BY <2>1, <2>2
  <1>14. \A m, n \in DOMAIN orders : old(m) = old(n) => m = n
    BY <1>12
  <1> HIDE DEF old
  <1>15. ASSUME NEW x \in DOMAIN nb.order_locations
         PROVE  LET line == OrdersAt(nb, nb.order_locations[x].side,
                                         nb.order_locations[x].price)
                IN  \E k \in DOMAIN line : line[k].id = x
    <2> DEFINE ax == b.order_locations[x]
    <2>1. /\ x \in DOMAIN b.order_locations /\ nb.order_locations[x] = ax
          /\ filled => x # was[1].id
      BY <1>8, <1>5
    <2>2. ax.side \in Side /\ ax.price \in Price
      BY <1>0, <2>1 DEF IsBook, IsMap, OrderLocation
    <2>3. PICK k \in DOMAIN OrdersAt(b, ax.side, ax.price) :
             OrdersAt(b, ax.side, ax.price)[k].id = x
      BY <1>0, <2>1 DEF IndexConsistent
    <2>4. CASE ax.side = s /\ ax.price = p
      <3>1. k \in 1 .. Len(was) /\ was[k].id = x
        BY <1>2, <2>3, <2>4 DEF was
      <3>2. PICK n \in DOMAIN orders : old(n) = k
        BY <1>13, <2>1, <3>1
      <3>3. OrdersAt(nb, ax.side, ax.price) = orders /\ orders[n].id = x
        BY <1>5, <1>12, <2>2, <2>4, <3>1, <3>2
      <3> QED
        BY <2>1, <3>2, <3>3
    <2>5. CASE ~(ax.side = s /\ ax.price = p)
      <3>1. OrdersAt(nb, ax.side, ax.price) = OrdersAt(b, ax.side, ax.price)
        BY <1>5, <2>2, <2>5
      <3> QED
        BY <2>1, <2>3, <3>1
    <2> QED
      BY <2>4, <2>5
  <1>16. ASSUME NEW x \in Side, NEW q \in Price, NEW k \in DOMAIN OrdersAt(nb, x, q)
         PROVE  InPlace(nb, x, q, k)
    <2>1. CASE x = s /\ q = p
      <3>1. OrdersAt(nb, x, q) = orders /\ OrdersAt(b, x, q) = was /\ k \in DOMAIN orders
        BY <1>5, <2>1 DEF was
      <3>2. InPlace(b, x, q, old(k))
        BY <1>10, <1>12, <2>1, <3>1
      <3>3. filled => was[old(k)].id # was[1].id
        BY <1>11, <1>12, <3>1
      <3>4. orders[k].id \in DOMAIN index
            /\ index[orders[k].id] = [side |-> x, price |-> q]
        BY <1>8, <1>12, <3>1, <3>2, <3>3 DEF InPlace
      <3>5. \A j \in DOMAIN orders : orders[j].id = orders[k].id => j = k
        BY <1>2, <1>12, <1>14, <3>1, <3>2 DEF InPlace
      <3>6. Restable(orders[k]) /\ orders[k].remaining_quantity > 0
            /\ orders[k].side = x /\ orders[k].price = q
        BY <1>12, <3>1, <3>2 DEF InPlace
      <3> QED
        BY <1>5, <3>1, <3>4, <3>5, <3>6 DEF InPlace
    <2>2. CASE ~(x = s /\ q = p)
      <3>1. OrdersAt(nb, x, q) = OrdersAt(b, x, q)
        BY <1>5, <2>2
      <3>2. InPlace(b, x, q, k)
        BY <1>9, <3>1
      <3>3. b.order_locations[was[1].id] = [side |-> s, price |-> p]
        BY <1>3, <1>10 DEF InPlace, was
      <3>4. OrdersAt(b, x, q)[k].id # was[1].id
        BY <2>2, <3>2, <3>3 DEF InPlace
      <3> QED
        BY <1>8, <1>5, <3>1, <3>2, <3>4 DEF InPlace
    <2> QED
      BY <2>1, <2>2
  <1>17. IndexConsistent(nb) /\ OrdersRestable(nb)
    BY <1>15, <1>16, InPlaceSuffices
  <1> QED
    BY <1>5, <1>17 DEF WellFormed, nb

-----------------------------------------------------------------------------
(* Totals *)

\* Addition modulo the width of Quantity, with one summand reduced already.
LEMMA WrapAdds ==
    ASSUME NEW x \in Int, NEW y \in Int
    PROVE  ((x % QuantityModulus) + y) % QuantityModulus = (x + y) % QuantityModulus
  <1> DEFINE M == QuantityModulus
             q == x \div M
             r == x % M
             z == r + y
             k == z \div M
             t == z % M
  <1>1. q \in Int /\ r \in 0 .. M - 1 /\ x = (M * q) + r
    BY ModulusAssumption
  <1> HIDE DEF q, r
  <1>2. k \in Int /\ t \in 0 .. M - 1 /\ z = (M * k) + t
    BY <1>1, ModulusAssumption
  <1> HIDE DEF k, t
  <1>3. x + y = (M * (q + k)) + t
    BY <1>1, <1>2, ModulusAssumption
  <1>4. ((M * (q + k)) + t) % M = t
    <2>1. q + k \in Int
      BY <1>1, <1>2
    <2> QED
      BY <2>1, <1>2, ModulusAssumption
  <1> QED
    BY <1>3, <1>4 DEF t, r

\* Subtraction that does not go below zero needs no reduction.
LEMMA WrapSubtracts ==
    ASSUME NEW x \in Int, NEW y \in Nat, y <= x % QuantityModulus
    PROVE  (x % QuantityModulus) - y = (x - y) % QuantityModulus
  <1> DEFINE M == QuantityModulus
             q == x \div M
             r == x % M
  <1>1. q \in Int /\ r \in 0 .. M - 1 /\ x = (M * q) + r
    BY ModulusAssumption
  <1>2. y <= r
    OBVIOUS
  <1> HIDE DEF q, r
  <1>3. r - y \in 0 .. M - 1
    BY <1>2, <1>1, ModulusAssumption
  <1>4. x - y = (M * q) + (r - y)
    BY <1>1, <1>3, ModulusAssumption
  <1>5. ((M * q) + (r - y)) % M = r - y
    BY <1>1, <1>3, ModulusAssumption
  <1> QED
    BY <1>4, <1>5 DEF r

\* Reducing makes a natural number no larger.
LEMMA WrapIsAtMost ==
    ASSUME NEW x \in Nat
    PROVE  x % QuantityModulus <= x
  <1> DEFINE M == QuantityModulus
             q == x \div M
             r == x % M
  <1>1. q \in Int /\ r \in 0 .. M - 1 /\ x = (M * q) + r
    BY ModulusAssumption
  <1>2. q >= 0
    BY ModulusAssumption
  <1> HIDE DEF q, r
  <1>3. M * q >= 0
    BY <1>1, <1>2, ModulusAssumption
  <1>4. M * q \in Int /\ r \in Int
    BY <1>1, ModulusAssumption
  <1>5. r <= x
    BY <1>1, <1>3, <1>4
  <1> QED
    BY <1>5 DEF r

\* What the orders of a list add to its total, one by one.
Remaining(orders) == [i \in DOMAIN orders |-> orders[i].remaining_quantity]

LEMMA RemainingSumIs ==
    ASSUME NEW orders \in Seq(Order)
    PROVE  /\ DOMAIN orders = 1 .. Len(orders) /\ Len(orders) \in Nat
           /\ \A i \in 1 .. Len(orders) : /\ Remaining(orders)[i] \in Nat
                                          /\ Remaining(orders)[i] = orders[i].remaining_quantity
           /\ RemainingSum(orders) = SumOver(Remaining(orders), 1 .. Len(orders))
           /\ RemainingSum(orders) \in Nat
  <1>1. DOMAIN orders = 1 .. Len(orders) /\ Len(orders) \in Nat
    OBVIOUS
  <1>2. ASSUME NEW i \in 1 .. Len(orders)
        PROVE  /\ Remaining(orders)[i] \in Nat
               /\ Remaining(orders)[i] = orders[i].remaining_quantity
    <2>1. orders[i] \in Order
      BY <1>1
    <2>2. orders[i].remaining_quantity \in Nat
      BY <2>1, ModulusAssumption DEF Order, Quantity
    <2> QED
      BY <1>1, <2>2 DEF Remaining
  <1>3. RemainingSum(orders) = SumOver(Remaining(orders), 1 .. Len(orders))
    BY <1>1 DEF RemainingSum, Remaining
  <1>4. Summable(Remaining(orders), 1 .. Len(orders))
    BY <1>1, <1>2, FS_Interval DEF Summable
  <1> QED
    BY <1>1, <1>2, <1>3, <1>4, SumIsNat

LEMMA RemainingSumOfNone == RemainingSum(<<>>) = 0
  <1>1. DOMAIN <<>> = {}
    OBVIOUS
  <1> QED
    BY <1>1, SumOfNone DEF RemainingSum

LEMMA RemainingSumAppend ==
    ASSUME NEW orders \in Seq(Order), NEW o \in Order
    PROVE  RemainingSum(Append(orders, o)) = RemainingSum(orders) + o.remaining_quantity
  <1> DEFINE longer == Append(orders, o)
             n == Len(orders)
  <1>1. /\ longer \in Seq(Order) /\ Len(longer) = n + 1 /\ longer[n + 1] = o /\ n \in Nat
        /\ \A i \in 1 .. n : longer[i] = orders[i]
    OBVIOUS
  <1> HIDE DEF longer, n
  <1>2. /\ \A i \in 1 .. n : /\ Remaining(orders)[i] \in Nat
                             /\ Remaining(orders)[i] = orders[i].remaining_quantity
        /\ RemainingSum(orders) = SumOver(Remaining(orders), 1 .. n)
    BY RemainingSumIs DEF n
  <1>3. /\ \A i \in 1 .. n + 1 : /\ Remaining(longer)[i] \in Nat
                                 /\ Remaining(longer)[i] = longer[i].remaining_quantity
        /\ RemainingSum(longer) = SumOver(Remaining(longer), 1 .. n + 1)
    BY <1>1, RemainingSumIs
  <1>4. /\ \A i \in 1 .. n : Remaining(longer)[i] = Remaining(orders)[i]
        /\ Remaining(longer)[n + 1] = o.remaining_quantity
        /\ Remaining(longer)[n + 1] \in Nat
    BY <1>1, <1>2, <1>3
  <1>5. SumOver(Remaining(longer), 1 .. n + 1)
           = SumOver(Remaining(orders), 1 .. n) + Remaining(longer)[n + 1]
    BY <1>1, <1>2, <1>4, SumExtended
  <1> QED
    BY <1>2, <1>3, <1>4, <1>5 DEF longer

\* A list that lost its i-th order and closed up.
LEMMA RemainingSumClosedUp ==
    ASSUME NEW orders \in Seq(Order), NEW i \in 1 .. Len(orders), NEW fewer \in Seq(Order),
           DOMAIN fewer = 1 .. Len(orders) - 1,
           \A k \in 1 .. Len(orders) - 1 :
              fewer[k] = IF k < i THEN orders[k] ELSE orders[k + 1]
    PROVE  RemainingSum(orders) = RemainingSum(fewer) + orders[i].remaining_quantity
  <1> DEFINE n == Len(orders)
  <1>1. /\ \A k \in 1 .. n : /\ Remaining(orders)[k] \in Nat
                             /\ Remaining(orders)[k] = orders[k].remaining_quantity
        /\ RemainingSum(orders) = SumOver(Remaining(orders), 1 .. n) /\ n \in Nat
    BY RemainingSumIs
  <1>2. Len(fewer) = n - 1
    BY <1>1
  <1> HIDE DEF n
  <1>3. /\ \A k \in 1 .. n - 1 : Remaining(fewer)[k] = fewer[k].remaining_quantity
        /\ RemainingSum(fewer) = SumOver(Remaining(fewer), 1 .. n - 1)
    BY <1>2, RemainingSumIs
  <1>4. \A k \in 1 .. n - 1 :
           Remaining(fewer)[k] = IF k < i THEN Remaining(orders)[k] ELSE Remaining(orders)[k + 1]
    <2> SUFFICES ASSUME NEW k \in 1 .. n - 1
                 PROVE  Remaining(fewer)[k] = IF k < i THEN Remaining(orders)[k]
                                              ELSE Remaining(orders)[k + 1]
      OBVIOUS
    <2>1. k \in 1 .. n /\ k + 1 \in 1 .. n
      BY <1>1
    <2> QED
      BY <1>1, <1>3, <2>1 DEF n
  <1>5. SumOver(Remaining(orders), 1 .. n)
           = SumOver(Remaining(fewer), 1 .. n - 1) + Remaining(orders)[i]
    <2> DEFINE f == Remaining(orders)
               g == Remaining(fewer)
    <2>1. /\ i \in 1 .. n /\ n \in Nat /\ \A k \in 1 .. n : f[k] \in Nat
          /\ \A k \in 1 .. n - 1 : k < i => g[k] = f[k]
          /\ \A k \in 1 .. n - 1 : ~(k < i) => g[k] = f[k + 1]
      BY <1>1, <1>4 DEF n
    <2> HIDE DEF f, g
    <2>2. SumOver(f, 1 .. n) = SumOver(g, 1 .. n - 1) + f[i]
      BY <2>1, SumClosedUp
    <2> QED
      BY <2>2 DEF f, g
  <1> QED
    BY <1>1, <1>3, <1>5 DEF n

\* A fill takes its quantity off the sum.
LEMMA RemainingSumAfterFill ==
    ASSUME NEW was \in Seq(Order), was # <<>>, NEW quantity \in 1 .. was[1].remaining_quantity
    PROVE  RemainingSum(AfterFill(was, quantity)) = RemainingSum(was) - quantity
  <1> DEFINE left == AfterFill(was, quantity)
  <1>1. Len(was) \in Nat /\ 1 \in 1 .. Len(was) /\ was[1] \in Order
    OBVIOUS
  <1>2. was[1].remaining_quantity \in Nat /\ quantity \in Nat
    BY <1>1, ModulusAssumption DEF Order, Quantity
  <1>3. left \in Seq(Order)
    BY AfterFillTyped
  <1>4. RemainingSum(left) \in Nat /\ RemainingSum(was) \in Nat
    BY <1>3, RemainingSumIs
  <1>5. CASE was[1].remaining_quantity = quantity
    <2>1. /\ DOMAIN left = 1 .. Len(was) - 1
          /\ \A k \in 1 .. Len(was) - 1 : left[k] = was[k + 1]
      BY <1>5, AfterFillTyped
    <2> HIDE DEF left
    <2>2. \A k \in 1 .. Len(was) - 1 : left[k] = IF k < 1 THEN was[k] ELSE was[k + 1]
      BY <2>1
    <2>3. RemainingSum(was) = RemainingSum(left) + was[1].remaining_quantity
      BY <1>1, <1>3, <2>1, <2>2, RemainingSumClosedUp
    <2> QED
      BY <1>2, <1>4, <1>5, <2>3 DEF left
  <1>6. CASE was[1].remaining_quantity # quantity
    <2>1. /\ DOMAIN left = 1 .. Len(was)
          /\ left[1] = [was[1] EXCEPT !.remaining_quantity = @ - quantity]
          /\ \A k \in 2 .. Len(was) : left[k] = was[k]
          /\ was[1].remaining_quantity - quantity > 0
      BY <1>6, AfterFillTyped
    <2> HIDE DEF left
    <2>2. left[1].remaining_quantity = was[1].remaining_quantity - quantity
      BY <1>1, <2>1 DEF Order
    <2>3. Len(left) = Len(was)
      BY <1>1, <1>3, <2>1
    <2> DEFINE n == Len(was)
    <2>4. /\ \A k \in 1 .. n : /\ Remaining(was)[k] \in Nat
                               /\ Remaining(was)[k] = was[k].remaining_quantity
          /\ RemainingSum(was) = SumOver(Remaining(was), 1 .. n)
      BY RemainingSumIs
    <2>5. /\ \A k \in 1 .. n : /\ Remaining(left)[k] \in Nat
                               /\ Remaining(left)[k] = left[k].remaining_quantity
          /\ RemainingSum(left) = SumOver(Remaining(left), 1 .. n)
      BY <1>3, <2>3, RemainingSumIs
    <2>6. \A k \in (1 .. n) \ {1} : Remaining(left)[k] = Remaining(was)[k]
      BY <1>1, <2>1, <2>4, <2>5
    <2>7. Summable(Remaining(was), 1 .. n)
      BY <1>1, <2>4, FS_Interval DEF Summable
    <2>8. 1 \in 1 .. n /\ Remaining(left)[1] \in Nat
      BY <1>1, <2>5
    <2>9. SumOver(Remaining(left), 1 .. n)
             = (SumOver(Remaining(was), 1 .. n) - Remaining(was)[1]) + Remaining(left)[1]
      <3> DEFINE S == 1 .. n
                 f == Remaining(was)
                 g == Remaining(left)
      <3>1. Summable(f, S) /\ 1 \in S /\ g[1] \in Nat /\ \A y \in S \ {1} : g[y] = f[y]
        BY <2>6, <2>7, <2>8
      <3> HIDE DEF S, f, g
      <3>2. SumOver(g, S) = (SumOver(f, S) - f[1]) + g[1]
        BY <3>1, SumChanged
      <3> QED
        BY <3>2 DEF S, f, g
    <2>10. Remaining(was)[1] = was[1].remaining_quantity
           /\ Remaining(left)[1] = was[1].remaining_quantity - quantity
      BY <2>2, <2>4, <2>5, <2>8
    <2> QED
      BY <1>2, <1>4, <2>4, <2>5, <2>9, <2>10 DEF left
  <1> QED
    BY <1>5, <1>6

\* Finitely many levels, each with the sum of its orders as its total: the part of
\* the inductive invariant that the totals need.
Summed(b) ==
    /\ \A s \in Side : IsFiniteSet(DOMAIN b.levels[s])
    /\ TotalsConsistent(b)

\* Fewer levels are finitely many.
LEMMA FewerLevelsFinite ==
    ASSUME NEW b, NEW nb, Summed(b),
           \A x \in Side : DOMAIN nb.levels[x] \subseteq DOMAIN b.levels[x]
    PROVE  \A x \in Side : IsFiniteSet(DOMAIN nb.levels[x])
  BY FS_Subset DEF Summed

LEMMA AddOrderKeepsSummed ==
    ASSUME NEW b, IsBook(b), Summed(b), NEW o \in Order
    PROVE  Summed(add_order(b, o))
  <1> DEFINE nb == add_order(b, o)
             was == OrdersAt(b, o.side, o.price)
             before == TotalAt(b, o.side, o.price)
  <1>1. o.side \in Side /\ o.price \in Price /\ o.remaining_quantity \in Nat
    BY ModulusAssumption DEF Order, Quantity
  <1>2. /\ IsBook(nb)
        /\ \A s \in Side : s # o.side => nb.levels[s] = b.levels[s]
        /\ DOMAIN nb.levels[o.side] = DOMAIN b.levels[o.side] \cup {o.price}
    BY AddOrderParts
  <1>3. \A s \in Side, p \in Price :
           OrdersAt(nb, s, p) = IF s = o.side /\ p = o.price
                                THEN Append(OrdersAt(b, s, p), o) ELSE OrdersAt(b, s, p)
    BY AddOrderParts
  <1>4. \A p \in DOMAIN b.levels[o.side] :
            p # o.price => nb.levels[o.side][p] = b.levels[o.side][p]
    BY AddOrderParts
  <1>5. nb.levels[o.side][o.price].total_quantity
           = (before + o.remaining_quantity) % QuantityModulus
    BY AddOrderParts
  <1>6. was \in Seq(Order)
    BY <1>1, OrdersAtTyped
  <1>7. RemainingSum(was) \in Nat
        /\ RemainingSum(Append(was, o)) = RemainingSum(was) + o.remaining_quantity
    <2> HIDE DEF was
    <2> QED
      BY <1>6, RemainingSumIs, RemainingSumAppend
  <1>8. before = RemainingSum(was) % QuantityModulus
    <2>1. CASE o.price \in DOMAIN b.levels[o.side]
      BY <1>1, <2>1 DEF Summed, TotalsConsistent, TotalAt
    <2>2. CASE o.price \notin DOMAIN b.levels[o.side]
      <3>1. was = <<>>
        BY <2>2 DEF OrdersAt
      <3>2. RemainingSum(was) = 0
        BY <3>1, RemainingSumOfNone
      <3>3. 0 % QuantityModulus = 0
        BY ModulusAssumption
      <3> QED
        BY <2>2, <3>2, <3>3 DEF TotalAt
    <2> QED
      BY <2>1, <2>2
  <1> HIDE DEF nb, was, before
  <1>9. nb.levels[o.side][o.price].total_quantity
           = RemainingSum(Append(was, o)) % QuantityModulus
    <2>1. ((RemainingSum(was) % QuantityModulus) + o.remaining_quantity) % QuantityModulus
             = (RemainingSum(was) + o.remaining_quantity) % QuantityModulus
      BY <1>1, <1>7, WrapAdds
    <2> QED
      BY <1>7, <1>8, <1>5, <2>1
  <1>10. ASSUME NEW s \in Side, NEW p \in DOMAIN nb.levels[s]
         PROVE  nb.levels[s][p].total_quantity
                   = RemainingSum(OrdersAt(nb, s, p)) % QuantityModulus
    <2>1. p \in Price
      BY <1>2 DEF IsBook, IsMap
    <2>2. CASE s = o.side /\ p = o.price
      <3>1. OrdersAt(nb, s, p) = Append(was, o)
        BY <1>3, <2>1, <2>2 DEF was
      <3> QED
        BY <1>9, <2>2, <3>1
    <2>3. CASE ~(s = o.side /\ p = o.price)
      <3>1. p \in DOMAIN b.levels[s] /\ nb.levels[s][p] = b.levels[s][p]
            /\ OrdersAt(nb, s, p) = OrdersAt(b, s, p)
        BY <1>2, <1>3, <1>4, <2>1, <2>3
      <3> QED
        BY <3>1 DEF Summed, TotalsConsistent
    <2> QED
      BY <2>2, <2>3
  <1>11. ASSUME NEW s \in Side PROVE IsFiniteSet(DOMAIN nb.levels[s])
    <2>1. CASE s = o.side
      BY <1>2, <2>1, FS_AddElement DEF Summed
    <2>2. CASE s # o.side
      BY <1>2, <2>2 DEF Summed
    <2> QED
      BY <2>1, <2>2
  <1> QED
    BY <1>10, <1>11 DEF Summed, TotalsConsistent, nb

LEMMA ExtractKeepsSummed ==
    ASSUME NEW b, WellFormed(b), Summed(b), NEW id, contains(b, id), NEW i,
           IsPosition(b, id, i), ~erase_throws(b, id, i)
    PROVE  Summed(extract_order(b, id, i))
  <1> DEFINE nb == extract_order(b, id, i)
             at == b.order_locations[id]
             was == OrdersAt(b, at.side, at.price)
  <1>1. /\ at.side \in Side /\ at.price \in DOMAIN b.levels[at.side]
        /\ at.price \in Price /\ i \in 1 .. Len(was) /\ was[i] \in Order
    BY PositionFacts
  <1>2. /\ IsBook(nb)
        /\ \A x \in Side : DOMAIN nb.levels[x] \subseteq DOMAIN b.levels[x]
        /\ \A x \in Side, q \in Price :
              OrdersAt(nb, x, q) = IF x = at.side /\ q = at.price THEN Without(was, i)
                                   ELSE OrdersAt(b, x, q)
        /\ \A x \in Side : \A q \in DOMAIN nb.levels[x] :
              nb.levels[x][q].total_quantity =
                 IF x = at.side /\ q = at.price
                 THEN b.levels[x][q].total_quantity - was[i].remaining_quantity
                 ELSE b.levels[x][q].total_quantity
        /\ was[i].remaining_quantity <= b.levels[at.side][at.price].total_quantity
    BY ExtractParts
  <1>3. was \in Seq(Order)
    BY <1>1, OrdersAtTyped DEF WellFormed
  <1>4. b.levels[at.side][at.price].total_quantity = RemainingSum(was) % QuantityModulus
    BY <1>1 DEF Summed, TotalsConsistent
  <1>5. was[i].remaining_quantity \in Nat
    BY <1>1, ModulusAssumption DEF Order, Quantity
  <1> HIDE DEF nb, was, at
  <1>6. /\ Without(was, i) \in Seq(Order)
        /\ DOMAIN Without(was, i) = 1 .. Len(was) - 1
        /\ \A k \in 1 .. Len(was) - 1 :
              Without(was, i)[k] = IF k < i THEN was[k] ELSE was[k + 1]
    BY <1>1, <1>3, WithoutTyped
  <1>7. RemainingSum(was) = RemainingSum(Without(was, i)) + was[i].remaining_quantity
    BY <1>1, <1>3, <1>6, RemainingSumClosedUp
  <1>8. RemainingSum(was) \in Nat /\ RemainingSum(Without(was, i)) \in Nat
    BY <1>3, <1>6, RemainingSumIs
  <1>9. (RemainingSum(was) % QuantityModulus) - was[i].remaining_quantity
           = RemainingSum(Without(was, i)) % QuantityModulus
    <2>1. was[i].remaining_quantity <= RemainingSum(was) % QuantityModulus
      BY <1>2, <1>4
    <2>2. (RemainingSum(was) % QuantityModulus) - was[i].remaining_quantity
             = (RemainingSum(was) - was[i].remaining_quantity) % QuantityModulus
      BY <1>5, <1>8, <2>1, WrapSubtracts
    <2>3. RemainingSum(was) - was[i].remaining_quantity = RemainingSum(Without(was, i))
      BY <1>5, <1>7, <1>8
    <2> QED
      BY <2>2, <2>3
  <1>10. ASSUME NEW s \in Side, NEW p \in DOMAIN nb.levels[s]
         PROVE  nb.levels[s][p].total_quantity
                   = RemainingSum(OrdersAt(nb, s, p)) % QuantityModulus
    <2>1. p \in Price /\ p \in DOMAIN b.levels[s]
      BY <1>2 DEF IsBook, IsMap
    <2>2. CASE s = at.side /\ p = at.price
      BY <1>2, <1>4, <1>9, <2>1, <2>2
    <2>3. CASE ~(s = at.side /\ p = at.price)
      BY <1>2, <2>1, <2>3 DEF Summed, TotalsConsistent
    <2> QED
      BY <2>2, <2>3
  <1>11. \A x \in Side : IsFiniteSet(DOMAIN nb.levels[x])
    BY <1>2, FewerLevelsFinite
  <1> QED
    BY <1>10, <1>11 DEF Summed, TotalsConsistent, nb

LEMMA FillKeepsSummed ==
    ASSUME NEW b, WellFormed(b), Summed(b), NEW s \in Side, NEW p \in DOMAIN b.levels[s],
           NEW quantity \in 1 .. Head(b.levels[s][p].orders).remaining_quantity
    PROVE  Summed(fill_front(b, s, p, quantity))
  <1> DEFINE nb == fill_front(b, s, p, quantity)
             was == OrdersAt(b, s, p)
             left == AfterFill(was, quantity)
  <1>1. /\ p \in Price /\ b.levels[s][p].orders = was /\ was \in Seq(Order) /\ was # <<>>
        /\ Head(was) = was[1] /\ was[1].remaining_quantity \in Quantity
    BY FrontFacts
  <1>2. quantity \in 1 .. was[1].remaining_quantity /\ quantity \in Int
    BY <1>1, ModulusAssumption DEF Quantity
  <1>3. /\ IsBook(nb)
        /\ \A x \in Side : DOMAIN nb.levels[x] \subseteq DOMAIN b.levels[x]
        /\ \A x \in Side, q \in Price :
              OrdersAt(nb, x, q) = IF x = s /\ q = p THEN left ELSE OrdersAt(b, x, q)
        /\ \A x \in Side : \A q \in DOMAIN nb.levels[x] :
              nb.levels[x][q].total_quantity =
                 IF x = s /\ q = p
                 THEN (b.levels[x][q].total_quantity - quantity) % QuantityModulus
                 ELSE b.levels[x][q].total_quantity
    BY FillParts
  <1>4. b.levels[s][p].total_quantity = RemainingSum(was) % QuantityModulus
    BY DEF Summed, TotalsConsistent
  <1> HIDE DEF nb, was
  <1>5. RemainingSum(left) = RemainingSum(was) - quantity /\ RemainingSum(was) \in Nat
    BY <1>1, <1>2, RemainingSumAfterFill, RemainingSumIs
  <1> HIDE DEF left
  <1>6. ((RemainingSum(was) % QuantityModulus) - quantity) % QuantityModulus
           = RemainingSum(left) % QuantityModulus
    <2>1. -quantity \in Int
      BY <1>2
    <2>2. ((RemainingSum(was) % QuantityModulus) + (-quantity)) % QuantityModulus
             = (RemainingSum(was) + (-quantity)) % QuantityModulus
      BY <1>5, <2>1, WrapAdds
    <2>3. RemainingSum(was) % QuantityModulus \in Int
      BY <1>5, ModulusAssumption
    <2>4. /\ (RemainingSum(was) % QuantityModulus) + (-quantity)
                = (RemainingSum(was) % QuantityModulus) - quantity
          /\ RemainingSum(was) + (-quantity) = RemainingSum(left)
      BY <1>2, <1>5, <2>3
    <2> QED
      BY <2>2, <2>4
  <1>7. ASSUME NEW x \in Side, NEW q \in DOMAIN nb.levels[x]
        PROVE  nb.levels[x][q].total_quantity
                  = RemainingSum(OrdersAt(nb, x, q)) % QuantityModulus
    <2>1. q \in Price /\ q \in DOMAIN b.levels[x]
      BY <1>3 DEF IsBook, IsMap
    <2>2. CASE x = s /\ q = p
      BY <1>3, <1>4, <1>6, <2>1, <2>2
    <2>3. CASE ~(x = s /\ q = p)
      BY <1>3, <2>1, <2>3 DEF Summed, TotalsConsistent
    <2> QED
      BY <2>2, <2>3
  <1>8. \A x \in Side : IsFiniteSet(DOMAIN nb.levels[x])
    BY <1>3, FewerLevelsFinite
  <1> QED
    BY <1>7, <1>8 DEF Summed, TotalsConsistent, nb
=============================================================================
