-------------------------- MODULE RiskEngineProofs --------------------------
(***************************************************************************)
(* The risk engine is right for any number of clients, symbols and orders  *)
(* and for all limits and widths: its counters are those of the book, and  *)
(* no sequence of fills can take a position past its limit.                *)
(***************************************************************************)
EXTENDS RiskEngine, SumsProofs

-----------------------------------------------------------------------------
(* Sums of what orders have left *)

IsBook(orders) == IsMap(orders, OrderKey, WorkingOrder) /\ IsFiniteSet(DOMAIN orders)

Remaining(orders) == [k \in DOMAIN orders |-> orders[k].remaining_quantity]
Quantity(orders, keys) == SumOver(Remaining(orders), keys)

LEMMA OrderQuantity ==
    ASSUME NEW orders, IsBook(orders), NEW k \in DOMAIN orders
    PROVE  /\ k \in OrderKey
           /\ orders[k].remaining_quantity \in Nat
           /\ 1 <= orders[k].remaining_quantity /\ orders[k].remaining_quantity <= CounterMax
           /\ orders[k].side \in Side
BY RiskLimitsAssumption DEF IsBook, IsMap, WorkingOrder

LEMMA OrdersSummable ==
    ASSUME NEW orders, IsBook(orders), NEW keys \in SUBSET DOMAIN orders
    PROVE  Summable(Remaining(orders), keys)
<1>1. IsFiniteSet(keys)
  BY FS_Subset DEF IsBook
<1> QED  BY <1>1, OrderQuantity DEF Summable, Remaining

LEMMA QuantityIsNat ==
    ASSUME NEW orders, IsBook(orders), NEW keys \in SUBSET DOMAIN orders
    PROVE  Quantity(orders, keys) \in Nat
BY OrdersSummable, SumIsNat DEF Quantity

\* An order adds what it has left.
LEMMA QuantityWithout ==
    ASSUME NEW orders, IsBook(orders), NEW keys \in SUBSET DOMAIN orders, NEW k \in keys
    PROVE  Quantity(orders, keys) =
               Quantity(orders, keys \ {k}) + orders[k].remaining_quantity
<1>1. Summable(Remaining(orders), keys)
  BY OrdersSummable
<1>2. Remaining(orders)[k] = orders[k].remaining_quantity
  BY DEF Remaining
<1>3. SumOver(Remaining(orders), keys) =
          SumOver(Remaining(orders), keys \ {k}) + Remaining(orders)[k]
  BY <1>1, SumWithout
<1> QED  BY <1>2, <1>3 DEF Quantity

\* Only what the orders have left counts.
LEMMA QuantitySame ==
    ASSUME NEW orders, NEW others, NEW keys,
           keys \subseteq DOMAIN orders, keys \subseteq DOMAIN others,
           \A k \in keys : others[k] = orders[k]
    PROVE  Quantity(others, keys) = Quantity(orders, keys)
<1>1. \A k \in keys : Remaining(others)[k] = Remaining(orders)[k]
  BY DEF Remaining
<1> QED  BY <1>1, SumSame DEF Quantity

LEMMA QuantityNone ==
    ASSUME NEW orders
    PROVE  Quantity(orders, {}) = 0
BY SumOfNone DEF Quantity

-----------------------------------------------------------------------------
(* Books that differ in one order *)

OrdersOf(orders, c) == {k \in DOMAIN orders : k.client = c}
OrdersOnSide(orders, c, s, side) ==
    {k \in DOMAIN orders : k.client = c /\ k.symbol = s /\ orders[k].side = side}

SameBut(k, orders, others) ==
    /\ (DOMAIN others) \ {k} = (DOMAIN orders) \ {k}
    /\ \A x \in (DOMAIN orders) \ {k} : others[x] = orders[x]

\* What an order has left among a set of orders.
Share(orders, k, keys) == IF k \in keys THEN orders[k].remaining_quantity ELSE 0

\* The orders of a book, less one.
LEMMA ShareOut ==
    ASSUME NEW orders, IsBook(orders), NEW k, NEW keys \in SUBSET DOMAIN orders
    PROVE  /\ Quantity(orders, keys \ {k}) \in Nat
           /\ Share(orders, k, keys) \in Nat
           /\ Quantity(orders, keys) = Quantity(orders, keys \ {k}) + Share(orders, k, keys)
<1>1. CASE k \in keys
  BY <1>1, QuantityWithout, QuantityIsNat, OrderQuantity DEF Share
<1>2. CASE k \notin keys
  <2>1. keys \ {k} = keys
    BY <1>2
  <2> QED  BY <1>2, <2>1, QuantityIsNat DEF Share
<1> QED  BY <1>1, <1>2

\* When one order changes, a sum changes by what that order has left.
LEMMA ShareMoves ==
    ASSUME NEW orders, IsBook(orders), NEW others, IsBook(others), NEW k,
           SameBut(k, orders, others),
           NEW keys \in SUBSET DOMAIN orders, NEW others_keys \in SUBSET DOMAIN others,
           keys \ {k} = others_keys \ {k}
    PROVE  /\ Quantity(orders, keys) \in Nat
           /\ Quantity(others, others_keys) \in Nat
           /\ Share(orders, k, keys) \in Nat
           /\ Share(others, k, others_keys) \in Nat
           /\ Share(orders, k, keys) <= Quantity(orders, keys)
           /\ Quantity(others, others_keys) =
                 Quantity(orders, keys) - Share(orders, k, keys) + Share(others, k, others_keys)
<1>1. Quantity(others, keys \ {k}) = Quantity(orders, keys \ {k})
  BY QuantitySame DEF SameBut
<1>2. /\ Quantity(orders, keys \ {k}) \in Nat
      /\ Share(orders, k, keys) \in Nat
      /\ Quantity(orders, keys) = Quantity(orders, keys \ {k}) + Share(orders, k, keys)
  BY ShareOut
<1>3. /\ Share(others, k, others_keys) \in Nat
      /\ Quantity(others, others_keys) =
            Quantity(others, others_keys \ {k}) + Share(others, k, others_keys)
  BY ShareOut
<1>4. Quantity(others, others_keys \ {k}) = Quantity(orders, keys \ {k})
  BY <1>1, Zenon
<1> QED  BY <1>2, <1>3, <1>4

LEMMA OrdersOfMove ==
    ASSUME NEW orders, IsBook(orders), NEW others, IsBook(others), NEW k,
           SameBut(k, orders, others), NEW c
    PROVE  LET before == OrdersOf(orders, c)
               after == OrdersOf(others, c)
           IN  /\ Quantity(orders, before) \in Nat
               /\ Share(orders, k, before) \in Nat
               /\ Share(others, k, after) \in Nat
               /\ Share(orders, k, before) <= Quantity(orders, before)
               /\ Quantity(others, after) =
                     Quantity(orders, before) - Share(orders, k, before)
                         + Share(others, k, after)
<1> DEFINE before == OrdersOf(orders, c)
           after == OrdersOf(others, c)
<1>1. /\ before \ {k} = after \ {k}
      /\ before \in SUBSET DOMAIN orders /\ after \in SUBSET DOMAIN others
  BY DEF OrdersOf, SameBut
<1> HIDE DEF before, after
<1>2. /\ Quantity(orders, before) \in Nat
      /\ Share(orders, k, before) \in Nat
      /\ Share(others, k, after) \in Nat
      /\ Share(orders, k, before) <= Quantity(orders, before)
      /\ Quantity(others, after) =
            Quantity(orders, before) - Share(orders, k, before) + Share(others, k, after)
  BY <1>1, ShareMoves
<1> QED  BY <1>2 DEF before, after

LEMMA OrdersOnSideMove ==
    ASSUME NEW orders, IsBook(orders), NEW others, IsBook(others), NEW k,
           SameBut(k, orders, others), NEW c, NEW s, NEW side
    PROVE  LET before == OrdersOnSide(orders, c, s, side)
               after == OrdersOnSide(others, c, s, side)
           IN  /\ Quantity(orders, before) \in Nat
               /\ Share(orders, k, before) \in Nat
               /\ Share(others, k, after) \in Nat
               /\ Share(orders, k, before) <= Quantity(orders, before)
               /\ Quantity(others, after) =
                     Quantity(orders, before) - Share(orders, k, before)
                         + Share(others, k, after)
<1> DEFINE before == OrdersOnSide(orders, c, s, side)
           after == OrdersOnSide(others, c, s, side)
<1>1. /\ before \ {k} = after \ {k}
      /\ before \in SUBSET DOMAIN orders /\ after \in SUBSET DOMAIN others
  BY DEF OrdersOnSide, SameBut
<1> HIDE DEF before, after
<1>2. /\ Quantity(orders, before) \in Nat
      /\ Share(orders, k, before) \in Nat
      /\ Share(others, k, after) \in Nat
      /\ Share(orders, k, before) <= Quantity(orders, before)
      /\ Quantity(others, after) =
            Quantity(orders, before) - Share(orders, k, before) + Share(others, k, after)
  BY <1>1, ShareMoves
<1> QED  BY <1>2 DEF before, after

\* The same for the number of a client's orders.
LEMMA CountMoves ==
    ASSUME NEW orders, IsBook(orders), NEW others, IsBook(others), NEW k,
           SameBut(k, orders, others), NEW c
    PROVE  LET before == OrdersOf(orders, c)
               after == OrdersOf(others, c)
           IN  /\ Cardinality(before) \in Nat
               /\ k \in before => 1 <= Cardinality(before)
               /\ Cardinality(after) =
                     Cardinality(before) - (IF k \in before THEN 1 ELSE 0)
                         + (IF k \in after THEN 1 ELSE 0)
<1> DEFINE before == OrdersOf(orders, c)
           after == OrdersOf(others, c)
<1>1. before \ {k} = after \ {k}
  BY DEF OrdersOf, SameBut
<1>2. IsFiniteSet(before) /\ IsFiniteSet(after)
  BY FS_Subset DEF OrdersOf, IsBook
<1> HIDE DEF before, after
<1>3. /\ Cardinality(before \ {k}) = IF k \in before THEN Cardinality(before) - 1
                                     ELSE Cardinality(before)
      /\ IsFiniteSet(before \ {k})
  BY <1>2, FS_RemoveElement
<1>4. Cardinality(after \ {k}) = IF k \in after THEN Cardinality(after) - 1 ELSE Cardinality(after)
  BY <1>2, FS_RemoveElement
<1>5. /\ Cardinality(before) \in Nat /\ Cardinality(after) \in Nat
      /\ Cardinality(before \ {k}) \in Nat
  BY <1>2, <1>3, FS_CardinalityType
<1>6. /\ Cardinality(before) \in Nat
      /\ k \in before => 1 <= Cardinality(before)
      /\ Cardinality(after) =
            Cardinality(before) - (IF k \in before THEN 1 ELSE 0) + (IF k \in after THEN 1 ELSE 0)
  BY <1>1, <1>3, <1>4, <1>5
<1> QED  BY <1>6 DEF before, after

-----------------------------------------------------------------------------
(* What the functions of the engine do to its state *)

ClientState == [kill_switch : BOOLEAN, open_orders : Nat, gross_open_quantity : Counter]
SymbolState ==
    [position : Position, open_buy_quantity : Counter, open_sell_quantity : Counter]

IsRisk(r) ==
    /\ r = [global_kill_switch |-> r.global_kill_switch, clients |-> r.clients,
            symbols |-> r.symbols, working_orders |-> r.working_orders]
    /\ r.global_kill_switch \in BOOLEAN
    /\ r.clients \in [Client -> ClientState]
    /\ r.symbols \in [Client -> [Symbol -> SymbolState]]

\* The counters are those of the orders.
Counted(r, orders) ==
    /\ r.working_orders = orders
    /\ \A c \in Client :
          /\ r.clients[c].open_orders = Cardinality(OrdersOf(orders, c))
          /\ r.clients[c].gross_open_quantity = Quantity(orders, OrdersOf(orders, c))
          /\ \A s \in Symbol :
                /\ r.symbols[c][s].open_buy_quantity =
                      Quantity(orders, OrdersOnSide(orders, c, s, "Buy"))
                /\ r.symbols[c][s].open_sell_quantity =
                      Quantity(orders, OrdersOnSide(orders, c, s, "Sell"))

\* Only a function that is given a position changes positions, and none of them
\* changes a switch.
SameSwitches(r, w) ==
    /\ w.global_kill_switch = r.global_kill_switch
    /\ \A c \in Client : w.clients[c].kill_switch = r.clients[c].kill_switch

\* Open orders and quantities of an order's client and symbol change by so much, and
\* nothing else does.
Moved(r, w, k, orders, buy, sell) ==
    \A c \in Client :
        /\ w.clients[c].open_orders = r.clients[c].open_orders + IF c = k.client THEN orders ELSE 0
        /\ w.clients[c].gross_open_quantity =
              r.clients[c].gross_open_quantity + IF c = k.client THEN buy + sell ELSE 0
        /\ \A s \in Symbol :
              /\ w.symbols[c][s].position = r.symbols[c][s].position
              /\ w.symbols[c][s].open_buy_quantity = r.symbols[c][s].open_buy_quantity
                    + IF c = k.client /\ s = k.symbol THEN buy ELSE 0
              /\ w.symbols[c][s].open_sell_quantity = r.symbols[c][s].open_sell_quantity
                    + IF c = k.client /\ s = k.symbol THEN sell ELSE 0

LEMMA RiskFields ==
    ASSUME NEW r, IsRisk(r), NEW c \in Client, NEW s \in Symbol
    PROVE  /\ r.clients[c] \in ClientState
           /\ r.clients[c].kill_switch \in BOOLEAN
           /\ r.clients[c].open_orders \in Nat
           /\ r.clients[c].gross_open_quantity \in Counter
           /\ r.symbols[c][s] \in SymbolState
           /\ r.symbols[c][s].position \in Position
           /\ r.symbols[c][s].open_buy_quantity \in Counter
           /\ r.symbols[c][s].open_sell_quantity \in Counter
BY DEF IsRisk, ClientState, SymbolState

LEMMA UpdateFields ==
    ASSUME NEW r, IsRisk(r), NEW key \in OrderKey,
           NEW client \in ClientState, NEW symbol \in SymbolState, NEW working_orders
    PROVE  LET w == Update(r, key, client, symbol, working_orders)
           IN  /\ IsRisk(w)
               /\ w.working_orders = working_orders
               /\ w.global_kill_switch = r.global_kill_switch
               /\ \A c \in Client :
                     w.clients[c] = IF c = key.client THEN client ELSE r.clients[c]
               /\ \A c \in Client, s \in Symbol :
                     w.symbols[c][s] = IF c = key.client /\ s = key.symbol THEN symbol
                                       ELSE r.symbols[c][s]
<1>1. key.client \in Client /\ key.symbol \in Symbol
  BY DEF OrderKey
<1> QED  BY <1>1 DEF IsRisk, Update

\* An order that has less left, or leaves, is one change of the book.
LEMMA LeftIsBook ==
    ASSUME NEW orders, IsBook(orders), NEW k \in DOMAIN orders,
           NEW q \in Nat, q <= orders[k].remaining_quantity
    PROVE  LET others == Left(orders, k, q)
           IN  /\ IsBook(others)
               /\ SameBut(k, orders, others)
               /\ k \in DOMAIN others <=> q # 0
               /\ q # 0 => /\ others[k].remaining_quantity = q
                           /\ others[k].side = orders[k].side
               /\ DOMAIN others \subseteq DOMAIN orders
<1> DEFINE others == Left(orders, k, q)
           order == [side |-> orders[k].side, remaining_quantity |-> q]
<1>1. CASE q = 0
  <2>1. others = [x \in (DOMAIN orders) \ {k} |-> orders[x]]
    BY <1>1 DEF Left, Erase, Restrict
  <2>2. IsFiniteSet((DOMAIN orders) \ {k})
    BY FS_RemoveElement DEF IsBook
  <2> QED  BY <1>1, <2>1, <2>2 DEF IsBook, IsMap, SameBut
<1>2. CASE q # 0
  <2>1. /\ DOMAIN others = DOMAIN orders
        /\ others = [x \in DOMAIN orders |-> IF x = k THEN order ELSE orders[x]]
    BY <1>2 DEF Left, Put
  <2>2. order \in WorkingOrder
    BY <1>2, OrderQuantity, RiskLimitsAssumption DEF WorkingOrder
  <2>3. IsBook(others)
    BY <2>1, <2>2 DEF IsBook, IsMap
  <2> QED  BY <1>2, <2>1, <2>3 DEF SameBut
<1> QED  BY <1>1, <1>2

\* Release keeps the counters those of the orders.
LEMMA ReleaseCounts ==
    ASSUME NEW r, IsRisk(r), NEW orders, IsBook(orders), Counted(r, orders),
           NEW k \in DOMAIN orders,
           NEW q \in Nat, 1 <= q, q <= orders[k].remaining_quantity
    PROVE  LET left == orders[k].remaining_quantity - q
               w == Release(r, k, orders[k].side, q, IF left = 0 THEN 1 ELSE 0,
                            Left(orders, k, left))
           IN  /\ IsRisk(w) /\ IsBook(Left(orders, k, left))
               /\ Counted(w, Left(orders, k, left))
               /\ SameSwitches(r, w)
               /\ Moved(r, w, k, IF left = 0 THEN -1 ELSE 0,
                        IF orders[k].side = "Buy" THEN -q ELSE 0,
                        IF orders[k].side = "Sell" THEN -q ELSE 0)
<1> DEFINE rem == orders[k].remaining_quantity
           left == rem - q
           side == orders[k].side
           others == Left(orders, k, left)
           gone == IF left = 0 THEN 1 ELSE 0
           w == Release(r, k, side, q, gone, others)
           client == r.clients[k.client]
           symbol == r.symbols[k.client][k.symbol]
           buy == IF side = "Buy" THEN -q ELSE 0
           sell == IF side = "Sell" THEN -q ELSE 0
           new_client == [kill_switch |-> client.kill_switch,
                          open_orders |-> MinusOrZero(client.open_orders, gone),
                          gross_open_quantity |-> MinusOrZero(client.gross_open_quantity, q)]
           new_symbol == [position |-> symbol.position,
                          open_buy_quantity |->
                             IF side = "Buy" THEN MinusOrZero(symbol.open_buy_quantity, q)
                             ELSE symbol.open_buy_quantity,
                          open_sell_quantity |->
                             IF side = "Sell" THEN MinusOrZero(symbol.open_sell_quantity, q)
                             ELSE symbol.open_sell_quantity]
<1>1. /\ k \in OrderKey /\ k.client \in Client /\ k.symbol \in Symbol
      /\ rem \in Nat /\ 1 <= rem /\ side \in Side /\ left \in Nat /\ left <= rem
  BY OrderQuantity DEF OrderKey
<1>2. /\ IsBook(others) /\ SameBut(k, orders, others)
      /\ k \in DOMAIN others <=> left # 0
      /\ left # 0 => others[k].remaining_quantity = left /\ others[k].side = side
  BY <1>1, LeftIsBook
<1>3. /\ client.kill_switch \in BOOLEAN
      /\ client.open_orders \in Nat
      /\ client.gross_open_quantity \in Counter
      /\ symbol.position \in Position
      /\ symbol.open_buy_quantity \in Counter
      /\ symbol.open_sell_quantity \in Counter
  BY <1>1, RiskFields
<1>4. new_client \in ClientState /\ new_symbol \in SymbolState
  <2>1. MinusOrZero(client.open_orders, gone) \in Nat
    BY <1>3 DEF MinusOrZero
  <2>2. \A x \in Counter : MinusOrZero(x, q) \in Counter
    BY RiskLimitsAssumption DEF Counter, MinusOrZero
  <2>3. new_client \in ClientState
    BY <1>3, <2>1, <2>2 DEF ClientState
  <2>4. /\ new_symbol.open_buy_quantity \in Counter
        /\ new_symbol.open_sell_quantity \in Counter
    BY <1>3, <2>2
  <2>5. new_symbol \in SymbolState
    BY <1>3, <2>4 DEF SymbolState
  <2> QED  BY <2>3, <2>5
<1>5. w = Update(r, k, new_client, new_symbol, others)
  BY DEF Release
<1>6. /\ IsRisk(w)
      /\ w.working_orders = others
      /\ w.global_kill_switch = r.global_kill_switch
      /\ \A c \in Client : w.clients[c] = IF c = k.client THEN new_client ELSE r.clients[c]
      /\ \A c \in Client, s \in Symbol :
            w.symbols[c][s] = IF c = k.client /\ s = k.symbol THEN new_symbol
                              ELSE r.symbols[c][s]
  <2> HIDE DEF w, others, new_client, new_symbol
  <2> QED  BY <1>1, <1>4, <1>5, UpdateFields
<1>7. ASSUME NEW c \in Client
      PROVE  /\ w.clients[c].kill_switch = r.clients[c].kill_switch
             /\ w.clients[c].open_orders =
                   r.clients[c].open_orders - IF c = k.client /\ left = 0 THEN 1 ELSE 0
             /\ w.clients[c].open_orders = Cardinality(OrdersOf(others, c))
  <2>1. /\ Cardinality(OrdersOf(orders, c)) \in Nat
        /\ k \in OrdersOf(orders, c) => 1 <= Cardinality(OrdersOf(orders, c))
        /\ Cardinality(OrdersOf(others, c)) =
              Cardinality(OrdersOf(orders, c)) - (IF k \in OrdersOf(orders, c) THEN 1 ELSE 0)
                  + (IF k \in OrdersOf(others, c) THEN 1 ELSE 0)
    BY <1>2, CountMoves
  <2>2. /\ k \in OrdersOf(orders, c) <=> c = k.client
        /\ k \in OrdersOf(others, c) <=> c = k.client /\ left # 0
    BY <1>2 DEF OrdersOf
  <2>3. r.clients[c].open_orders = Cardinality(OrdersOf(orders, c))
    BY DEF Counted
  <2>4. CASE c = k.client
    BY <1>6, <2>1, <2>2, <2>3, <2>4 DEF MinusOrZero
  <2>5. CASE c # k.client
    BY <1>6, <2>1, <2>2, <2>3, <2>5
  <2> QED  BY <2>4, <2>5
<1>8. ASSUME NEW c \in Client
      PROVE  /\ w.clients[c].gross_open_quantity =
                   r.clients[c].gross_open_quantity - IF c = k.client THEN q ELSE 0
             /\ w.clients[c].gross_open_quantity = Quantity(others, OrdersOf(others, c))
  <2>1. /\ Quantity(orders, OrdersOf(orders, c)) \in Nat
        /\ Share(orders, k, OrdersOf(orders, c)) <= Quantity(orders, OrdersOf(orders, c))
        /\ Quantity(others, OrdersOf(others, c)) =
              Quantity(orders, OrdersOf(orders, c)) - Share(orders, k, OrdersOf(orders, c))
                  + Share(others, k, OrdersOf(others, c))
    BY <1>2, OrdersOfMove
  <2>2. /\ Share(orders, k, OrdersOf(orders, c)) = IF c = k.client THEN rem ELSE 0
        /\ Share(others, k, OrdersOf(others, c)) = IF c = k.client THEN left ELSE 0
    BY <1>2 DEF OrdersOf, Share
  <2>3. r.clients[c].gross_open_quantity = Quantity(orders, OrdersOf(orders, c))
    BY DEF Counted
  <2>4. CASE c = k.client
    BY <1>1, <1>6, <2>1, <2>2, <2>3, <2>4 DEF MinusOrZero
  <2>5. CASE c # k.client
    BY <1>6, <2>1, <2>2, <2>3, <2>5
  <2> QED  BY <2>4, <2>5
<1>9. ASSUME NEW c \in Client, NEW s \in Symbol
      PROVE  LET at == c = k.client /\ s = k.symbol
                 old == r.symbols[c][s]
                 new == w.symbols[c][s]
             IN  /\ new.position = old.position
                 /\ new.open_buy_quantity = old.open_buy_quantity
                       - IF at /\ side = "Buy" THEN q ELSE 0
                 /\ new.open_sell_quantity = old.open_sell_quantity
                       - IF at /\ side = "Sell" THEN q ELSE 0
                 /\ new.open_buy_quantity = Quantity(others, OrdersOnSide(others, c, s, "Buy"))
                 /\ new.open_sell_quantity = Quantity(others, OrdersOnSide(others, c, s, "Sell"))
  <2> DEFINE at == c = k.client /\ s = k.symbol
  <2>1. ASSUME NEW d \in Side
        PROVE  /\ Quantity(orders, OrdersOnSide(orders, c, s, d)) \in Nat
               /\ at /\ side = d => q <= Quantity(orders, OrdersOnSide(orders, c, s, d))
               /\ Quantity(others, OrdersOnSide(others, c, s, d)) =
                     Quantity(orders, OrdersOnSide(orders, c, s, d))
                         - IF at /\ side = d THEN q ELSE 0
    <3>1. /\ Quantity(orders, OrdersOnSide(orders, c, s, d)) \in Nat
          /\ Share(orders, k, OrdersOnSide(orders, c, s, d))
                <= Quantity(orders, OrdersOnSide(orders, c, s, d))
          /\ Quantity(others, OrdersOnSide(others, c, s, d)) =
                Quantity(orders, OrdersOnSide(orders, c, s, d))
                    - Share(orders, k, OrdersOnSide(orders, c, s, d))
                    + Share(others, k, OrdersOnSide(others, c, s, d))
      BY <1>2, OrdersOnSideMove
    <3>2. /\ Share(orders, k, OrdersOnSide(orders, c, s, d)) =
                IF at /\ side = d THEN rem ELSE 0
          /\ Share(others, k, OrdersOnSide(others, c, s, d)) =
                IF at /\ side = d THEN left ELSE 0
      BY <1>2 DEF OrdersOnSide, Share
    <3>3. CASE at /\ side = d
      BY <1>1, <3>1, <3>2, <3>3
    <3>4. CASE ~(at /\ side = d)
      BY <3>1, <3>2, <3>4
    <3> QED  BY <3>3, <3>4
  <2>2. /\ r.symbols[c][s].open_buy_quantity =
              Quantity(orders, OrdersOnSide(orders, c, s, "Buy"))
        /\ r.symbols[c][s].open_sell_quantity =
              Quantity(orders, OrdersOnSide(orders, c, s, "Sell"))
    BY DEF Counted
  <2>3. "Buy" \in Side /\ "Sell" \in Side
    BY DEF Side
  <2>4. CASE at
    BY <1>1, <1>6, <2>1, <2>2, <2>3, <2>4 DEF MinusOrZero, Side
  <2>5. CASE ~at
    BY <1>6, <2>1, <2>2, <2>3, <2>5
  <2> QED  BY <2>4, <2>5
<1> HIDE DEF w, others
<1>10. SameSwitches(r, w)
  BY <1>6, <1>7 DEF SameSwitches
<1>11. Counted(w, others)
  <2> SUFFICES ASSUME NEW c \in Client, NEW s \in Symbol
               PROVE  /\ w.clients[c].open_orders = Cardinality(OrdersOf(others, c))
                      /\ w.clients[c].gross_open_quantity = Quantity(others, OrdersOf(others, c))
                      /\ w.symbols[c][s].open_buy_quantity =
                            Quantity(others, OrdersOnSide(others, c, s, "Buy"))
                      /\ w.symbols[c][s].open_sell_quantity =
                            Quantity(others, OrdersOnSide(others, c, s, "Sell"))
    BY <1>6, <1>7, <1>8 DEF Counted
  <2> QED  BY <1>7, <1>8, <1>9
<1>12. Moved(r, w, k, IF left = 0 THEN -1 ELSE 0, buy, sell)
  <2>1. ASSUME NEW c \in Client
        PROVE  /\ w.clients[c].open_orders =
                     r.clients[c].open_orders
                        + IF c = k.client THEN IF left = 0 THEN -1 ELSE 0 ELSE 0
               /\ w.clients[c].gross_open_quantity =
                     r.clients[c].gross_open_quantity + IF c = k.client THEN buy + sell ELSE 0
    BY <1>1, <1>7, <1>8, RiskFields DEF Side, Counter
  <2>2. ASSUME NEW c \in Client, NEW s \in Symbol
        PROVE  /\ w.symbols[c][s].position = r.symbols[c][s].position
               /\ w.symbols[c][s].open_buy_quantity = r.symbols[c][s].open_buy_quantity
                     + IF c = k.client /\ s = k.symbol THEN buy ELSE 0
               /\ w.symbols[c][s].open_sell_quantity = r.symbols[c][s].open_sell_quantity
                     + IF c = k.client /\ s = k.symbol THEN sell ELSE 0
    BY <1>1, <1>9, RiskFields DEF Side, Counter
  <2> QED  BY <2>1, <2>2 DEF Moved
<1> QED  BY <1>2, <1>6, <1>10, <1>11, <1>12 DEF w, others

\* An order that is added is one change of the book.
LEMMA PutIsBook ==
    ASSUME NEW orders, IsBook(orders), NEW k \in OrderKey, NEW order \in WorkingOrder
    PROVE  /\ IsBook(Put(orders, k, order))
           /\ SameBut(k, orders, Put(orders, k, order))
           /\ DOMAIN Put(orders, k, order) = (DOMAIN orders) \cup {k}
           /\ Put(orders, k, order)[k] = order
<1> DEFINE others == Put(orders, k, order)
<1>1. others = [x \in (DOMAIN orders) \cup {k} |-> IF x = k THEN order ELSE orders[x]]
  BY DEF Put
<1>2. IsFiniteSet((DOMAIN orders) \cup {k})
  BY FS_AddElement DEF IsBook
<1>3. IsBook(others)
  BY <1>1, <1>2 DEF IsBook, IsMap
<1>4. SameBut(k, orders, others) /\ others[k] = order
  BY <1>1 DEF SameBut
<1> QED  BY <1>1, <1>3, <1>4

\* So does the booking of an order, as long as no counter saturates.
LEMMA BookCounts ==
    ASSUME NEW r, IsRisk(r), NEW orders, IsBook(orders), Counted(r, orders),
           NEW k \in OrderKey, k \notin DOMAIN orders,
           NEW side \in Side, NEW q \in Nat, 1 <= q,
           r.clients[k.client].gross_open_quantity + q <= CounterMax,
           side = "Buy" => r.symbols[k.client][k.symbol].open_buy_quantity + q <= CounterMax,
           side = "Sell" => r.symbols[k.client][k.symbol].open_sell_quantity + q <= CounterMax
    PROVE  LET others == Put(orders, k, [side |-> side, remaining_quantity |-> q])
               w == Book(r, k, side, q)
           IN  /\ IsRisk(w) /\ IsBook(others)
               /\ Counted(w, others)
               /\ SameSwitches(r, w)
               /\ Moved(r, w, k, 1, IF side = "Buy" THEN q ELSE 0, IF side = "Sell" THEN q ELSE 0)
<1> DEFINE others == Put(orders, k, [side |-> side, remaining_quantity |-> q])
           w == Book(r, k, side, q)
           client == r.clients[k.client]
           symbol == r.symbols[k.client][k.symbol]
           buy == IF side = "Buy" THEN q ELSE 0
           sell == IF side = "Sell" THEN q ELSE 0
           new_client == [kill_switch |-> client.kill_switch,
                          open_orders |-> client.open_orders + 1,
                          gross_open_quantity |-> client.gross_open_quantity + q]
           new_symbol == [position |-> symbol.position,
                          open_buy_quantity |-> symbol.open_buy_quantity + buy,
                          open_sell_quantity |-> symbol.open_sell_quantity + sell]
<1>1. k.client \in Client /\ k.symbol \in Symbol
  BY DEF OrderKey
<1>2. /\ client.kill_switch \in BOOLEAN
      /\ client.open_orders \in Nat
      /\ client.gross_open_quantity \in Counter
      /\ symbol.position \in Position
      /\ symbol.open_buy_quantity \in Counter
      /\ symbol.open_sell_quantity \in Counter
  BY <1>1, RiskFields
<1>3. /\ IsBook(others) /\ SameBut(k, orders, others)
      /\ k \in DOMAIN others /\ others[k].remaining_quantity = q /\ others[k].side = side
  <2> DEFINE order == [side |-> side, remaining_quantity |-> q]
  <2>1. q \in 1 .. CounterMax
    BY <1>2, RiskLimitsAssumption DEF Counter
  <2>2. order \in WorkingOrder /\ order.side = side /\ order.remaining_quantity = q
    BY <2>1 DEF WorkingOrder
  <2>3. others = Put(orders, k, order)
    OBVIOUS
  <2> HIDE DEF others, order
  <2>4. /\ IsBook(Put(orders, k, order))
        /\ SameBut(k, orders, Put(orders, k, order))
        /\ DOMAIN Put(orders, k, order) = (DOMAIN orders) \cup {k}
        /\ Put(orders, k, order)[k] = order
    BY <2>2, PutIsBook
  <2> QED  BY <2>2, <2>3, <2>4
<1>4. new_client \in ClientState /\ new_symbol \in SymbolState
  <2>1. client.open_orders + 1 \in Nat /\ client.gross_open_quantity + q \in Counter
    BY <1>2, RiskLimitsAssumption DEF Counter
  <2>2. new_client \in ClientState
    BY <1>2, <2>1 DEF ClientState
  <2>3. symbol.open_buy_quantity + buy \in Counter /\ symbol.open_sell_quantity + sell \in Counter
    BY <1>2, RiskLimitsAssumption DEF Counter, Side
  <2>4. new_symbol \in SymbolState
    BY <1>2, <2>3 DEF SymbolState
  <2> QED  BY <2>2, <2>4
<1>5. w = Update(r, k, new_client, new_symbol, others)
  <2>1. saturating_add(client.gross_open_quantity, q) = client.gross_open_quantity + q
    BY <1>2, RiskLimitsAssumption DEF saturating_add, Counter
  <2>2. /\ (IF side = "Buy" THEN saturating_add(symbol.open_buy_quantity, q)
            ELSE symbol.open_buy_quantity) = symbol.open_buy_quantity + buy
        /\ (IF side = "Sell" THEN saturating_add(symbol.open_sell_quantity, q)
            ELSE symbol.open_sell_quantity) = symbol.open_sell_quantity + sell
    BY <1>2, RiskLimitsAssumption DEF saturating_add, Counter
  <2>3. r.working_orders = orders
    BY DEF Counted
  <2> QED  BY <2>1, <2>2, <2>3 DEF Book
<1>6. /\ IsRisk(w)
      /\ w.working_orders = others
      /\ w.global_kill_switch = r.global_kill_switch
      /\ \A c \in Client : w.clients[c] = IF c = k.client THEN new_client ELSE r.clients[c]
      /\ \A c \in Client, s \in Symbol :
            w.symbols[c][s] = IF c = k.client /\ s = k.symbol THEN new_symbol
                              ELSE r.symbols[c][s]
  <2> HIDE DEF w, others, new_client, new_symbol
  <2> QED  BY <1>1, <1>4, <1>5, UpdateFields
<1> HIDE DEF w, others
<1>7. ASSUME NEW c \in Client
      PROVE  /\ w.clients[c].kill_switch = r.clients[c].kill_switch
             /\ w.clients[c].open_orders =
                   r.clients[c].open_orders + IF c = k.client THEN 1 ELSE 0
             /\ w.clients[c].open_orders = Cardinality(OrdersOf(others, c))
  <2>1. /\ Cardinality(OrdersOf(orders, c)) \in Nat
        /\ Cardinality(OrdersOf(others, c)) =
              Cardinality(OrdersOf(orders, c)) - (IF k \in OrdersOf(orders, c) THEN 1 ELSE 0)
                  + (IF k \in OrdersOf(others, c) THEN 1 ELSE 0)
    BY <1>3, CountMoves
  <2>2. /\ k \notin OrdersOf(orders, c)
        /\ k \in OrdersOf(others, c) <=> c = k.client
    BY <1>3 DEF OrdersOf
  <2>3. r.clients[c].open_orders = Cardinality(OrdersOf(orders, c))
    BY DEF Counted
  <2>4. CASE c = k.client
    BY <1>6, <2>1, <2>2, <2>3, <2>4
  <2>5. CASE c # k.client
    BY <1>6, <2>1, <2>2, <2>3, <2>5
  <2> QED  BY <2>4, <2>5
<1>8. ASSUME NEW c \in Client
      PROVE  /\ w.clients[c].gross_open_quantity =
                   r.clients[c].gross_open_quantity + IF c = k.client THEN buy + sell ELSE 0
             /\ w.clients[c].gross_open_quantity = Quantity(others, OrdersOf(others, c))
  <2>1. /\ Quantity(orders, OrdersOf(orders, c)) \in Nat
        /\ Quantity(others, OrdersOf(others, c)) =
              Quantity(orders, OrdersOf(orders, c)) - Share(orders, k, OrdersOf(orders, c))
                  + Share(others, k, OrdersOf(others, c))
    BY <1>3, OrdersOfMove
  <2>2. /\ Share(orders, k, OrdersOf(orders, c)) = 0
        /\ Share(others, k, OrdersOf(others, c)) = IF c = k.client THEN q ELSE 0
    BY <1>3 DEF OrdersOf, Share
  <2>3. r.clients[c].gross_open_quantity = Quantity(orders, OrdersOf(orders, c))
    BY DEF Counted
  <2>4. CASE c = k.client
    BY <1>6, <2>1, <2>2, <2>3, <2>4 DEF Side
  <2>5. CASE c # k.client
    BY <1>6, <2>1, <2>2, <2>3, <2>5
  <2> QED  BY <2>4, <2>5
<1>9. ASSUME NEW c \in Client, NEW s \in Symbol
      PROVE  LET at == c = k.client /\ s = k.symbol
                 old == r.symbols[c][s]
                 new == w.symbols[c][s]
             IN  /\ new.position = old.position
                 /\ new.open_buy_quantity = old.open_buy_quantity + IF at THEN buy ELSE 0
                 /\ new.open_sell_quantity = old.open_sell_quantity + IF at THEN sell ELSE 0
                 /\ new.open_buy_quantity = Quantity(others, OrdersOnSide(others, c, s, "Buy"))
                 /\ new.open_sell_quantity = Quantity(others, OrdersOnSide(others, c, s, "Sell"))
  <2> DEFINE at == c = k.client /\ s = k.symbol
  <2>1. ASSUME NEW d \in Side
        PROVE  /\ Quantity(orders, OrdersOnSide(orders, c, s, d)) \in Nat
               /\ Quantity(others, OrdersOnSide(others, c, s, d)) =
                     Quantity(orders, OrdersOnSide(orders, c, s, d))
                         + IF at /\ side = d THEN q ELSE 0
    <3>1. /\ Quantity(orders, OrdersOnSide(orders, c, s, d)) \in Nat
          /\ Quantity(others, OrdersOnSide(others, c, s, d)) =
                Quantity(orders, OrdersOnSide(orders, c, s, d))
                    - Share(orders, k, OrdersOnSide(orders, c, s, d))
                    + Share(others, k, OrdersOnSide(others, c, s, d))
      BY <1>3, OrdersOnSideMove
    <3>2. /\ Share(orders, k, OrdersOnSide(orders, c, s, d)) = 0
          /\ Share(others, k, OrdersOnSide(others, c, s, d)) =
                IF at /\ side = d THEN q ELSE 0
      BY <1>3 DEF OrdersOnSide, Share
    <3> QED  BY <3>1, <3>2
  <2>2. /\ r.symbols[c][s].open_buy_quantity =
              Quantity(orders, OrdersOnSide(orders, c, s, "Buy"))
        /\ r.symbols[c][s].open_sell_quantity =
              Quantity(orders, OrdersOnSide(orders, c, s, "Sell"))
    BY DEF Counted
  <2>3. "Buy" \in Side /\ "Sell" \in Side
    BY DEF Side
  <2>4. CASE at
    BY <1>6, <2>1, <2>2, <2>3, <2>4 DEF Side
  <2>5. CASE ~at
    BY <1>6, <2>1, <2>2, <2>3, <2>5
  <2> QED  BY <2>4, <2>5
<1>10. SameSwitches(r, w)
  BY <1>6, <1>7 DEF SameSwitches
<1>11. Counted(w, others)
  <2> SUFFICES ASSUME NEW c \in Client, NEW s \in Symbol
               PROVE  /\ w.clients[c].open_orders = Cardinality(OrdersOf(others, c))
                      /\ w.clients[c].gross_open_quantity = Quantity(others, OrdersOf(others, c))
                      /\ w.symbols[c][s].open_buy_quantity =
                            Quantity(others, OrdersOnSide(others, c, s, "Buy"))
                      /\ w.symbols[c][s].open_sell_quantity =
                            Quantity(others, OrdersOnSide(others, c, s, "Sell"))
    BY <1>6, <1>7, <1>8 DEF Counted
  <2> QED  BY <1>7, <1>8, <1>9
<1>12. Moved(r, w, k, 1, buy, sell)
  BY <1>7, <1>8, <1>9 DEF Moved
<1> QED  BY <1>3, <1>6, <1>10, <1>11, <1>12 DEF w, others

LEMMA EraseCounts ==
    ASSUME NEW r, IsRisk(r), NEW orders, IsBook(orders), Counted(r, orders),
           NEW k \in DOMAIN orders
    PROVE  LET w == erase_working_order(r, k)
               rem == orders[k].remaining_quantity
           IN  /\ IsRisk(w) /\ IsBook(Erase(orders, k))
               /\ Counted(w, Erase(orders, k))
               /\ SameSwitches(r, w)
               /\ Moved(r, w, k, -1, IF orders[k].side = "Buy" THEN -rem ELSE 0,
                        IF orders[k].side = "Sell" THEN -rem ELSE 0)
<1> DEFINE rem == orders[k].remaining_quantity
           side == orders[k].side
           w == erase_working_order(r, k)
<1>1. rem \in Nat /\ 1 <= rem
  BY OrderQuantity
<1>2. w = Release(r, k, side, rem, 1, Erase(orders, k))
  BY DEF erase_working_order, Counted
<1>3. Left(orders, k, 0) = Erase(orders, k)
  BY DEF Left
<1>4. w = Release(r, k, side, rem, IF rem - rem = 0 THEN 1 ELSE 0, Left(orders, k, rem - rem))
  BY <1>1, <1>2, <1>3
<1> HIDE DEF w
<1>5. /\ IsRisk(w) /\ IsBook(Left(orders, k, rem - rem))
      /\ Counted(w, Left(orders, k, rem - rem))
      /\ SameSwitches(r, w)
      /\ Moved(r, w, k, IF rem - rem = 0 THEN -1 ELSE 0, IF side = "Buy" THEN -rem ELSE 0,
               IF side = "Sell" THEN -rem ELSE 0)
  BY <1>1, <1>4, ReleaseCounts
<1>6. rem - rem = 0
  BY <1>1
<1> QED  BY <1>3, <1>5, <1>6 DEF w

LEMMA ReduceCounts ==
    ASSUME NEW r, IsRisk(r), NEW orders, IsBook(orders), Counted(r, orders),
           NEW k \in DOMAIN orders,
           NEW q \in Nat, 1 <= q, q <= orders[k].remaining_quantity
    PROVE  LET w == reduce_working_order(r, k, q)
               left == orders[k].remaining_quantity - q
           IN  /\ IsRisk(w) /\ IsBook(Left(orders, k, left))
               /\ Counted(w, Left(orders, k, left))
               /\ SameSwitches(r, w)
               /\ Moved(r, w, k, IF left = 0 THEN -1 ELSE 0,
                        IF orders[k].side = "Buy" THEN -q ELSE 0,
                        IF orders[k].side = "Sell" THEN -q ELSE 0)
<1> DEFINE rem == orders[k].remaining_quantity
           side == orders[k].side
           left == rem - q
           w == reduce_working_order(r, k, q)
<1>1. rem \in Nat /\ 1 <= rem
  BY OrderQuantity
<1>2. r.working_orders = orders
  BY DEF Counted
<1>3. w = Release(r, k, side, IF rem < q THEN rem ELSE q,
                  IF rem - (IF rem < q THEN rem ELSE q) = 0 THEN 1 ELSE 0,
                  Left(orders, k, rem - (IF rem < q THEN rem ELSE q)))
  BY <1>2 DEF reduce_working_order
<1>4. (IF rem < q THEN rem ELSE q) = q
  BY <1>1
<1>5. w = Release(r, k, side, q, IF left = 0 THEN 1 ELSE 0, Left(orders, k, left))
  BY <1>3, <1>4
<1> HIDE DEF w
<1> QED  BY <1>5, ReleaseCounts DEF w

-----------------------------------------------------------------------------
(* Trades *)

\* The position of an order's client and symbol changes, and nothing else does.
Shifted(r, w, k, change) ==
    /\ \A c \in Client : w.clients[c] = r.clients[c]
    /\ \A c \in Client, s \in Symbol :
          /\ w.symbols[c][s].position = r.symbols[c][s].position
                + IF c = k.client /\ s = k.symbol THEN change ELSE 0
          /\ w.symbols[c][s].open_buy_quantity = r.symbols[c][s].open_buy_quantity
          /\ w.symbols[c][s].open_sell_quantity = r.symbols[c][s].open_sell_quantity

Delta(side, q) == IF side = "Buy" THEN q ELSE -q

PositionChange(r, key, side, q) ==
    [r EXCEPT !.symbols[key.client][key.symbol].position = apply_position_delta(@, side, q)]

\* A position that is far enough from the ends of its type does not saturate.
LEMMA PositionShifts ==
    ASSUME NEW r, IsRisk(r), NEW orders, Counted(r, orders), NEW k \in OrderKey,
           NEW side \in Side, NEW q \in Nat,
           LET position == r.symbols[k.client][k.symbol].position + Delta(side, q)
           IN  -PositionMax - 1 <= position /\ position <= PositionMax
    PROVE  LET w == PositionChange(r, k, side, q)
           IN  /\ IsRisk(w) /\ Counted(w, orders)
               /\ SameSwitches(r, w)
               /\ Shifted(r, w, k, Delta(side, q))
<1> DEFINE w == PositionChange(r, k, side, q)
           old == r.symbols[k.client][k.symbol].position
           new == old + Delta(side, q)
<1>1. k.client \in Client /\ k.symbol \in Symbol
  BY DEF OrderKey
<1>2. old \in Position /\ old \in Int
  BY <1>1, RiskFields, RiskLimitsAssumption DEF Position
<1>3. apply_position_delta(old, side, q) = new /\ new \in Position
  BY <1>2, RiskLimitsAssumption DEF apply_position_delta, Delta, Side, Position
<1>4. w = [r EXCEPT !.symbols[k.client][k.symbol].position = new]
  BY <1>3 DEF PositionChange
<1> HIDE DEF w, new
<1>5. /\ IsRisk(w) /\ w.working_orders = r.working_orders
      /\ w.global_kill_switch = r.global_kill_switch
      /\ w.clients = r.clients
  <2> DEFINE symbols == [r.symbols EXCEPT ![k.client][k.symbol].position = new]
  <2>1. w = [global_kill_switch |-> r.global_kill_switch, clients |-> r.clients,
             symbols |-> symbols, working_orders |-> r.working_orders]
    BY <1>4 DEF IsRisk
  <2>2. symbols \in [Client -> [Symbol -> SymbolState]]
    BY <1>1, <1>3 DEF IsRisk, SymbolState
  <2> HIDE DEF symbols
  <2> QED  BY <2>1, <2>2 DEF IsRisk
<1>6. \A c \in Client, s \in Symbol :
          /\ w.symbols[c][s].position =
                IF c = k.client /\ s = k.symbol THEN new ELSE r.symbols[c][s].position
          /\ w.symbols[c][s].open_buy_quantity = r.symbols[c][s].open_buy_quantity
          /\ w.symbols[c][s].open_sell_quantity = r.symbols[c][s].open_sell_quantity
  BY <1>1, <1>3, <1>4 DEF IsRisk, SymbolState
<1>7. Counted(w, orders)
  BY <1>5, <1>6 DEF Counted
<1>8. Shifted(r, w, k, Delta(side, q))
  <2> SUFFICES ASSUME NEW c \in Client, NEW s \in Symbol
               PROVE  w.symbols[c][s].position = r.symbols[c][s].position
                         + IF c = k.client /\ s = k.symbol THEN Delta(side, q) ELSE 0
    BY <1>5, <1>6 DEF Shifted
  <2>1. r.symbols[c][s].position \in Int
    BY RiskFields, RiskLimitsAssumption DEF Position
  <2> QED  BY <1>6, <2>1 DEF new
<1>9. SameSwitches(r, w)
  BY <1>5 DEF SameSwitches
<1> QED  BY <1>5, <1>7, <1>8, <1>9 DEF w

\* The position that a trade would lead to is one that the type holds.
InRange(r, k, change) ==
    LET position == r.symbols[k.client][k.symbol].position + change
    IN  -PositionMax - 1 <= position /\ position <= PositionMax

\* The side of a trade whose order does not rest: its position alone.
LEMMA IncomingTrade ==
    ASSUME NEW r, IsRisk(r), NEW orders, Counted(r, orders),
           NEW k \in OrderKey, k \notin DOMAIN orders,
           NEW side \in Side, NEW q \in Nat, InRange(r, k, Delta(side, q))
    PROVE  LET w == TradeSide(r, k, side, q)
           IN  /\ IsRisk(w) /\ Counted(w, orders)
               /\ SameSwitches(r, w)
               /\ Shifted(r, w, k, Delta(side, q))
<1> DEFINE w == PositionChange(r, k, side, q)
<1>1. /\ IsRisk(w) /\ Counted(w, orders)
      /\ SameSwitches(r, w)
      /\ Shifted(r, w, k, Delta(side, q))
  BY PositionShifts DEF InRange
<1>2. k.client # NoClient
  BY RiskLimitsAssumption DEF OrderKey
<1>3. TradeSide(r, k, side, q) = reduce_working_order(w, k, q)
  BY <1>2 DEF TradeSide, PositionChange
<1> HIDE DEF w
<1>4. reduce_working_order(w, k, q) = w
  BY <1>1 DEF reduce_working_order, Counted
<1> QED  BY <1>1, <1>3, <1>4

\* The side of a trade whose order rests: its position, and what it has left.
LEMMA RestingTrade ==
    ASSUME NEW r, IsRisk(r), NEW orders, IsBook(orders), Counted(r, orders),
           NEW k \in DOMAIN orders, NEW side \in Side, orders[k].side = side,
           NEW q \in Nat, 1 <= q, q <= orders[k].remaining_quantity,
           InRange(r, k, Delta(side, q))
    PROVE  LET w == TradeSide(r, k, side, q)
               left == orders[k].remaining_quantity - q
           IN  /\ IsRisk(w) /\ IsBook(Left(orders, k, left))
               /\ Counted(w, Left(orders, k, left))
               /\ SameSwitches(r, w)
               /\ \E m : /\ Shifted(r, m, k, Delta(side, q))
                         /\ Moved(m, w, k, IF left = 0 THEN -1 ELSE 0,
                                  IF side = "Buy" THEN -q ELSE 0, IF side = "Sell" THEN -q ELSE 0)
<1> DEFINE m == PositionChange(r, k, side, q)
           w == TradeSide(r, k, side, q)
           left == orders[k].remaining_quantity - q
<1>1. k \in OrderKey
  BY OrderQuantity
<1>2. /\ IsRisk(m) /\ Counted(m, orders)
      /\ SameSwitches(r, m)
      /\ Shifted(r, m, k, Delta(side, q))
  BY <1>1, PositionShifts DEF InRange
<1>3. k.client # NoClient
  BY <1>1, RiskLimitsAssumption DEF OrderKey
<1>4. w = reduce_working_order(m, k, q)
  BY <1>3 DEF TradeSide, PositionChange
<1> HIDE DEF m, w
<1>5. /\ IsRisk(w) /\ IsBook(Left(orders, k, left))
      /\ Counted(w, Left(orders, k, left))
      /\ SameSwitches(m, w)
      /\ Moved(m, w, k, IF left = 0 THEN -1 ELSE 0,
               IF side = "Buy" THEN -q ELSE 0, IF side = "Sell" THEN -q ELSE 0)
  BY <1>2, <1>4, ReduceCounts
<1>6. SameSwitches(r, w)
  BY <1>2, <1>5 DEF SameSwitches
<1> QED  BY <1>2, <1>5, <1>6 DEF w

\* What a trade of an incoming order a with a resting order b does.
Executed(r, w, a, b, side, q, gone) ==
    /\ SameSwitches(r, w)
    /\ \A c \in Client :
          /\ w.clients[c].open_orders =
                r.clients[c].open_orders - IF c = b.client /\ gone THEN 1 ELSE 0
          /\ w.clients[c].gross_open_quantity =
                r.clients[c].gross_open_quantity - IF c = b.client THEN q ELSE 0
    /\ \A c \in Client, s \in Symbol :
          LET new == w.symbols[c][s]
              old == r.symbols[c][s]
              atB == c = b.client /\ s = b.symbol
          IN  /\ new.position = old.position
                    + (IF c = a.client /\ s = a.symbol THEN Delta(side, q) ELSE 0)
                    - (IF atB THEN Delta(side, q) ELSE 0)
              /\ new.open_buy_quantity =
                    old.open_buy_quantity - IF atB /\ side = "Sell" THEN q ELSE 0
              /\ new.open_sell_quantity =
                    old.open_sell_quantity - IF atB /\ side = "Buy" THEN q ELSE 0

LEMMA TradeMoves ==
    ASSUME NEW r, IsRisk(r), NEW orders, IsBook(orders), Counted(r, orders),
           NEW a \in OrderKey, a \notin DOMAIN orders,
           NEW b \in DOMAIN orders, b.symbol = a.symbol,
           NEW side \in Side, orders[b].side # side,
           NEW q \in Nat, 1 <= q, q <= orders[b].remaining_quantity,
           InRange(r, a, Delta(side, q)), InRange(r, b, -Delta(side, q))
    PROVE  LET w == on_trade(r, IF side = "Buy" THEN a ELSE b, IF side = "Buy" THEN b ELSE a, q)
               left == orders[b].remaining_quantity - q
           IN  /\ IsRisk(w) /\ IsBook(Left(orders, b, left))
               /\ Counted(w, Left(orders, b, left))
               /\ Executed(r, w, a, b, side, q, left = 0)
<1> DEFINE left == orders[b].remaining_quantity - q
           others == Left(orders, b, left)
           gone == IF left = 0 THEN -1 ELSE 0
           w == on_trade(r, IF side = "Buy" THEN a ELSE b, IF side = "Buy" THEN b ELSE a, q)
<1>1. /\ b \in OrderKey /\ a.client \in Client /\ b.client \in Client /\ a.symbol \in Symbol
      /\ orders[b].side \in Side
  BY OrderQuantity DEF OrderKey
<1>2. /\ r.symbols[a.client][a.symbol].position \in Int
      /\ r.symbols[b.client][b.symbol].position \in Int
      /\ -PositionMax - 1 <= r.symbols[b.client][b.symbol].position
      /\ r.symbols[b.client][b.symbol].position <= PositionMax
      /\ -PositionMax - 1 <= r.symbols[a.client][a.symbol].position
      /\ r.symbols[a.client][a.symbol].position <= PositionMax
  BY <1>1, RiskFields, RiskLimitsAssumption DEF Position
<1>3. \A c \in Client, s \in Symbol :
          /\ r.clients[c].open_orders \in Int
          /\ r.clients[c].gross_open_quantity \in Int
          /\ r.symbols[c][s].position \in Int
          /\ r.symbols[c][s].open_buy_quantity \in Int
          /\ r.symbols[c][s].open_sell_quantity \in Int
  BY RiskFields, RiskLimitsAssumption DEF Position, Counter
<1>4. CASE side = "Buy"
  <2> DEFINE m == TradeSide(r, a, "Buy", q)
  <2>1. /\ IsRisk(m) /\ Counted(m, orders)
        /\ SameSwitches(r, m)
        /\ Shifted(r, m, a, q)
    BY <1>4, IncomingTrade DEF Delta, Side
  <2>2. w = TradeSide(m, b, "Sell", q)
    BY <1>4 DEF on_trade
  <2> HIDE DEF m, w
  <2>3. orders[b].side = "Sell"
    BY <1>1, <1>4 DEF Side
  <2>4. InRange(m, b, -q)
    <3>1. m.symbols[b.client][b.symbol].position = r.symbols[b.client][b.symbol].position
              + IF b.client = a.client THEN q ELSE 0
      BY <1>1, <2>1 DEF Shifted
    <3> QED  BY <1>2, <1>4, <3>1, RiskLimitsAssumption DEF InRange, Delta
  <2>5. /\ IsRisk(w) /\ IsBook(others) /\ Counted(w, others)
        /\ SameSwitches(m, w)
        /\ \E n : Shifted(m, n, b, -q) /\ Moved(n, w, b, gone, 0, -q)
    BY <2>1, <2>2, <2>3, <2>4, RestingTrade DEF Delta, Side
  <2>6. PICK n : Shifted(m, n, b, -q) /\ Moved(n, w, b, gone, 0, -q)
    BY <2>5
  <2>7. SameSwitches(r, w)
    BY <2>1, <2>5 DEF SameSwitches
  <2>8. ASSUME NEW c \in Client, NEW s \in Symbol
        PROVE  /\ w.clients[c].open_orders =
                     r.clients[c].open_orders - IF c = b.client /\ left = 0 THEN 1 ELSE 0
               /\ w.clients[c].gross_open_quantity =
                     r.clients[c].gross_open_quantity - IF c = b.client THEN q ELSE 0
               /\ w.symbols[c][s].position = r.symbols[c][s].position
                     + (IF c = a.client /\ s = a.symbol THEN q ELSE 0)
                     - (IF c = b.client /\ s = b.symbol THEN q ELSE 0)
               /\ w.symbols[c][s].open_buy_quantity = r.symbols[c][s].open_buy_quantity
               /\ w.symbols[c][s].open_sell_quantity = r.symbols[c][s].open_sell_quantity
                     - IF c = b.client /\ s = b.symbol THEN q ELSE 0
    <3>1. /\ n.clients[c] = r.clients[c]
          /\ w.clients[c].open_orders =
                n.clients[c].open_orders + IF c = b.client THEN gone ELSE 0
          /\ w.clients[c].gross_open_quantity =
                n.clients[c].gross_open_quantity + IF c = b.client THEN 0 + -q ELSE 0
      BY <2>1, <2>6 DEF Shifted, Moved
    <3>2. /\ w.symbols[c][s].position = r.symbols[c][s].position
                + (IF c = a.client /\ s = a.symbol THEN q ELSE 0)
                + (IF c = b.client /\ s = b.symbol THEN -q ELSE 0)
          /\ w.symbols[c][s].open_buy_quantity = r.symbols[c][s].open_buy_quantity
                + IF c = b.client /\ s = b.symbol THEN 0 ELSE 0
          /\ w.symbols[c][s].open_sell_quantity = r.symbols[c][s].open_sell_quantity
                + IF c = b.client /\ s = b.symbol THEN -q ELSE 0
      BY <2>1, <2>6 DEF Shifted, Moved
    <3> QED  BY <1>3, <3>1, <3>2
  <2>9. Executed(r, w, a, b, side, q, left = 0)
    BY <1>1, <1>3, <1>4, <2>7, <2>8 DEF Executed, Delta
  <2> QED  BY <2>5, <2>9 DEF w
<1>5. CASE side = "Sell"
  <2> DEFINE m == TradeSide(r, b, "Buy", q)
  <2>1. orders[b].side = "Buy"
    BY <1>1, <1>5 DEF Side
  <2>2. w = TradeSide(m, a, "Sell", q)
    BY <1>5 DEF on_trade
  <2>3. InRange(r, b, q)
    BY <1>5 DEF Delta, InRange
  <2>4. /\ IsRisk(m) /\ IsBook(others) /\ Counted(m, others)
        /\ SameSwitches(r, m)
        /\ \E n : Shifted(r, n, b, q) /\ Moved(n, m, b, gone, -q, 0)
    BY <2>1, <2>3, RestingTrade DEF Delta, Side
  <2> HIDE DEF m, w
  <2>5. PICK n : Shifted(r, n, b, q) /\ Moved(n, m, b, gone, -q, 0)
    BY <2>4
  <2>6. InRange(m, a, -q)
    <3>1. m.symbols[a.client][a.symbol].position = r.symbols[a.client][a.symbol].position
              + IF b.client = a.client THEN q ELSE 0
      BY <1>1, <2>5 DEF Shifted, Moved
    <3> QED  BY <1>2, <1>5, <3>1, RiskLimitsAssumption DEF InRange, Delta
  <2>7. a \notin DOMAIN others
    <3>1. left \in Nat /\ left <= orders[b].remaining_quantity
      BY OrderQuantity
    <3>2. DOMAIN others \subseteq DOMAIN orders
      BY <3>1, LeftIsBook
    <3> QED  BY <3>2
  <2>8. /\ IsRisk(w) /\ Counted(w, others)
        /\ SameSwitches(m, w)
        /\ Shifted(m, w, a, -q)
    BY <2>2, <2>4, <2>6, <2>7, IncomingTrade DEF Delta, Side
  <2>9. SameSwitches(r, w)
    BY <2>4, <2>8 DEF SameSwitches
  <2>10. ASSUME NEW c \in Client, NEW s \in Symbol
         PROVE  /\ w.clients[c].open_orders =
                      r.clients[c].open_orders - IF c = b.client /\ left = 0 THEN 1 ELSE 0
                /\ w.clients[c].gross_open_quantity =
                      r.clients[c].gross_open_quantity - IF c = b.client THEN q ELSE 0
                /\ w.symbols[c][s].position = r.symbols[c][s].position
                      - (IF c = a.client /\ s = a.symbol THEN q ELSE 0)
                      + (IF c = b.client /\ s = b.symbol THEN q ELSE 0)
                /\ w.symbols[c][s].open_buy_quantity = r.symbols[c][s].open_buy_quantity
                      - IF c = b.client /\ s = b.symbol THEN q ELSE 0
                /\ w.symbols[c][s].open_sell_quantity = r.symbols[c][s].open_sell_quantity
    <3>1. /\ n.clients[c] = r.clients[c] /\ w.clients[c] = m.clients[c]
          /\ m.clients[c].open_orders =
                n.clients[c].open_orders + IF c = b.client THEN gone ELSE 0
          /\ m.clients[c].gross_open_quantity =
                n.clients[c].gross_open_quantity + IF c = b.client THEN -q + 0 ELSE 0
      BY <2>5, <2>8 DEF Shifted, Moved
    <3>2. /\ w.symbols[c][s].position = r.symbols[c][s].position
                + (IF c = b.client /\ s = b.symbol THEN q ELSE 0)
                + (IF c = a.client /\ s = a.symbol THEN -q ELSE 0)
          /\ w.symbols[c][s].open_buy_quantity = r.symbols[c][s].open_buy_quantity
                + IF c = b.client /\ s = b.symbol THEN -q ELSE 0
          /\ w.symbols[c][s].open_sell_quantity = r.symbols[c][s].open_sell_quantity
                + IF c = b.client /\ s = b.symbol THEN 0 ELSE 0
      BY <2>5, <2>8 DEF Shifted, Moved
    <3> QED  BY <1>3, <3>1, <3>2
  <2>11. Executed(r, w, a, b, side, q, left = 0)
    BY <1>1, <1>3, <1>5, <2>9, <2>10 DEF Executed, Delta
  <2> QED  BY <2>4, <2>8, <2>11 DEF w
<1> QED  BY <1>4, <1>5 DEF Side

-----------------------------------------------------------------------------
(* The inductive invariant *)

CommandType ==
    command \in [key : OrderKey, side : Side, may_rest : BOOLEAN, remaining : Counter]
                  \cup {NoCommand}

\* What the command in progress was checked for stays true until it ends: its order is
\* not in the book, and there is room for what is left of it.
CommandFits ==
    command # NoCommand =>
        /\ command.key \notin DOMAIN resting
        /\ command.may_rest =>
              /\ risk.clients[command.key.client].open_orders < MaxOpenOrders
              /\ risk.clients[command.key.client].gross_open_quantity + command.remaining
                    <= MaxOpenQuantity

RiskInv ==
    /\ IsRisk(risk) /\ IsBook(resting) /\ CommandType
    /\ Counted(risk, resting)
    /\ PositionStaysWithinLimit
    /\ OpenOrdersWithinLimits
    /\ CommandFits

\* The step of KilledExposureOnlyShrinks.
Shrinks ==
    \A c \in Client, s \in Symbol :
        Killed(risk, c) /\ Killed(risk, c)' =>
            WorstLong(c, s)' <= WorstLong(c, s) /\ WorstShort(c, s)' <= WorstShort(c, s)

\* Numbers of the current state, and how far a position can be from zero.
LEMMA Bounds ==
    ASSUME RiskInv, NEW c \in Client, NEW s \in Symbol
    PROVE  /\ risk.clients[c].open_orders \in Nat
           /\ risk.clients[c].gross_open_quantity \in Nat
           /\ risk.symbols[c][s].position \in Int
           /\ risk.symbols[c][s].open_buy_quantity \in Nat
           /\ risk.symbols[c][s].open_sell_quantity \in Nat
           /\ Pending(c, s, "Buy") \in Nat /\ Pending(c, s, "Sell") \in Nat
           /\ risk.symbols[c][s].position + risk.symbols[c][s].open_buy_quantity
                 + Pending(c, s, "Buy") <= MaxPosition
           /\ risk.symbols[c][s].open_sell_quantity + Pending(c, s, "Sell")
                 - risk.symbols[c][s].position <= MaxPosition
<1>1. /\ risk.clients[c].open_orders \in Nat
      /\ risk.clients[c].gross_open_quantity \in Nat
      /\ risk.symbols[c][s].position \in Int
      /\ risk.symbols[c][s].open_buy_quantity \in Nat
      /\ risk.symbols[c][s].open_sell_quantity \in Nat
  BY RiskFields, RiskLimitsAssumption DEF RiskInv, Position, Counter
<1>2. command # NoCommand => command.remaining \in Nat
  BY RiskLimitsAssumption DEF RiskInv, CommandType, Counter
<1>3. Pending(c, s, "Buy") \in Nat /\ Pending(c, s, "Sell") \in Nat
  BY <1>2 DEF Pending
<1> QED  BY <1>1, <1>3 DEF RiskInv, PositionStaysWithinLimit, WorstLong, WorstShort

\* The limits are numbers.
LEMMA LimitsAreNumbers ==
    /\ MaxPosition \in Nat /\ MaxOpenOrders \in Nat /\ MaxOpenQuantity \in Nat
    /\ CounterMax \in Nat /\ PositionMax \in Nat
    /\ MaxOpenQuantity < CounterMax /\ MaxPosition <= PositionMax
    /\ 2 * PositionMax < CounterMax
BY RiskLimitsAssumption

\* The projection of the check is exact, for the counters cannot saturate there.
LEMMA PositionLimit ==
    ASSUME NEW position \in Int, -MaxPosition <= position, position <= MaxPosition,
           NEW open_buy \in Nat, NEW open_sell \in Nat, NEW additional \in Nat,
           NEW side \in Side,
           ~position_limit_exceeded(position, side, additional, open_buy, open_sell)
    PROVE  /\ side = "Buy" => position + open_buy + additional <= MaxPosition
           /\ side = "Sell" => open_sell + additional - position <= MaxPosition
<1> USE LimitsAreNumbers
<1>1. CASE side = "Buy" /\ position >= 0
  BY <1>1 DEF position_limit_exceeded, saturating_add, absolute
<1>2. CASE side = "Buy" /\ position < 0
  BY <1>2 DEF position_limit_exceeded, saturating_add, absolute, MinusOrZero
<1>3. CASE side = "Sell" /\ position <= 0
  BY <1>3 DEF position_limit_exceeded, saturating_add, absolute
<1>4. CASE side = "Sell" /\ position > 0
  BY <1>4 DEF position_limit_exceeded, saturating_add, absolute, MinusOrZero
<1> QED  BY <1>1, <1>2, <1>3, <1>4 DEF Side

LEMMA InitRisk ==
    Init => RiskInv
<1> SUFFICES ASSUME Init PROVE RiskInv
  OBVIOUS
<1> USE LimitsAreNumbers
<1>1. IsRisk(risk)
  BY DEF Init, EmptyRisk, IsRisk, ClientState, SymbolState, Position, Counter
<1>2. DOMAIN resting = {}
  BY DEF Init, EmptyMap
<1>3. IsBook(resting)
  BY <1>2, FS_EmptySet DEF IsBook, IsMap, Init, EmptyMap
<1>4. CommandType /\ CommandFits
  BY DEF Init, CommandType, CommandFits
<1>5. Counted(risk, resting)
  <2>1. ASSUME NEW c, NEW s, NEW side
        PROVE  /\ OrdersOf(resting, c) = {} /\ OrdersOnSide(resting, c, s, side) = {}
    BY <1>2 DEF OrdersOf, OrdersOnSide
  <2>2. Quantity(resting, {}) = 0 /\ Cardinality({}) = 0
    BY QuantityNone, FS_EmptySet
  <2> QED  BY <2>1, <2>2 DEF Counted, Init, EmptyRisk
<1>6. PositionStaysWithinLimit /\ OpenOrdersWithinLimits
  BY DEF Init, EmptyRisk, PositionStaysWithinLimit, OpenOrdersWithinLimits, WorstLong, WorstShort,
         Pending
<1> QED  BY <1>1, <1>3, <1>4, <1>5, <1>6 DEF RiskInv

-----------------------------------------------------------------------------
(* Every step keeps the invariant, and the exposure of a stopped client *)

\* What is pending once a command has its record.
LEMMA PendingIs ==
    ASSUME NEW c, NEW s, NEW d,
           NEW key \in OrderKey, NEW side \in Side, NEW may_rest \in BOOLEAN,
           NEW q \in Counter,
           command' = [key |-> key, side |-> side, may_rest |-> may_rest, remaining |-> q]
    PROVE  Pending(c, s, d)' = IF c = key.client /\ s = key.symbol /\ d = side THEN q ELSE 0
<1>1. command' # NoCommand
  BY NoCommandAssumption
<1> QED  BY <1>1 DEF Pending

LEMMA NoPendingIs ==
    ASSUME NEW c, NEW s, NEW d, command = NoCommand
    PROVE  Pending(c, s, d) = 0
BY DEF Pending

LEMMA NewOrderStep ==
    ASSUME RiskInv, NEW c \in Client, NEW s \in Symbol, NEW id \in OrderId, NEW side \in Side,
           NEW may_rest \in BOOLEAN, NEW p \in Int, NEW q \in Nat, 1 <= q,
           NewOrder(c, s, id, side, may_rest, p, q)
    PROVE  RiskInv' /\ Shrinks
<1> USE LimitsAreNumbers
<1> DEFINE key == [client |-> c, symbol |-> s, id |-> id]
           state == risk.symbols[c][s]
<1>1. /\ command = NoCommand /\ risk' = risk /\ resting' = resting
      /\ command' = [key |-> key, side |-> side, may_rest |-> may_rest, remaining |-> q]
      /\ key \in OrderKey /\ key.client = c /\ key.symbol = s /\ key.id = id
  BY DEF NewOrder, OrderKey
<1>2. key \notin DOMAIN resting
  BY <1>1 DEF NewOrder
<1>3. /\ ~Killed(risk, c)
      /\ ~position_limit_exceeded(state.position, side, q, state.open_buy_quantity,
                                  state.open_sell_quantity)
      /\ may_rest => /\ risk.clients[c].open_orders < MaxOpenOrders
                     /\ saturating_add(risk.clients[c].gross_open_quantity, q) <= MaxOpenQuantity
  BY DEF NewOrder, check_new_order
<1>4. ASSUME NEW c2 \in Client, NEW s2 \in Symbol
      PROVE  /\ risk.symbols[c2][s2].position \in Int
             /\ risk.symbols[c2][s2].open_buy_quantity \in Nat
             /\ risk.symbols[c2][s2].open_sell_quantity \in Nat
             /\ risk.symbols[c2][s2].position + risk.symbols[c2][s2].open_buy_quantity
                   <= MaxPosition
             /\ risk.symbols[c2][s2].open_sell_quantity - risk.symbols[c2][s2].position
                   <= MaxPosition
             /\ Pending(c2, s2, "Buy") = 0 /\ Pending(c2, s2, "Sell") = 0
  BY <1>1, Bounds, NoPendingIs
<1>5. /\ side = "Buy" => state.position + state.open_buy_quantity + q <= MaxPosition
      /\ side = "Sell" => state.open_sell_quantity + q - state.position <= MaxPosition
  <2>1. -MaxPosition <= state.position /\ state.position <= MaxPosition
    BY <1>4
  <2> QED  BY <1>3, <1>4, <2>1, PositionLimit
<1>6. q \in Counter
  BY <1>4, <1>5 DEF Counter, Side
<1>7. CommandType'
  BY <1>1, <1>6 DEF CommandType
<1>8. ASSUME NEW c2 \in Client, NEW s2 \in Symbol, NEW d
      PROVE  Pending(c2, s2, d)' = IF c2 = c /\ s2 = s /\ d = side THEN q ELSE 0
  BY <1>1, <1>6, PendingIs
<1>9. PositionStaysWithinLimit'
  BY <1>1, <1>4, <1>5, <1>8 DEF PositionStaysWithinLimit, WorstLong, WorstShort, Side
<1>10. CommandFits'
  <2>1. risk.clients[c].gross_open_quantity \in Nat
    BY Bounds
  <2>2. may_rest => risk.clients[c].gross_open_quantity + q <= MaxOpenQuantity
    BY <1>3, <2>1 DEF saturating_add
  <2> QED  BY <1>1, <1>2, <1>3, <2>2 DEF CommandFits
<1>11. Shrinks
  <2> SUFFICES ASSUME NEW c2 \in Client, NEW s2 \in Symbol, c2 # c
               PROVE  /\ WorstLong(c2, s2)' <= WorstLong(c2, s2)
                      /\ WorstShort(c2, s2)' <= WorstShort(c2, s2)
    BY <1>3 DEF Shrinks
  <2> QED  BY <1>1, <1>4, <1>8 DEF WorstLong, WorstShort
<1>12. /\ IsRisk(risk') /\ IsBook(resting') /\ Counted(risk', resting')
       /\ OpenOrdersWithinLimits'
  BY <1>1 DEF RiskInv, OpenOrdersWithinLimits
<1> QED  BY <1>7, <1>9, <1>10, <1>11, <1>12 DEF RiskInv

\* The switches do not touch the counters.
LEMMA SwitchStep ==
    ASSUME RiskInv, UNCHANGED <<resting, command>>,
           IsRisk(risk'), risk'.working_orders = risk.working_orders,
           risk'.symbols = risk.symbols,
           \A c \in Client : /\ risk'.clients[c].open_orders = risk.clients[c].open_orders
                             /\ risk'.clients[c].gross_open_quantity =
                                   risk.clients[c].gross_open_quantity
    PROVE  RiskInv' /\ Shrinks
<1>1. Counted(risk', resting')
  BY DEF RiskInv, Counted
<1>2. /\ \A c, s, side : Pending(c, s, side)' = Pending(c, s, side)
      /\ \A c, s : /\ WorstLong(c, s)' = WorstLong(c, s)
                   /\ WorstShort(c, s)' = WorstShort(c, s)
  BY DEF Pending, WorstLong, WorstShort
<1>3. PositionStaysWithinLimit' /\ OpenOrdersWithinLimits'
  BY <1>2 DEF RiskInv, PositionStaysWithinLimit, OpenOrdersWithinLimits
<1>4. command # NoCommand => command.key.client \in Client
  BY DEF RiskInv, CommandType, OrderKey
<1>5. CommandFits' /\ CommandType'
  BY <1>4 DEF RiskInv, CommandFits, CommandType
<1>6. Shrinks
  <2> SUFFICES ASSUME NEW c \in Client, NEW s \in Symbol
               PROVE  /\ WorstLong(c, s) <= WorstLong(c, s)
                      /\ WorstShort(c, s) <= WorstShort(c, s)
    BY <1>2 DEF Shrinks
  <2> QED  BY Bounds DEF WorstLong, WorstShort
<1> QED  BY <1>1, <1>3, <1>5, <1>6 DEF RiskInv

LEMMA KillSwitchStep ==
    ASSUME RiskInv,
           \/ \E enabled \in BOOLEAN : set_global_kill_switch(enabled)
           \/ \E c \in Client, enabled \in BOOLEAN : set_client_kill_switch(c, enabled)
    PROVE  RiskInv' /\ Shrinks
<1>1. ASSUME NEW enabled \in BOOLEAN, set_global_kill_switch(enabled)
      PROVE  RiskInv' /\ Shrinks
  <2>1. risk' = [risk EXCEPT !.global_kill_switch = enabled] /\ UNCHANGED <<resting, command>>
    BY <1>1 DEF set_global_kill_switch
  <2>2. risk' = [global_kill_switch |-> enabled, clients |-> risk.clients,
                 symbols |-> risk.symbols, working_orders |-> risk.working_orders]
    BY <2>1 DEF RiskInv, IsRisk
  <2>3. IsRisk(risk')
    BY <2>2 DEF RiskInv, IsRisk
  <2> QED  BY <2>1, <2>2, <2>3, SwitchStep
<1>2. ASSUME NEW c \in Client, NEW enabled \in BOOLEAN, set_client_kill_switch(c, enabled)
      PROVE  RiskInv' /\ Shrinks
  <2>1. risk' = [risk EXCEPT !.clients[c].kill_switch = enabled] /\ UNCHANGED <<resting, command>>
    BY <1>2 DEF set_client_kill_switch
  <2> DEFINE clients == [risk.clients EXCEPT ![c].kill_switch = enabled]
  <2>2. risk' = [global_kill_switch |-> risk.global_kill_switch, clients |-> clients,
                 symbols |-> risk.symbols, working_orders |-> risk.working_orders]
    BY <2>1 DEF RiskInv, IsRisk
  <2>3. /\ clients \in [Client -> ClientState]
        /\ \A x \in Client : /\ clients[x].open_orders = risk.clients[x].open_orders
                             /\ clients[x].gross_open_quantity = risk.clients[x].gross_open_quantity
    BY DEF RiskInv, IsRisk, ClientState
  <2> HIDE DEF clients
  <2>4. IsRisk(risk')
    BY <2>2, <2>3 DEF RiskInv, IsRisk
  <2> QED  BY <2>1, <2>2, <2>3, <2>4, SwitchStep
<1> QED  BY <1>1, <1>2

\* What leaves with an order.
LEMMA EraseStep ==
    ASSUME RiskInv, NEW key \in DOMAIN resting, command = NoCommand,
           risk' = on_order_cancelled(risk, key), resting' = Erase(resting, key)
    PROVE  LET rem == resting[key].remaining_quantity
               side == resting[key].side
           IN  /\ IsRisk(risk') /\ IsBook(resting') /\ Counted(risk', resting')
               /\ SameSwitches(risk, risk')
               /\ OpenOrdersWithinLimits'
               /\ key \in OrderKey /\ rem \in Nat /\ 1 <= rem /\ side \in Side
               /\ key \notin DOMAIN resting'
               /\ \A c \in Client :
                     /\ risk'.clients[c].open_orders \in Nat
                     /\ risk'.clients[c].gross_open_quantity \in Nat
                     /\ risk'.clients[c].open_orders =
                           risk.clients[c].open_orders - IF c = key.client THEN 1 ELSE 0
                     /\ risk'.clients[c].gross_open_quantity =
                           risk.clients[c].gross_open_quantity - IF c = key.client THEN rem ELSE 0
               /\ \A c \in Client, s \in Symbol :
                     LET old == risk.symbols[c][s]
                         new == risk'.symbols[c][s]
                         at == c = key.client /\ s = key.symbol
                     IN  /\ new.position = old.position
                         /\ new.open_buy_quantity \in Nat /\ new.open_sell_quantity \in Nat
                         /\ new.open_buy_quantity =
                               old.open_buy_quantity - IF at /\ side = "Buy" THEN rem ELSE 0
                         /\ new.open_sell_quantity =
                               old.open_sell_quantity - IF at /\ side = "Sell" THEN rem ELSE 0
<1> DEFINE rem == resting[key].remaining_quantity
           side == resting[key].side
<1>1. key \in OrderKey /\ rem \in Nat /\ 1 <= rem /\ side \in Side
  BY OrderQuantity DEF RiskInv
<1>2. /\ IsRisk(risk') /\ IsBook(resting') /\ Counted(risk', resting')
      /\ SameSwitches(risk, risk')
      /\ Moved(risk, risk', key, -1, IF side = "Buy" THEN -rem ELSE 0,
               IF side = "Sell" THEN -rem ELSE 0)
  BY EraseCounts DEF RiskInv, on_order_cancelled
<1>3. key \notin DOMAIN resting'
  BY DEF Erase, Restrict
<1>4. ASSUME NEW c \in Client
      PROVE  /\ risk'.clients[c].open_orders \in Nat
             /\ risk'.clients[c].gross_open_quantity \in Nat
             /\ risk'.clients[c].open_orders =
                   risk.clients[c].open_orders - IF c = key.client THEN 1 ELSE 0
             /\ risk'.clients[c].gross_open_quantity =
                   risk.clients[c].gross_open_quantity - IF c = key.client THEN rem ELSE 0
  <2>1. /\ risk'.clients[c].open_orders =
              risk.clients[c].open_orders + IF c = key.client THEN -1 ELSE 0
        /\ risk'.clients[c].gross_open_quantity = risk.clients[c].gross_open_quantity
              + IF c = key.client THEN (IF side = "Buy" THEN -rem ELSE 0)
                                        + (IF side = "Sell" THEN -rem ELSE 0) ELSE 0
    BY <1>2 DEF Moved
  <2>2. key.symbol \in Symbol
    BY <1>1 DEF OrderKey
  <2>3. /\ risk.clients[c].open_orders \in Nat /\ risk.clients[c].gross_open_quantity \in Nat
        /\ risk'.clients[c].open_orders \in Nat /\ risk'.clients[c].gross_open_quantity \in Nat
    BY <1>2, <2>2, RiskFields, LimitsAreNumbers DEF RiskInv, Counter
  <2> QED  BY <1>1, <2>1, <2>3 DEF Side
<1>5. ASSUME NEW c \in Client, NEW s \in Symbol
      PROVE  LET old == risk.symbols[c][s]
                 new == risk'.symbols[c][s]
                 at == c = key.client /\ s = key.symbol
             IN  /\ new.position = old.position
                 /\ new.open_buy_quantity \in Nat /\ new.open_sell_quantity \in Nat
                 /\ new.open_buy_quantity =
                       old.open_buy_quantity - IF at /\ side = "Buy" THEN rem ELSE 0
                 /\ new.open_sell_quantity =
                       old.open_sell_quantity - IF at /\ side = "Sell" THEN rem ELSE 0
  <2>1. /\ risk'.symbols[c][s].open_buy_quantity \in Nat
        /\ risk'.symbols[c][s].open_sell_quantity \in Nat
        /\ risk.symbols[c][s].open_buy_quantity \in Nat
        /\ risk.symbols[c][s].open_sell_quantity \in Nat
    BY <1>2, RiskFields, LimitsAreNumbers DEF RiskInv, Counter
  <2> QED  BY <1>1, <1>2, <2>1 DEF Moved, Side
<1>6. OpenOrdersWithinLimits'
  <2> SUFFICES ASSUME NEW c \in Client
               PROVE  /\ risk'.clients[c].open_orders <= MaxOpenOrders
                      /\ risk'.clients[c].gross_open_quantity <= MaxOpenQuantity
    BY DEF OpenOrdersWithinLimits
  <2>1. key.symbol \in Symbol
    BY <1>1 DEF OrderKey
  <2>2. /\ risk.clients[c].open_orders \in Nat /\ risk.clients[c].open_orders <= MaxOpenOrders
        /\ risk.clients[c].gross_open_quantity \in Nat
        /\ risk.clients[c].gross_open_quantity <= MaxOpenQuantity
    BY <2>1, Bounds DEF RiskInv, OpenOrdersWithinLimits
  <2> QED  BY <1>1, <1>4, <2>2, LimitsAreNumbers
<1> QED  BY <1>1, <1>2, <1>3, <1>4, <1>5, <1>6

LEMMA CancelStep ==
    ASSUME RiskInv, NEW key \in DOMAIN resting, Cancel(key)
    PROVE  RiskInv' /\ Shrinks
<1> USE LimitsAreNumbers
<1> DEFINE rem == resting[key].remaining_quantity
<1>1. /\ command = NoCommand /\ command' = NoCommand
      /\ risk' = on_order_cancelled(risk, key) /\ resting' = Erase(resting, key)
  BY DEF Cancel
<1>2. /\ IsRisk(risk') /\ IsBook(resting') /\ Counted(risk', resting')
      /\ OpenOrdersWithinLimits'
      /\ rem \in Nat
      /\ \A c \in Client, s \in Symbol :
            LET old == risk.symbols[c][s]
                new == risk'.symbols[c][s]
            IN  /\ new.position = old.position
                /\ new.open_buy_quantity \in Nat /\ new.open_sell_quantity \in Nat
                /\ new.open_buy_quantity <= old.open_buy_quantity
                /\ new.open_sell_quantity <= old.open_sell_quantity
  <2>1. rem \in Nat
    BY <1>1, EraseStep
  <2>2. ASSUME NEW c \in Client, NEW s \in Symbol
        PROVE  LET old == risk.symbols[c][s]
                   new == risk'.symbols[c][s]
               IN  /\ new.position = old.position
                   /\ new.open_buy_quantity \in Nat /\ new.open_sell_quantity \in Nat
                   /\ new.open_buy_quantity <= old.open_buy_quantity
                   /\ new.open_sell_quantity <= old.open_sell_quantity
    BY <1>1, <2>1, EraseStep, Bounds
  <2> QED  BY <1>1, <2>1, <2>2, EraseStep
<1>3. ASSUME NEW c \in Client, NEW s \in Symbol
      PROVE  /\ WorstLong(c, s)' <= WorstLong(c, s) /\ WorstLong(c, s) <= MaxPosition
             /\ WorstShort(c, s)' <= WorstShort(c, s) /\ WorstShort(c, s) <= MaxPosition
             /\ WorstLong(c, s)' <= MaxPosition /\ WorstShort(c, s)' <= MaxPosition
  <2>1. /\ Pending(c, s, "Buy") = 0 /\ Pending(c, s, "Sell") = 0
        /\ Pending(c, s, "Buy")' = 0 /\ Pending(c, s, "Sell")' = 0
    BY <1>1 DEF Pending
  <2> QED  BY <1>2, <2>1, Bounds DEF WorstLong, WorstShort
<1>4. PositionStaysWithinLimit' /\ Shrinks
  BY <1>3 DEF PositionStaysWithinLimit, Shrinks
<1>5. CommandType' /\ CommandFits'
  BY <1>1 DEF CommandType, CommandFits
<1> QED  BY <1>2, <1>4, <1>5 DEF RiskInv

LEMMA ReplaceStep ==
    ASSUME RiskInv, NEW key \in DOMAIN resting, NEW p \in Int, NEW q \in Nat, 1 <= q,
           Replace(key, p, q)
    PROVE  RiskInv' /\ Shrinks
<1> USE LimitsAreNumbers
<1> DEFINE rem == resting[key].remaining_quantity
           side == resting[key].side
           client == risk.clients[key.client]
           state == risk.symbols[key.client][key.symbol]
           buy == IF side = "Buy" THEN MinusOrZero(state.open_buy_quantity, rem)
                  ELSE state.open_buy_quantity
           sell == IF side = "Sell" THEN MinusOrZero(state.open_sell_quantity, rem)
                   ELSE state.open_sell_quantity
<1>1. /\ command = NoCommand
      /\ command' = [key |-> key, side |-> side, may_rest |-> TRUE, remaining |-> q]
      /\ risk' = on_order_cancelled(risk, key) /\ resting' = Erase(resting, key)
  BY DEF Replace
<1>2. /\ ~Killed(risk, key.client)
      /\ client.open_orders <= MaxOpenOrders
      /\ saturating_add(MinusOrZero(client.gross_open_quantity, rem), q) <= MaxOpenQuantity
      /\ ~position_limit_exceeded(state.position, side, q, buy, sell)
  <2>1. risk.working_orders = resting
    BY DEF RiskInv, Counted
  <2> QED  BY <2>1 DEF Replace, check_replace
<1>3. /\ IsRisk(risk') /\ IsBook(resting') /\ Counted(risk', resting')
      /\ SameSwitches(risk, risk')
      /\ OpenOrdersWithinLimits'
      /\ key \in OrderKey /\ rem \in Nat /\ 1 <= rem /\ side \in Side
      /\ key \notin DOMAIN resting'
  BY <1>1, EraseStep
<1>4. key.client \in Client /\ key.symbol \in Symbol
  BY <1>3 DEF OrderKey
<1>5. /\ risk'.clients[key.client].open_orders = client.open_orders - 1
      /\ risk'.clients[key.client].gross_open_quantity = client.gross_open_quantity - rem
      /\ risk'.clients[key.client].open_orders \in Nat
      /\ risk'.clients[key.client].gross_open_quantity \in Nat
      /\ client.open_orders \in Nat /\ client.gross_open_quantity \in Nat
  BY <1>1, <1>4, EraseStep, Bounds
<1>6. ASSUME NEW c \in Client, NEW s \in Symbol
      PROVE  LET old == risk.symbols[c][s]
                 new == risk'.symbols[c][s]
                 at == c = key.client /\ s = key.symbol
             IN  /\ new.position = old.position /\ old.position \in Int
                 /\ new.open_buy_quantity \in Nat /\ new.open_sell_quantity \in Nat
                 /\ old.open_buy_quantity \in Nat /\ old.open_sell_quantity \in Nat
                 /\ new.open_buy_quantity =
                       old.open_buy_quantity - IF at /\ side = "Buy" THEN rem ELSE 0
                 /\ new.open_sell_quantity =
                       old.open_sell_quantity - IF at /\ side = "Sell" THEN rem ELSE 0
                 /\ old.position + old.open_buy_quantity <= MaxPosition
                 /\ old.open_sell_quantity - old.position <= MaxPosition
                 /\ Pending(c, s, "Buy") = 0 /\ Pending(c, s, "Sell") = 0
  <2>1. Pending(c, s, "Buy") = 0 /\ Pending(c, s, "Sell") = 0
    BY <1>1, NoPendingIs
  <2> QED  BY <1>1, <2>1, EraseStep, Bounds
<1>7. /\ buy = risk'.symbols[key.client][key.symbol].open_buy_quantity
      /\ sell = risk'.symbols[key.client][key.symbol].open_sell_quantity
      /\ buy \in Nat /\ sell \in Nat
  BY <1>3, <1>4, <1>6 DEF MinusOrZero
<1>8. /\ side = "Buy" => state.position + buy + q <= MaxPosition
      /\ side = "Sell" => sell + q - state.position <= MaxPosition
  <2>1. state.position \in Int /\ -MaxPosition <= state.position /\ state.position <= MaxPosition
    BY <1>4, <1>6
  <2> HIDE DEF buy, sell, state, side
  <2> QED  BY <1>2, <1>3, <1>7, <2>1, PositionLimit
<1>9. q \in Counter
  BY <1>3, <1>4, <1>6, <1>7, <1>8 DEF Counter, Side
<1>10. CommandType'
  BY <1>1, <1>3, <1>9 DEF CommandType
<1>11. ASSUME NEW c \in Client, NEW s \in Symbol, NEW d
       PROVE  Pending(c, s, d)' = IF c = key.client /\ s = key.symbol /\ d = side THEN q ELSE 0
  BY <1>1, <1>3, <1>9, PendingIs
<1>12. ASSUME NEW c \in Client, NEW s \in Symbol
       PROVE  /\ WorstLong(c, s)' <= MaxPosition /\ WorstShort(c, s)' <= MaxPosition
              /\ c # key.client => /\ WorstLong(c, s)' <= WorstLong(c, s)
                                   /\ WorstShort(c, s)' <= WorstShort(c, s)
  <2>1. CASE c = key.client /\ s = key.symbol
    BY <1>3, <1>6, <1>7, <1>8, <1>11, <2>1 DEF WorstLong, WorstShort, Side
  <2>2. CASE ~(c = key.client /\ s = key.symbol)
    BY <1>6, <1>11, <2>2 DEF WorstLong, WorstShort
  <2> QED  BY <2>1, <2>2
<1>13. PositionStaysWithinLimit' /\ Shrinks
  BY <1>2, <1>12 DEF PositionStaysWithinLimit, Shrinks
<1>14. CommandFits'
  <2>1. risk'.clients[key.client].gross_open_quantity + q <= MaxOpenQuantity
    BY <1>2, <1>3, <1>5 DEF saturating_add, MinusOrZero
  <2>2. risk'.clients[key.client].open_orders < MaxOpenOrders
    BY <1>2, <1>5
  <2> QED  BY <1>1, <1>3, <2>1, <2>2 DEF CommandFits
<1> QED  BY <1>3, <1>10, <1>13, <1>14 DEF RiskInv

LEMMA FinishStep ==
    ASSUME RiskInv, Finish
    PROVE  RiskInv' /\ Shrinks
<1> USE LimitsAreNumbers
<1> DEFINE key == command.key
           side == command.side
           q == command.remaining
<1>1. /\ command # NoCommand /\ command' = NoCommand
      /\ key \in OrderKey /\ key.client \in Client /\ key.symbol \in Symbol
      /\ side \in Side /\ q \in Nat /\ key \notin DOMAIN resting
  BY DEF Finish, RiskInv, CommandType, CommandFits, OrderKey, Counter
<1>2. CommandType' /\ CommandFits'
  BY <1>1 DEF CommandType, CommandFits
<1>3. ASSUME NEW c \in Client, NEW s \in Symbol
      PROVE  /\ Pending(c, s, "Buy")' = 0 /\ Pending(c, s, "Sell")' = 0
             /\ Pending(c, s, "Buy") =
                   IF c = key.client /\ s = key.symbol /\ side = "Buy" THEN q ELSE 0
             /\ Pending(c, s, "Sell") =
                   IF c = key.client /\ s = key.symbol /\ side = "Sell" THEN q ELSE 0
  BY <1>1 DEF Pending
<1>4. CASE command.may_rest /\ q > 0
  <2>1. /\ risk' = on_order_resting(risk, key, side, q)
        /\ resting' = Put(resting, key, [side |-> side, remaining_quantity |-> q])
    BY <1>4 DEF Finish
  <2>2. erase_working_order(risk, key) = risk
    BY <1>1 DEF erase_working_order, RiskInv, Counted
  <2>3. risk' = Book(risk, key, side, q)
    BY <2>1, <2>2 DEF on_order_resting
  <2>4. /\ risk.clients[key.client].open_orders < MaxOpenOrders
        /\ risk.clients[key.client].gross_open_quantity + q <= MaxOpenQuantity
    BY <1>1, <1>4 DEF RiskInv, CommandFits
  <2>5. /\ risk.clients[key.client].gross_open_quantity + q <= CounterMax
        /\ side = "Buy" => risk.symbols[key.client][key.symbol].open_buy_quantity + q <= CounterMax
        /\ side = "Sell" => risk.symbols[key.client][key.symbol].open_sell_quantity + q <= CounterMax
    <3>1. risk.clients[key.client].gross_open_quantity + q <= CounterMax
      BY <1>1, <2>4, Bounds
    <3>2. /\ risk.symbols[key.client][key.symbol].position \in Int
          /\ risk.symbols[key.client][key.symbol].open_buy_quantity \in Nat
          /\ risk.symbols[key.client][key.symbol].open_sell_quantity \in Nat
          /\ risk.symbols[key.client][key.symbol].position
                + risk.symbols[key.client][key.symbol].open_buy_quantity
                + Pending(key.client, key.symbol, "Buy") <= MaxPosition
          /\ risk.symbols[key.client][key.symbol].open_sell_quantity
                + Pending(key.client, key.symbol, "Sell")
                - risk.symbols[key.client][key.symbol].position <= MaxPosition
      BY <1>1, Bounds
    <3>3. /\ Pending(key.client, key.symbol, "Buy") = IF side = "Buy" THEN q ELSE 0
          /\ Pending(key.client, key.symbol, "Sell") = IF side = "Sell" THEN q ELSE 0
      BY <1>1, <1>3
    <3> QED  BY <1>1, <3>1, <3>2, <3>3
  <2>6. /\ IsRisk(risk') /\ IsBook(resting') /\ Counted(risk', resting')
        /\ SameSwitches(risk, risk')
        /\ Moved(risk, risk', key, 1, IF side = "Buy" THEN q ELSE 0, IF side = "Sell" THEN q ELSE 0)
    <3>1. 1 <= q
      BY <1>1, <1>4
    <3> HIDE DEF key, side, q
    <3> QED  BY <1>1, <2>1, <2>3, <2>5, <3>1, BookCounts DEF RiskInv
  <2>7. ASSUME NEW c \in Client, NEW s \in Symbol
        PROVE  /\ WorstLong(c, s)' = WorstLong(c, s) /\ WorstShort(c, s)' = WorstShort(c, s)
               /\ WorstLong(c, s) \in Int /\ WorstShort(c, s) \in Int
               /\ WorstLong(c, s) <= MaxPosition /\ WorstShort(c, s) <= MaxPosition
    <3>1. /\ risk.symbols[c][s].position \in Int
          /\ risk.symbols[c][s].open_buy_quantity \in Nat
          /\ risk.symbols[c][s].open_sell_quantity \in Nat
      BY Bounds
    <3>2. /\ risk'.symbols[c][s].position = risk.symbols[c][s].position
          /\ risk'.symbols[c][s].open_buy_quantity = risk.symbols[c][s].open_buy_quantity
                + IF c = key.client /\ s = key.symbol THEN IF side = "Buy" THEN q ELSE 0 ELSE 0
          /\ risk'.symbols[c][s].open_sell_quantity = risk.symbols[c][s].open_sell_quantity
                + IF c = key.client /\ s = key.symbol THEN IF side = "Sell" THEN q ELSE 0 ELSE 0
      BY <2>6 DEF Moved
    <3>3. WorstLong(c, s) <= MaxPosition /\ WorstShort(c, s) <= MaxPosition
      BY DEF RiskInv, PositionStaysWithinLimit
    <3> QED  BY <1>1, <1>3, <3>1, <3>2, <3>3 DEF WorstLong, WorstShort
  <2>8. PositionStaysWithinLimit' /\ Shrinks
    BY <2>7 DEF PositionStaysWithinLimit, Shrinks
  <2>9. OpenOrdersWithinLimits'
    <3> SUFFICES ASSUME NEW c \in Client
                 PROVE  /\ risk'.clients[c].open_orders <= MaxOpenOrders
                        /\ risk'.clients[c].gross_open_quantity <= MaxOpenQuantity
      BY DEF OpenOrdersWithinLimits
    <3>1. /\ risk'.clients[c].open_orders =
                risk.clients[c].open_orders + IF c = key.client THEN 1 ELSE 0
          /\ risk'.clients[c].gross_open_quantity = risk.clients[c].gross_open_quantity
                + IF c = key.client THEN (IF side = "Buy" THEN q ELSE 0)
                                          + (IF side = "Sell" THEN q ELSE 0) ELSE 0
      BY <2>6 DEF Moved
    <3>2. /\ risk.clients[c].open_orders \in Nat /\ risk.clients[c].open_orders <= MaxOpenOrders
          /\ risk.clients[c].gross_open_quantity \in Nat
          /\ risk.clients[c].gross_open_quantity <= MaxOpenQuantity
      BY <1>1, Bounds DEF RiskInv, OpenOrdersWithinLimits
    <3> QED  BY <1>1, <2>4, <3>1, <3>2 DEF Side
  <2> QED  BY <1>2, <2>6, <2>8, <2>9 DEF RiskInv
<1>5. CASE ~(command.may_rest /\ q > 0)
  <2>1. UNCHANGED <<risk, resting>>
    BY <1>5 DEF Finish
  <2>2. ASSUME NEW c \in Client, NEW s \in Symbol
        PROVE  /\ WorstLong(c, s)' <= WorstLong(c, s) /\ WorstShort(c, s)' <= WorstShort(c, s)
               /\ WorstLong(c, s)' <= MaxPosition /\ WorstShort(c, s)' <= MaxPosition
    <3>1. /\ risk.symbols[c][s].position \in Int
          /\ risk.symbols[c][s].open_buy_quantity \in Nat
          /\ risk.symbols[c][s].open_sell_quantity \in Nat
          /\ Pending(c, s, "Buy") \in Nat /\ Pending(c, s, "Sell") \in Nat
          /\ WorstLong(c, s) <= MaxPosition /\ WorstShort(c, s) <= MaxPosition
      BY Bounds DEF RiskInv, PositionStaysWithinLimit
    <3> QED  BY <1>3, <2>1, <3>1 DEF WorstLong, WorstShort
  <2>3. PositionStaysWithinLimit' /\ Shrinks
    BY <2>2 DEF PositionStaysWithinLimit, Shrinks
  <2> QED  BY <1>2, <2>1, <2>3 DEF RiskInv, OpenOrdersWithinLimits
<1> QED  BY <1>4, <1>5

\* The command in progress, and how its remaining quantity changes.
LEMMA CommandFields ==
    ASSUME RiskInv, command # NoCommand
    PROVE  /\ command = [key |-> command.key, side |-> command.side,
                         may_rest |-> command.may_rest, remaining |-> command.remaining]
           /\ command.key \in OrderKey
           /\ command.key.client \in Client /\ command.key.symbol \in Symbol
           /\ command.side \in Side /\ command.may_rest \in BOOLEAN
           /\ command.remaining \in Nat /\ command.remaining <= CounterMax
           /\ command.key \notin DOMAIN resting
BY LimitsAreNumbers DEF RiskInv, CommandType, CommandFits, OrderKey, Counter

LEMMA LessRemaining ==
    ASSUME RiskInv, command # NoCommand, NEW q \in Nat, q <= command.remaining,
           command' = [command EXCEPT !.remaining = @ - q]
    PROVE  /\ command' # NoCommand /\ CommandType'
           /\ command'.key = command.key /\ command'.may_rest = command.may_rest
           /\ command'.remaining = command.remaining - q
           /\ \A c, s, d :
                 LET at == c = command.key.client /\ s = command.key.symbol /\ d = command.side
                 IN  /\ Pending(c, s, d) = IF at THEN command.remaining ELSE 0
                     /\ Pending(c, s, d)' = IF at THEN command.remaining - q ELSE 0
<1> USE LimitsAreNumbers
<1>1. /\ command'  = [key |-> command.key, side |-> command.side,
                      may_rest |-> command.may_rest, remaining |-> command.remaining - q]
      /\ command.remaining - q \in Counter
  BY CommandFields DEF Counter
<1>2. CommandType' /\ command' # NoCommand
  BY <1>1, CommandFields, NoCommandAssumption DEF CommandType
<1> QED  BY <1>1, <1>2 DEF Pending

LEMMA TradeUnownedStep ==
    ASSUME RiskInv, NEW id \in OrderId, NEW q \in Nat, TradeUnowned(id, q)
    PROVE  RiskInv' /\ Shrinks
<1> USE LimitsAreNumbers
<1> DEFINE key == command.key
           side == command.side
           unowned == [client |-> NoClient, symbol |-> command.key.symbol, id |-> id]
<1>1. /\ command # NoCommand /\ q <= command.remaining
      /\ command' = [command EXCEPT !.remaining = @ - q]
      /\ resting' = resting
      /\ risk' = IF side = "Buy" THEN on_trade(risk, key, unowned, q)
                 ELSE on_trade(risk, unowned, key, q)
  BY DEF TradeUnowned
<1>2. /\ key \in OrderKey /\ key.client \in Client /\ key.symbol \in Symbol
      /\ side \in Side /\ key \notin DOMAIN resting
      /\ command.remaining \in Nat
  BY <1>1, CommandFields
<1>3. \A r, d : TradeSide(r, unowned, d, q) = r
  BY DEF TradeSide
<1>4. risk' = TradeSide(risk, key, side, q)
  BY <1>1, <1>2, <1>3 DEF on_trade, Side
<1>5. ASSUME NEW c \in Client, NEW s \in Symbol
      PROVE  LET at == c = key.client /\ s = key.symbol
             IN  /\ Pending(c, s, "Buy") = IF at /\ side = "Buy" THEN command.remaining ELSE 0
                 /\ Pending(c, s, "Sell") = IF at /\ side = "Sell" THEN command.remaining ELSE 0
                 /\ Pending(c, s, "Buy")' =
                       IF at /\ side = "Buy" THEN command.remaining - q ELSE 0
                 /\ Pending(c, s, "Sell")' =
                       IF at /\ side = "Sell" THEN command.remaining - q ELSE 0
                 /\ risk.symbols[c][s].position \in Int
                 /\ risk.symbols[c][s].open_buy_quantity \in Nat
                 /\ risk.symbols[c][s].open_sell_quantity \in Nat
                 /\ risk.symbols[c][s].position + risk.symbols[c][s].open_buy_quantity
                       + Pending(c, s, "Buy") <= MaxPosition
                 /\ risk.symbols[c][s].open_sell_quantity + Pending(c, s, "Sell")
                       - risk.symbols[c][s].position <= MaxPosition
  BY <1>1, LessRemaining, Bounds
<1>6. InRange(risk, key, Delta(side, q))
  BY <1>1, <1>2, <1>5 DEF InRange, Delta, Side
<1>7. /\ IsRisk(risk') /\ Counted(risk', resting')
      /\ SameSwitches(risk, risk')
      /\ Shifted(risk, risk', key, Delta(side, q))
  <2> HIDE DEF key, side
  <2> QED  BY <1>1, <1>2, <1>4, <1>6, IncomingTrade DEF RiskInv
<1>8. ASSUME NEW c \in Client, NEW s \in Symbol
      PROVE  /\ WorstLong(c, s)' <= WorstLong(c, s) /\ WorstShort(c, s)' <= WorstShort(c, s)
             /\ WorstLong(c, s)' <= MaxPosition /\ WorstShort(c, s)' <= MaxPosition
  <2>1. /\ risk'.symbols[c][s].position = risk.symbols[c][s].position
              + IF c = key.client /\ s = key.symbol THEN Delta(side, q) ELSE 0
        /\ risk'.symbols[c][s].open_buy_quantity = risk.symbols[c][s].open_buy_quantity
        /\ risk'.symbols[c][s].open_sell_quantity = risk.symbols[c][s].open_sell_quantity
    BY <1>7 DEF Shifted
  <2> QED  BY <1>1, <1>2, <1>5, <2>1 DEF WorstLong, WorstShort, Delta, Side
<1>9. PositionStaysWithinLimit' /\ Shrinks
  BY <1>8 DEF PositionStaysWithinLimit, Shrinks
<1>10. OpenOrdersWithinLimits'
  BY <1>7 DEF Shifted, RiskInv, OpenOrdersWithinLimits
<1>11. CommandFits' /\ CommandType'
  <2>1. /\ command' # NoCommand /\ CommandType'
        /\ command'.key = command.key /\ command'.may_rest = command.may_rest
        /\ command'.remaining = command.remaining - q
    BY <1>1, LessRemaining
  <2>2. /\ risk'.clients[key.client] = risk.clients[key.client]
        /\ risk.clients[key.client].gross_open_quantity \in Nat
    BY <1>2, <1>7, Bounds DEF Shifted
  <2>3. command.may_rest => /\ risk.clients[key.client].open_orders < MaxOpenOrders
                            /\ risk.clients[key.client].gross_open_quantity + command.remaining
                                  <= MaxOpenQuantity
    BY <1>1 DEF RiskInv, CommandFits
  <2> QED  BY <1>1, <1>2, <2>1, <2>2, <2>3 DEF CommandFits
<1> QED  BY <1>1, <1>7, <1>9, <1>10, <1>11 DEF RiskInv

LEMMA TradeStep ==
    ASSUME RiskInv, NEW other \in DOMAIN resting, Trade(other)
    PROVE  RiskInv' /\ Shrinks
<1> USE LimitsAreNumbers
<1> DEFINE key == command.key
           side == command.side
           rem == resting[other].remaining_quantity
           q == IF rem < command.remaining THEN rem ELSE command.remaining
           left == rem - q
<1>1. /\ command # NoCommand /\ command.remaining > 0
      /\ resting[other].side # side /\ other.symbol = key.symbol
      /\ command' = [command EXCEPT !.remaining = @ - q]
      /\ resting' = IF rem = q THEN Erase(resting, other)
                    ELSE [resting EXCEPT ![other].remaining_quantity = @ - q]
      /\ risk' = on_trade(risk, IF side = "Buy" THEN key ELSE other,
                          IF side = "Buy" THEN other ELSE key, q)
  BY DEF Trade
<1>2. /\ key \in OrderKey /\ key.client \in Client /\ key.symbol \in Symbol
      /\ side \in Side /\ key \notin DOMAIN resting
      /\ command.remaining \in Nat
  BY <1>1, CommandFields
<1>3. /\ other \in OrderKey /\ other.client \in Client /\ other.symbol \in Symbol
      /\ rem \in Nat /\ 1 <= rem /\ resting[other].side \in Side
      /\ rem <= CounterMax
  BY OrderQuantity DEF RiskInv, OrderKey
<1>4. q \in Nat /\ 1 <= q /\ q <= rem /\ q <= command.remaining /\ left \in Nat /\ left <= rem
  BY <1>1, <1>2, <1>3
<1> HIDE DEF q
<1>5. resting' = Left(resting, other, left)
  <2>1. CASE left = 0
    BY <1>1, <1>3, <1>4, <2>1 DEF Left
  <2>2. CASE left # 0
    <3>1. resting' = [resting EXCEPT ![other].remaining_quantity = left]
      BY <1>1, <1>3, <1>4, <2>2
    <3>2. resting \in [DOMAIN resting -> WorkingOrder]
      BY DEF RiskInv, IsBook, IsMap
    <3>3. [resting[other] EXCEPT !.remaining_quantity = left]
              = [side |-> resting[other].side, remaining_quantity |-> left]
      BY <3>2 DEF WorkingOrder
    <3> QED  BY <2>2, <3>1, <3>2, <3>3 DEF Left, Put
  <2> QED  BY <2>1, <2>2
<1>6. ASSUME NEW c \in Client, NEW s \in Symbol
      PROVE  LET at == c = key.client /\ s = key.symbol
             IN  /\ Pending(c, s, "Buy") = IF at /\ side = "Buy" THEN command.remaining ELSE 0
                 /\ Pending(c, s, "Sell") = IF at /\ side = "Sell" THEN command.remaining ELSE 0
                 /\ Pending(c, s, "Buy")' =
                       IF at /\ side = "Buy" THEN command.remaining - q ELSE 0
                 /\ Pending(c, s, "Sell")' =
                       IF at /\ side = "Sell" THEN command.remaining - q ELSE 0
                 /\ risk.symbols[c][s].position \in Int
                 /\ risk.symbols[c][s].open_buy_quantity \in Nat
                 /\ risk.symbols[c][s].open_sell_quantity \in Nat
                 /\ risk.symbols[c][s].position + risk.symbols[c][s].open_buy_quantity
                       + Pending(c, s, "Buy") <= MaxPosition
                 /\ risk.symbols[c][s].open_sell_quantity + Pending(c, s, "Sell")
                       - risk.symbols[c][s].position <= MaxPosition
  BY <1>1, <1>4, LessRemaining, Bounds
<1>7. InRange(risk, key, Delta(side, q))
  BY <1>1, <1>2, <1>4, <1>6 DEF InRange, Delta, Side
<1>8. /\ side = "Buy" => rem <= risk.symbols[other.client][other.symbol].open_sell_quantity
      /\ side = "Sell" => rem <= risk.symbols[other.client][other.symbol].open_buy_quantity
  <2>1. ASSUME NEW d \in Side, resting[other].side = d
        PROVE  rem <= Quantity(resting, OrdersOnSide(resting, other.client, other.symbol, d))
    <3> DEFINE keys == OrdersOnSide(resting, other.client, other.symbol, d)
    <3>1. other \in keys /\ keys \in SUBSET DOMAIN resting
      BY <2>1 DEF OrdersOnSide
    <3> HIDE DEF keys
    <3>2. /\ Quantity(resting, keys \ {other}) \in Nat
          /\ Quantity(resting, keys) = Quantity(resting, keys \ {other}) + rem
      BY <3>1, QuantityWithout, QuantityIsNat DEF RiskInv
    <3>3. rem <= Quantity(resting, keys)
      BY <1>3, <3>2
    <3> QED  BY <3>3 DEF keys
  <2>2. /\ risk.symbols[other.client][other.symbol].open_buy_quantity =
              Quantity(resting, OrdersOnSide(resting, other.client, other.symbol, "Buy"))
        /\ risk.symbols[other.client][other.symbol].open_sell_quantity =
              Quantity(resting, OrdersOnSide(resting, other.client, other.symbol, "Sell"))
    BY <1>3 DEF RiskInv, Counted
  <2> QED  BY <1>1, <1>2, <1>3, <2>1, <2>2 DEF Side
<1>9. InRange(risk, other, -Delta(side, q))
  BY <1>2, <1>3, <1>4, <1>6, <1>8 DEF InRange, Delta, Side
<1>10. /\ IsRisk(risk') /\ IsBook(resting') /\ Counted(risk', resting')
       /\ Executed(risk, risk', key, other, side, q, left = 0)
  <2> HIDE DEF key, side
  <2> QED  BY <1>1, <1>2, <1>3, <1>4, <1>5, <1>7, <1>9, TradeMoves DEF RiskInv
<1>11. ASSUME NEW c \in Client, NEW s \in Symbol
       PROVE  /\ WorstLong(c, s)' <= WorstLong(c, s) /\ WorstShort(c, s)' <= WorstShort(c, s)
              /\ WorstLong(c, s)' <= MaxPosition /\ WorstShort(c, s)' <= MaxPosition
  <2>1. /\ risk'.symbols[c][s].position = risk.symbols[c][s].position
              + (IF c = key.client /\ s = key.symbol THEN Delta(side, q) ELSE 0)
              - (IF c = other.client /\ s = other.symbol THEN Delta(side, q) ELSE 0)
        /\ risk'.symbols[c][s].open_buy_quantity = risk.symbols[c][s].open_buy_quantity
              - IF c = other.client /\ s = other.symbol /\ side = "Sell" THEN q ELSE 0
        /\ risk'.symbols[c][s].open_sell_quantity = risk.symbols[c][s].open_sell_quantity
              - IF c = other.client /\ s = other.symbol /\ side = "Buy" THEN q ELSE 0
    BY <1>10 DEF Executed
  <2> QED  BY <1>2, <1>4, <1>6, <2>1 DEF WorstLong, WorstShort, Delta, Side
<1>12. PositionStaysWithinLimit' /\ Shrinks
  BY <1>11 DEF PositionStaysWithinLimit, Shrinks
<1>13. ASSUME NEW c \in Client
       PROVE  /\ risk.clients[c].open_orders \in Nat /\ risk.clients[c].gross_open_quantity \in Nat
              /\ risk'.clients[c].open_orders \in Int /\ risk'.clients[c].gross_open_quantity \in Int
              /\ risk'.clients[c].open_orders <= risk.clients[c].open_orders
              /\ risk'.clients[c].gross_open_quantity <= risk.clients[c].gross_open_quantity
  <2>1. risk.clients[c].open_orders \in Nat /\ risk.clients[c].gross_open_quantity \in Nat
    BY <1>2, Bounds
  <2>2. /\ risk'.clients[c].open_orders = risk.clients[c].open_orders
              - IF c = other.client /\ left = 0 THEN 1 ELSE 0
        /\ risk'.clients[c].gross_open_quantity = risk.clients[c].gross_open_quantity
              - IF c = other.client THEN q ELSE 0
    BY <1>10 DEF Executed
  <2> QED  BY <1>4, <2>1, <2>2
<1>14. OpenOrdersWithinLimits'
  BY <1>13 DEF RiskInv, OpenOrdersWithinLimits
<1>15. CommandFits' /\ CommandType'
  <2>1. /\ command' # NoCommand /\ CommandType'
        /\ command'.key = command.key /\ command'.may_rest = command.may_rest
        /\ command'.remaining = command.remaining - q
    BY <1>1, <1>4, LessRemaining
  <2>2. command.may_rest => /\ risk.clients[key.client].open_orders < MaxOpenOrders
                            /\ risk.clients[key.client].gross_open_quantity + command.remaining
                                  <= MaxOpenQuantity
    BY <1>1 DEF RiskInv, CommandFits
  <2>3. DOMAIN resting' \subseteq DOMAIN resting
    BY <1>4, <1>5, LeftIsBook DEF RiskInv
  <2> QED  BY <1>2, <1>4, <1>13, <2>1, <2>2, <2>3 DEF CommandFits
<1> QED  BY <1>10, <1>12, <1>14, <1>15 DEF RiskInv

LEMMA NextRisk ==
    RiskInv /\ [Next]_vars => RiskInv' /\ (Shrinks \/ UNCHANGED vars)
<1> SUFFICES ASSUME RiskInv, [Next]_vars
             PROVE  RiskInv' /\ (Shrinks \/ UNCHANGED vars)
  OBVIOUS
<1>1. ASSUME NEW c \in Client, NEW s \in Traded[c], NEW id \in OrderId, NEW side \in Side,
             NEW may_rest \in BOOLEAN, NEW p \in Price, NEW q \in 1 .. MaxQuantity,
             NewOrder(c, s, id, side, may_rest, p, q)
      PROVE  RiskInv' /\ Shrinks
  <2>1. s \in Symbol /\ p \in Int /\ q \in Nat /\ 1 <= q
    BY RiskLimitsAssumption
  <2> QED  BY <1>1, <2>1, NewOrderStep
<1>2. ASSUME NEW key \in DOMAIN resting, NEW p \in Price, NEW q \in 1 .. MaxQuantity,
             Replace(key, p, q)
      PROVE  RiskInv' /\ Shrinks
  <2>1. p \in Int /\ q \in Nat /\ 1 <= q
    BY RiskLimitsAssumption
  <2> QED  BY <1>2, <2>1, ReplaceStep
<1>3. ASSUME NEW other \in DOMAIN resting, Trade(other)
      PROVE  RiskInv' /\ Shrinks
  BY <1>3, TradeStep
<1>4. ASSUME NEW id \in OrderId, NEW q \in 1 .. MaxQuantity, TradeUnowned(id, q)
      PROVE  RiskInv' /\ Shrinks
  <2>1. q \in Nat
    BY RiskLimitsAssumption
  <2> QED  BY <1>4, <2>1, TradeUnownedStep
<1>5. CASE Finish
  BY <1>5, FinishStep
<1>6. ASSUME NEW key \in DOMAIN resting, Cancel(key)
      PROVE  RiskInv' /\ Shrinks
  BY <1>6, CancelStep
<1>7. CASE \/ \E enabled \in BOOLEAN : set_global_kill_switch(enabled)
           \/ \E c \in Client, enabled \in BOOLEAN : set_client_kill_switch(c, enabled)
  BY <1>7, KillSwitchStep
<1>8. CASE UNCHANGED vars
  <2>1. risk' = risk /\ resting' = resting /\ command' = command
    BY <1>8 DEF vars
  <2>2. CommandType' /\ CommandFits'
    BY <2>1 DEF RiskInv, CommandType, CommandFits
  <2>3. PositionStaysWithinLimit' /\ OpenOrdersWithinLimits'
    BY <2>1 DEF RiskInv, PositionStaysWithinLimit, OpenOrdersWithinLimits, WorstLong, WorstShort,
                Pending
  <2> QED  BY <1>8, <2>1, <2>2, <2>3 DEF RiskInv
<1> QED  BY <1>1, <1>2, <1>3, <1>4, <1>5, <1>6, <1>7, <1>8 DEF Next

LEMMA RiskAlways ==
    Spec => []RiskInv
<1>1. RiskInv /\ [Next]_vars => RiskInv'
  BY NextRisk
<1> QED  BY InitRisk, <1>1, PTL DEF Spec

-----------------------------------------------------------------------------
(* Theorems *)

\* The risk object, the book and the command keep their types: no counter of
\* risk_engine.cpp ever leaves its integer type.
THEOREM RiskTypeCorrect ==
    Spec => []TypeOK
<1>1. RiskInv => TypeOK
  <2> SUFFICES ASSUME RiskInv PROVE TypeOK
    OBVIOUS
  <2>1. IsRisk(risk) /\ IsBook(resting) /\ CommandType /\ risk.working_orders = resting
    BY DEF RiskInv, Counted
  <2>2. [global_kill_switch |-> risk.global_kill_switch, clients |-> risk.clients,
        symbols |-> risk.symbols] \in RiskState
    BY <2>1 DEF IsRisk, RiskState, ClientState, SymbolState
  <2> QED  BY <2>1, <2>2 DEF TypeOK, IsRisk, IsBook, CommandType
<1> QED  BY RiskAlways, <1>1, PTL

\* Risk and book never drift apart: erase_working_order, reduce_working_order and
\* on_order_resting keep open_orders, gross_open_quantity and the open quantities of
\* each symbol those of the orders that rest, whatever trades with whatever.
THEOREM RiskCountersMatchBook ==
    Spec => []CountersMatchBook
<1>1. RiskInv => CountersMatchBook
  <2> SUFFICES ASSUME RiskInv PROVE CountersMatchBook
    OBVIOUS
  <2>1. \A c, s, side : /\ RestingOf(c) = OrdersOf(resting, c)
                        /\ RestingSide(c, s, side) = OrdersOnSide(resting, c, s, side)
    BY DEF RestingOf, RestingSide, OrdersOf, OrdersOnSide
  <2>2. \A keys : OpenQuantity(keys) = Quantity(resting, keys)
    BY DEF OpenQuantity, Quantity, Remaining
  <2> QED  BY <2>1, <2>2 DEF RiskInv, Counted, CountersMatchBook
<1> QED  BY RiskAlways, <1>1, PTL

\* Whatever fills happen later, of whichever orders, no position passes
\* max_position_per_symbol: check_new_order and check_replace project exactly, and no
\* step between two checks adds to what they projected.
THEOREM RiskPositionsBounded ==
    Spec => []PositionStaysWithinLimit
<1>1. RiskInv => PositionStaysWithinLimit
  BY DEF RiskInv
<1> QED  BY RiskAlways, <1>1, PTL

\* A client never has more open orders, or more quantity open, than max_open_orders and
\* max_open_quantity, also by replacing.
THEOREM RiskOpenOrdersBounded ==
    Spec => []OpenOrdersWithinLimits
<1>1. RiskInv => OpenOrdersWithinLimits
  BY DEF RiskInv
<1> QED  BY RiskAlways, <1>1, PTL

\* A kill switch works: no step made while a client is stopped raises what its position
\* could come to.
THEOREM RiskKilledOnlyShrinks ==
    Spec => KilledExposureOnlyShrinks
<1>1. RiskInv /\ [Next]_vars => [Shrinks]_vars
  BY NextRisk
<1>2. Spec => [][Shrinks]_vars
  BY RiskAlways, <1>1, PTL DEF Spec
<1> QED  BY <1>2, PTL DEF KilledExposureOnlyShrinks, Shrinks
=============================================================================
