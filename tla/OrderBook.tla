------------------------------ MODULE OrderBook ------------------------------
(***************************************************************************)
(* The central limit order book: price levels (price_level.hpp), the two   *)
(* sorted level maps and the order index (order_book.hpp).                  *)
(*                                                                         *)
(* A book is a value, [levels, order_locations], and the operations are    *)
(* operators from books to books, so that a module that owns one book (the *)
(* matching engine) and a module that owns one per symbol (the server) use *)
(* the same definitions.                                                   *)
(*                                                                         *)
(*   levels[s]        the std::map of side s: price -> level; a level is   *)
(*                    the FIFO list of orders and the running total, kept  *)
(*                    in an unsigned integer that wraps at QuantityModulus *)
(*   order_locations  the index: order id -> side and price of its level;  *)
(*                    the list iterator the code keeps next to them is the *)
(*                    position of that id in the level's list              *)
(*                                                                         *)
(* Timestamps are left out: the book orders by list position only.         *)
(***************************************************************************)
EXTENDS Integers, Sequences, FiniteSets, Sums, Maps

CONSTANTS
    OrderId,          \* client order ids in play
    Price,            \* prices in play (signed ticks)
    QuantityModulus   \* number of values of the Quantity type: 2^32 in the code

ASSUME PriceAssumption == Price \subseteq Int
ASSUME ModulusAssumption == QuantityModulus \in Nat \ {0, 1}

Side == {"Buy", "Sell"}
OrderType == {"Limit", "Market"}
TimeInForce == {"GoodTillCancel", "ImmediateOrCancel", "FillOrKill"}
Quantity == 0 .. QuantityModulus - 1

Order == [price : Price, id : OrderId, side : Side, type : OrderType,
          time_in_force : TimeInForce, initial_quantity : Quantity,
          remaining_quantity : Quantity]

\* Mutant of may_rest: the time in force is not looked at.
may_rest_any_limit(o) == o.type = "Limit"

\* Only a good-till-cancel limit order may be left in the book.
may_rest(o) == o.type = "Limit" /\ o.time_in_force = "GoodTillCancel"

Opposite(side) == IF side = "Buy" THEN "Sell" ELSE "Buy"

PriceLevel == [orders : Seq(Order), total_quantity : Quantity]
OrderLocation == [price : Price, side : Side]

IsBook(book) ==
    /\ book = [levels |-> book.levels, order_locations |-> book.order_locations]
    /\ book.levels = [s \in Side |-> book.levels[s]]
    /\ \A s \in Side : IsMap(book.levels[s], Price, PriceLevel)
    /\ IsMap(book.order_locations, OrderId, OrderLocation)

EmptyBook == [levels |-> [s \in Side |-> [p \in {} |-> {}]],
              order_locations |-> [i \in {} |-> {}]]

-----------------------------------------------------------------------------
(* Looking at a book *)

contains(book, id) == id \in DOMAIN book.order_locations

\* p is the first key of the side's map: bids are sorted by std::greater,
\* asks by std::less.
IsBest(book, side, p) ==
    /\ p \in DOMAIN book.levels[side]
    /\ \A q \in DOMAIN book.levels[side] : IF side = "Buy" THEN q <= p ELSE q >= p

\* Mutant of Crosses: equal prices do not cross.
Crosses_strictly(o, p) ==
    \/ o.type = "Market"
    \/ IF o.side = "Buy" THEN o.price > p ELSE o.price < p

\* The incoming order o may trade against a resting level at price p.
Crosses(o, p) ==
    \/ o.type = "Market"
    \/ IF o.side = "Buy" THEN o.price >= p ELSE o.price <= p

\* buy_can_match / sell_can_match: the other side has a best level and it
\* crosses. The best level is the last one to stop crossing, so it crosses
\* exactly when some level does.
can_match(book, o) ==
    \E p \in DOMAIN book.levels[Opposite(o.side)] : Crosses(o, p)

\* Mutant of executable_quantity: the walk does not stop at the limit price.
executable_quantity_all(book, o) ==
    LET opposing == book.levels[Opposite(o.side)]
    IN  SumOver([p \in DOMAIN opposing |-> opposing[p].total_quantity], DOMAIN opposing)

\* The walk over the crossing levels adds up the running totals and stops once
\* they reach the order's quantity; the caller only compares the result with
\* that quantity, for which the full sum is the same.
executable_quantity(book, o) ==
    LET opposing == book.levels[Opposite(o.side)]
    IN  SumOver([p \in DOMAIN opposing |-> opposing[p].total_quantity],
                {p \in DOMAIN opposing : Crosses(o, p)})

\* The order an index entry's iterator points to, as a position in its level.
IsPosition(book, id, i) ==
    LET at == book.order_locations[id]
        orders == book.levels[at.side][at.price].orders
    IN  i \in DOMAIN orders /\ orders[i].id = id

-----------------------------------------------------------------------------
(* Changing a level (price_level.hpp) *)

\* Mutant of level_add_order: the order goes to the front of the list.
level_add_order_front(level, o) ==
    [total_quantity |-> (level.total_quantity + o.remaining_quantity) % QuantityModulus,
     orders |-> <<o>> \o level.orders]

\* PriceLevel::add_order
level_add_order(level, o) ==
    [total_quantity |-> (level.total_quantity + o.remaining_quantity) % QuantityModulus,
     orders |-> Append(level.orders, o)]

\* The list without its i-th element; the others keep their order.
Without(orders, i) ==
    [j \in 1 .. Len(orders) - 1 |-> IF j < i THEN orders[j] ELSE orders[j + 1]]

\* Mutant of level_erase: what was filled already is subtracted once more.
level_erase_initial(level, i) ==
    [total_quantity |-> level.total_quantity - level.orders[i].initial_quantity,
     orders |-> Without(level.orders, i)]

\* PriceLevel::erase, where it does not throw
level_erase(level, i) ==
    [total_quantity |-> level.total_quantity - level.orders[i].remaining_quantity,
     orders |-> Without(level.orders, i)]

\* Mutant of level_fill_front: the running total is not updated.
level_fill_front_keeps_total(level, quantity) ==
    [total_quantity |-> level.total_quantity,
     orders |-> IF Head(level.orders).remaining_quantity = quantity THEN Tail(level.orders)
                ELSE [level.orders EXCEPT ![1].remaining_quantity = @ - quantity]]

\* PriceLevel::fill_front. The total is decremented without a check, so it wraps.
level_fill_front(level, quantity) ==
    [total_quantity |-> (level.total_quantity - quantity) % QuantityModulus,
     orders |-> IF Head(level.orders).remaining_quantity = quantity THEN Tail(level.orders)
                ELSE [level.orders EXCEPT ![1].remaining_quantity = @ - quantity]]

-----------------------------------------------------------------------------
(* Changing a book *)

\* OrderBook::add_order: open the level if there is none, push the order at its
\* back, enter it in the index. The exceptions it throws are guards at the places
\* that call it.
add_order(book, o) ==
    LET side == book.levels[o.side]
        level == IF o.price \in DOMAIN side THEN side[o.price]
                 ELSE [total_quantity |-> 0, orders |-> <<>>]
    IN  [levels |-> [book.levels EXCEPT ![o.side] =
                        Put(side, o.price, level_add_order(level, o))],
         order_locations |-> Put(book.order_locations, o.id,
                                 [side |-> o.side, price |-> o.price])]

\* PriceLevel::erase throws std::logic_error, before anything has changed, when
\* the order is larger than the running total of its level.
erase_throws(book, id, i) ==
    LET at == book.order_locations[id]
        level == book.levels[at.side][at.price]
    IN  level.orders[i].remaining_quantity > level.total_quantity

\* Mutant of put_or_remove: the empty level stays.
put_always(side, p, level) == Put(side, p, level)

\* A changed level goes back into the map, unless it is empty:
\* remove_best_bid_if_empty, remove_best_ask_if_empty, the end of extract_order.
put_or_remove(side, p, level) ==
    IF level.orders = <<>> THEN Erase(side, p) ELSE Put(side, p, level)

\* Mutant of remove_from_index: forgotten.
remove_from_index_nothing(locations, id) == locations

remove_from_index(locations, id) == Erase(locations, id)

\* OrderBook::extract_order of the order at position i of its level: out of the
\* list and of the total, the level dropped when it is left empty, out of the
\* index.
extract_order(book, id, i) ==
    LET at == book.order_locations[id]
        left == level_erase(book.levels[at.side][at.price], i)
    IN  [levels |-> [book.levels EXCEPT ![at.side] = put_or_remove(@, at.price, left)],
         order_locations |-> remove_from_index(book.order_locations, id)]

\* One fill in the matching loop: PriceLevel::fill_front of the best level, then
\* remove_from_index for an order that is filled and remove_best_*_if_empty for a
\* level that is used up.
fill_front(book, side, p, quantity) ==
    LET level == book.levels[side][p]
        resting == Head(level.orders)
    IN  [levels |-> [book.levels EXCEPT ![side] =
                        put_or_remove(@, p, level_fill_front(level, quantity))],
         order_locations |-> IF resting.remaining_quantity = quantity
                             THEN remove_from_index(book.order_locations, resting.id)
                             ELSE book.order_locations]

-----------------------------------------------------------------------------
(* What makes a book well formed; MatchingEngine states these as properties *)

\* The orders that wait on side s at price p, first in line first.
OrdersAt(b, s, p) == IF p \in DOMAIN b.levels[s] THEN b.levels[s][p].orders ELSE <<>>

IndexConsistent(b) ==
    /\ \A id \in DOMAIN b.order_locations :
          LET orders == OrdersAt(b, b.order_locations[id].side, b.order_locations[id].price)
          IN  \E i \in DOMAIN orders : orders[i].id = id
    /\ \A s \in Side, p \in Price :
          LET orders == OrdersAt(b, s, p)
          IN  \A i \in DOMAIN orders :
                 /\ orders[i].id \in DOMAIN b.order_locations
                 /\ b.order_locations[orders[i].id] = [side |-> s, price |-> p]
                 /\ \A j \in DOMAIN orders : orders[j].id = orders[i].id => j = i

LevelsPopulated(b) ==
    \A s \in Side : \A p \in DOMAIN b.levels[s] : OrdersAt(b, s, p) # <<>>

Uncrossed(b) ==
    \A bid \in DOMAIN b.levels["Buy"], ask \in DOMAIN b.levels["Sell"] : bid < ask

\* Total of the remaining quantities of a list of orders.
RemainingSum(orders) ==
    SumOver([i \in DOMAIN orders |-> orders[i].remaining_quantity], DOMAIN orders)

TotalsConsistent(b) ==
    \A s \in Side : \A p \in DOMAIN b.levels[s] :
        b.levels[s][p].total_quantity = RemainingSum(OrdersAt(b, s, p)) % QuantityModulus

Restable(o) == o.type = "Limit" /\ o.time_in_force = "GoodTillCancel"

OrdersRestable(b) ==
    \A s \in Side, p \in Price : \A i \in DOMAIN OrdersAt(b, s, p) :
        LET o == OrdersAt(b, s, p)[i]
        IN  Restable(o) /\ o.remaining_quantity > 0 /\ o.side = s /\ o.price = p
=============================================================================
