---------------------------- MODULE PriceTimeBook ----------------------------
(***************************************************************************)
(* What a price-time priority market promises, without levels, lists, an   *)
(* index or running totals: a set of waiting orders, for each of them the  *)
(* orders that were there first at its price, and one order being matched. *)
(* MatchingEngine implements it (MatchingRefinement).                    *)
(***************************************************************************)
EXTENDS Integers, Sequences, Sums

CONSTANTS OrderId, Price, MaxQuantity, NoOrder

VARIABLES
    waiting,   \* order id -> [side, price, left] of every waiting order
    ahead,     \* order id -> the ids waiting at its side and price before it
    taker,     \* the order being matched or just done, or NoOrder
    fills,     \* the last taker's fills: <<buy id, sell id, price, quantity>>
    matching   \* whether the taker is still being matched

vars == <<waiting, ahead, taker, fills, matching>>

Kinds == {"Limit", "Market"} \X {"GoodTillCancel", "ImmediateOrCancel", "FillOrKill"}
Takers == [id : OrderId, side : {"Buy", "Sell"}, kind : Kinds, price : Price,
           left : 1 .. MaxQuantity]

Init ==
    /\ waiting = [i \in {} |-> {}]
    /\ ahead = [i \in {} |-> {}]
    /\ taker = NoOrder
    /\ fills = <<>>
    /\ matching = FALSE

\* The waiting orders the taker t may trade with, in a market w.
Eligible(w, t) ==
    {i \in DOMAIN w :
        /\ w[i].side # t.side
        /\ \/ t.kind[1] = "Market"
           \/ t.side = "Buy" /\ w[i].price <= t.price
           \/ t.side = "Sell" /\ w[i].price >= t.price}

\* First in line: no better price is waiting and nobody was there before at that price.
FirstInLine(i, t) ==
    /\ i \in Eligible(waiting, t)
    /\ \A j \in Eligible(waiting, t) :
          IF t.side = "Buy" THEN waiting[i].price <= waiting[j].price
                            ELSE waiting[i].price >= waiting[j].price
    /\ ahead[i] = {}

Liquidity(w, t) == SumOver([i \in DOMAIN w |-> w[i].left], Eligible(w, t))

\* The market without order i.
Gone(f, i) == [j \in DOMAIN f \ {i} |-> f[j]]
AheadWithout(i) == [j \in DOMAIN ahead \ {i} |-> ahead[j] \ {i}]

\* An order is entered into market w; fill-or-kill is decided on the spot.
Enter(w, t) ==
    /\ taker' = t
    /\ fills' = <<>>
    /\ matching' = ~(t.kind[2] = "FillOrKill" /\ Liquidity(w, t) < t.left)

Offer(t) ==
    /\ taker = NoOrder
    /\ Enter(waiting, t)
    /\ UNCHANGED <<waiting, ahead>>

Fill ==
    /\ matching
    /\ taker.left > 0
    /\ \E i \in DOMAIN waiting :
          LET quantity == IF taker.left < waiting[i].left THEN taker.left ELSE waiting[i].left
          IN  /\ FirstInLine(i, taker)
              /\ fills' = Append(fills, IF taker.side = "Buy"
                                     THEN <<taker.id, i, waiting[i].price, quantity>>
                                     ELSE <<i, taker.id, waiting[i].price, quantity>>)
              /\ taker' = [taker EXCEPT !.left = @ - quantity]
              /\ IF quantity = waiting[i].left
                 THEN waiting' = Gone(waiting, i) /\ ahead' = AheadWithout(i)
                 ELSE waiting' = [waiting EXCEPT ![i].left = @ - quantity] /\ UNCHANGED ahead
    /\ UNCHANGED matching

\* Nothing more to trade: a limit order that is good till cancelled waits at the
\* end of the line of its price (unless its id waits already), others are dropped.
Settle ==
    /\ matching
    /\ taker.left = 0 \/ Eligible(waiting, taker) = {}
    /\ matching' = FALSE
    /\ IF /\ taker.left > 0
          /\ taker.kind = <<"Limit", "GoodTillCancel">>
          /\ taker.id \notin DOMAIN waiting
       THEN /\ waiting' = [i \in DOMAIN waiting \cup {taker.id} |->
                  IF i = taker.id
                  THEN [side |-> taker.side, price |-> taker.price, left |-> taker.left]
                  ELSE waiting[i]]
            /\ ahead' = [i \in DOMAIN ahead \cup {taker.id} |->
                  IF i = taker.id
                  THEN {j \in DOMAIN waiting : /\ waiting[j].side = taker.side
                                               /\ waiting[j].price = taker.price}
                  ELSE ahead[i]]
       ELSE UNCHANGED <<waiting, ahead>>
    /\ UNCHANGED <<taker, fills>>

Withdraw(i) ==
    /\ taker = NoOrder
    /\ i \in DOMAIN waiting
    /\ waiting' = Gone(waiting, i)
    /\ ahead' = AheadWithout(i)
    /\ UNCHANGED <<taker, fills, matching>>

\* A replaced order gives up its place and is entered again.
Amend(i, price, quantity) ==
    /\ taker = NoOrder
    /\ i \in DOMAIN waiting
    /\ waiting' = Gone(waiting, i)
    /\ ahead' = AheadWithout(i)
    /\ Enter(Gone(waiting, i),
             [id |-> i, side |-> waiting[i].side, kind |-> <<"Limit", "GoodTillCancel">>,
              price |-> price, left |-> quantity])

\* A call that finds nothing to replace hands back an empty list of fills.
Miss ==
    /\ taker = NoOrder
    /\ fills' = <<>>
    /\ UNCHANGED <<waiting, ahead, taker, matching>>

Leave ==
    /\ taker # NoOrder
    /\ ~matching
    /\ taker' = NoOrder
    /\ UNCHANGED <<waiting, ahead, fills, matching>>

Next ==
    \/ \E t \in Takers : Offer(t)
    \/ Fill
    \/ Settle
    \/ \E i \in OrderId : Withdraw(i)
    \/ \E i \in OrderId, price \in Price, quantity \in 1 .. MaxQuantity :
            Amend(i, price, quantity)
    \/ Miss
    \/ Leave

Spec == Init /\ [][Next]_vars
=============================================================================
