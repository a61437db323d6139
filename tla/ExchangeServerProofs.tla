------------------------ MODULE ExchangeServerProofs ------------------------
(***************************************************************************)
(* The server keeps its types, its mutex and its owners through requests,  *)
(* trades, disconnects, crashes and recoveries, and an order without a     *)
(* session leaves the book by trading only. Between commands the risk      *)
(* engine agrees with the book and every limit holds: what the server      *)
(* tells it is a behaviour of RiskEngine. A TCP listener of market data    *)
(* has the orders and the top of the book once everything is sent, and a   *)
(* process that has recovered has the book that was left behind, unless    *)
(* its journal has a record behind the remnant of another. For every set   *)
(* of sockets, ids, prices and requests.                                   *)
(***************************************************************************)
EXTENDS ExchangeServer, FiniteSetTheorems, WellFoundedInduction, TLAPS

\* The engine is proved about in MatchingEngineProofs.
Matching == INSTANCE MatchingEngineProofs

-----------------------------------------------------------------------------
(* The server's engine is the one of MatchingEngineProofs *)

\* A call starts to match the same way in both.
LEMMA StartIsMatching ==
    ASSUME NEW b, NEW o
    PROVE  Engine!StartProcessing(b, o) <=> Matching!StartProcessing(b, o)
  BY DEF Engine!StartProcessing, Matching!StartProcessing, Engine!Effective,
         Matching!Effective, Engine!executable_quantity, Matching!executable_quantity,
         Engine!Opposite, Matching!Opposite, Engine!Crosses, Matching!Crosses,
         Engine!SumOver, Matching!SumOver, Engine!Units, Matching!Units,
         Engine!Cardinality, Matching!Cardinality

LEMMA EngineIsMatching ==
    /\ Engine!TypeOK <=> Matching!TypeOK
    /\ Engine!Init <=> Matching!Init
    /\ Engine!MatchStep <=> Matching!MatchStep
    /\ Engine!Rest <=> Matching!Rest
    /\ Engine!Complete <=> Matching!Complete
    /\ Engine!Return <=> Matching!Return
    /\ \A id : Engine!CancelOrder(id) <=> Matching!CancelOrder(id)
    /\ \A id, price, quantity :
          Engine!ReplaceOrder(id, price, quantity) <=> Matching!ReplaceOrder(id, price, quantity)
    /\ \A id, side, type, tif, price, quantity :
          Engine!ProcessOrder(id, side, type, tif, price, quantity)
             <=> Matching!ProcessOrder(id, side, type, tif, price, quantity)
  <1>1. Engine!TypeOK <=> Matching!TypeOK
    BY DEF Engine!TypeOK, Matching!TypeOK, Engine!IsBook, Matching!IsBook, Engine!Order,
           Matching!Order, Engine!Trade, Matching!Trade, Engine!Status, Matching!Status,
           Engine!IsMap, Matching!IsMap, Engine!Side, Matching!Side, Engine!PriceLevel,
           Matching!PriceLevel, Engine!OrderLocation, Matching!OrderLocation,
           Engine!Quantity, Matching!Quantity, Engine!OrderType, Matching!OrderType,
           Engine!TimeInForce, Matching!TimeInForce
  <1>2. Engine!Init <=> Matching!Init
    BY DEF Engine!Init, Matching!Init, Engine!EmptyBook, Matching!EmptyBook, Engine!Side,
           Matching!Side
  <1>3. Engine!MatchStep <=> Matching!MatchStep
    BY DEF Engine!MatchStep, Matching!MatchStep, Engine!can_match, Matching!can_match,
           Engine!Crosses, Matching!Crosses, Engine!Opposite, Matching!Opposite,
           Engine!IsBest, Matching!IsBest, Engine!fill_front, Matching!fill_front,
           Engine!put_or_remove, Matching!put_or_remove, Engine!level_fill_front,
           Matching!level_fill_front, Engine!remove_from_index, Matching!remove_from_index,
           Engine!Erase, Matching!Erase, Engine!Put, Matching!Put, Engine!Restrict,
           Matching!Restrict
  <1>4. Engine!LoopDone <=> Matching!LoopDone
    BY DEF Engine!LoopDone, Matching!LoopDone, Engine!can_match, Matching!can_match,
           Engine!Crosses, Matching!Crosses, Engine!Opposite, Matching!Opposite
  <1>5. Engine!Rest <=> Matching!Rest
    BY <1>4, Zenon DEF Engine!Rest, Matching!Rest, Engine!may_rest, Matching!may_rest,
           Engine!contains, Matching!contains, Engine!add_order, Matching!add_order,
           Engine!level_add_order, Matching!level_add_order, Engine!Put, Matching!Put
  <1>6. Engine!Complete <=> Matching!Complete
    BY <1>4 DEF Engine!Complete, Matching!Complete, Engine!may_rest, Matching!may_rest
  <1>7. Engine!Return <=> Matching!Return
    BY DEF Engine!Return, Matching!Return
  <1>8. \A id : Engine!CancelOrder(id) <=> Matching!CancelOrder(id)
    BY DEF Engine!CancelOrder, Matching!CancelOrder, Engine!Idle, Matching!Idle,
           Engine!contains, Matching!contains, Engine!IsPosition, Matching!IsPosition,
           Engine!erase_throws, Matching!erase_throws, Engine!extract_order,
           Matching!extract_order, Engine!level_erase, Matching!level_erase,
           Engine!Without, Matching!Without, Engine!put_or_remove, Matching!put_or_remove,
           Engine!remove_from_index, Matching!remove_from_index, Engine!Erase,
           Matching!Erase, Engine!Put, Matching!Put, Engine!Restrict, Matching!Restrict
  <1>9. \A b, o : Engine!StartProcessing(b, o) <=> Matching!StartProcessing(b, o)
    BY StartIsMatching
  <1>10. \A id, i : /\ Engine!IsPosition(book, id, i) <=> Matching!IsPosition(book, id, i)
                    /\ Engine!erase_throws(book, id, i) <=> Matching!erase_throws(book, id, i)
                    /\ Engine!extract_order(book, id, i) = Matching!extract_order(book, id, i)
    BY DEF Engine!IsPosition, Matching!IsPosition, Engine!erase_throws,
           Matching!erase_throws, Engine!extract_order, Matching!extract_order,
           Engine!level_erase, Matching!level_erase, Engine!Without, Matching!Without,
           Engine!put_or_remove, Matching!put_or_remove, Engine!remove_from_index,
           Matching!remove_from_index, Engine!Erase, Matching!Erase, Engine!Put,
           Matching!Put, Engine!Restrict, Matching!Restrict
  <1>11. ASSUME NEW id, NEW price, NEW quantity
         PROVE  Engine!ReplaceOrder(id, price, quantity)
                   <=> Matching!ReplaceOrder(id, price, quantity)
    <2> DEFINE at == book.order_locations[id]
               Amended(i) == [book.levels[at.side][at.price].orders[i] EXCEPT
                                 !.price = price, !.initial_quantity = quantity,
                                 !.remaining_quantity = quantity]
    <2>1. \A i : Engine!StartProcessing(Engine!extract_order(book, id, i), Amended(i))
                    <=> Matching!StartProcessing(Matching!extract_order(book, id, i), Amended(i))
      BY <1>9, <1>10
    <2> QED
      BY <1>10, <2>1, Zenon DEF Engine!ReplaceOrder, Matching!ReplaceOrder, Engine!Idle,
                         Matching!Idle, Engine!contains, Matching!contains
  <1>12. \A id, side, type, tif, price, quantity :
            Engine!ProcessOrder(id, side, type, tif, price, quantity)
               <=> Matching!ProcessOrder(id, side, type, tif, price, quantity)
    BY <1>9 DEF Engine!ProcessOrder, Matching!ProcessOrder, Engine!Idle, Matching!Idle,
           Engine!NewOrder, Matching!NewOrder
  <1> QED
    BY <1>1, <1>2, <1>3, <1>5, <1>6, <1>7, <1>8, <1>11, <1>12

\* What MatchingEngineProofs assumes of the constants.
LEMMA MatchingAssumptions ==
    /\ Price \subseteq Int
    /\ QuantityModulus \in Nat \ {0, 1}
    /\ NoOrder \notin Matching!Order
    /\ MaxQuantity \in 1 .. QuantityModulus - 1
    /\ NoOrder \notin [id : OrderId, side : Matching!Side,
                       kind : Matching!OrderType \X Matching!TimeInForce,
                       price : Price, left : Matching!Quantity]
  BY PriceAssumption, ModulusAssumption, EngineAssumption
     DEF Order, Matching!Order, Side, Matching!Side, OrderType, Matching!OrderType,
         TimeInForce, Matching!TimeInForce, Quantity, Matching!Quantity

\* The engine starts with a well formed, uncrossed book.
LEMMA EngineStarts == Engine!Init => Matching!IInv
  BY EngineIsMatching, MatchingAssumptions, Matching!InitIInv

\* The engine keeps it while it works on a call, and when it returns.
LEMMA EngineWorks ==
    ASSUME Matching!IInv,
           Engine!MatchStep \/ Engine!Rest \/ Engine!Complete \/ Engine!Return
    PROVE  Matching!IInv'
  <1>1. Matching!Next
    BY EngineIsMatching DEF Matching!Next
  <1> QED
    BY <1>1, MatchingAssumptions, Matching!NextKeepsIInv

\* The call that a request leads to, in a handler or in recovery.
Called(request) ==
    \/ /\ request.type = "NewOrder"
       /\ Engine!ProcessOrder(request.id, request.side, request.order_type,
                              request.time_in_force, request.price, request.quantity)
    \/ request.type = "CancelOrder" /\ Engine!CancelOrder(request.id)
    \/ /\ request.type = "ReplaceOrder"
       /\ Engine!ReplaceOrder(request.id, request.price, request.quantity)

\* The requests are arguments that the engine is proved for.
LEMMA EngineIsCalled ==
    ASSUME Matching!IInv, NEW request \in Request, Called(request)
    PROVE  Matching!IInv'
  <1>0. request \in NewOrderRequest \cup CancelRequest \cup ReplaceRequest
    BY RequestAssumption
  <1>1. CASE /\ request.type = "NewOrder"
             /\ Engine!ProcessOrder(request.id, request.side, request.order_type,
                                    request.time_in_force, request.price, request.quantity)
    <2>1. request \in NewOrderRequest
      BY <1>0, <1>1 DEF CancelRequest, ReplaceRequest
    <2>2. /\ request.id \in OrderId /\ request.side \in Matching!Side
          /\ request.order_type \in Matching!OrderType
          /\ request.time_in_force \in Matching!TimeInForce
          /\ request.price \in Price /\ request.quantity \in 1 .. MaxQuantity
      BY <2>1 DEF NewOrderRequest, Side, Matching!Side, OrderType, Matching!OrderType,
                  TimeInForce, Matching!TimeInForce
    <2>3. Matching!ProcessOrder(request.id, request.side, request.order_type,
                                request.time_in_force, request.price, request.quantity)
      BY <1>1, EngineIsMatching
    <2>4. Matching!Next
      BY <2>2, <2>3 DEF Matching!Next
    <2> QED
      BY <2>4, MatchingAssumptions, Matching!NextKeepsIInv
  <1>2. CASE request.type = "CancelOrder" /\ Engine!CancelOrder(request.id)
    <2>1. request.id \in OrderId
      BY <1>0 DEF NewOrderRequest, CancelRequest, ReplaceRequest
    <2>2. Matching!Next
      BY <1>2, <2>1, EngineIsMatching DEF Matching!Next
    <2> QED
      BY <2>2, MatchingAssumptions, Matching!NextKeepsIInv
  <1>3. CASE /\ request.type = "ReplaceOrder"
             /\ Engine!ReplaceOrder(request.id, request.price, request.quantity)
    <2>1. request \in ReplaceRequest
      BY <1>0, <1>3 DEF NewOrderRequest, CancelRequest
    <2>2. /\ request.id \in OrderId /\ request.price \in Price
          /\ request.quantity \in 1 .. MaxQuantity
      BY <2>1 DEF ReplaceRequest
    <2>3. Matching!Next
      BY <1>3, <2>2, EngineIsMatching DEF Matching!Next
    <2> QED
      BY <2>3, MatchingAssumptions, Matching!NextKeepsIInv
  <1> QED
    BY <1>1, <1>2, <1>3 DEF Called

\* A process that dies leaves the engine as it is at the start.
LEMMA EngineStartsAgain ==
    ASSUME book' = EmptyBook, incoming' = NoOrder, trades' = <<>>, status' = "ready"
    PROVE  Matching!IInv'
  <1>1. Engine!Init'
    BY DEF Engine!Init, Engine!EmptyBook, EmptyBook, Engine!Side, Side
  <1>2. (Engine!Init => Matching!IInv)'
    BY EngineStarts, PTL
  <1> QED
    BY <1>1, <1>2

-----------------------------------------------------------------------------
(* The inductive invariant *)

IsSequence(s) == \E S : s \in Seq(S)

\* The mutex's critical section: a command is matched first, for a session that is
\* connected, and answered then. There are sessions and owners only in a process
\* that runs, and the engine is busy only with the command.
OneAtATime ==
    /\ command # NoCommand => outbox = <<>>
    /\ handler # 0 => client_risk_ids[handler] # 0
    /\ phase # "running" => handler = 0 /\ DOMAIN order_owners = {}
    /\ phase = "running" /\ command = NoCommand => status = "ready"
    /\ command # NoCommand =>
          /\ command.type = "CancelOrder" => status # "matching"
          /\ status = "cancelled" => command.type = "CancelOrder"

\* The orders that the trades of the trade buffer name.
TradedOrders ==
    {trades[i].buy_order_id : i \in DOMAIN trades}
      \cup {trades[i].sell_order_id : i \in DOMAIN trades}

\* An owner without an order in the book: its order is the one that the command is
\* about, or one that the command has filled, which its trades name. The trades are
\* not a cancel's own, so they excuse nothing there.
OwnersUnderWay ==
    \A id \in DOMAIN order_owners \ Booked(book) :
        /\ command # NoCommand
        /\ \/ id = command.id
           \/ command.type # "CancelOrder" /\ id \in TradedOrders

ServerInv ==
    /\ Matching!IInv
    /\ TypeOK
    /\ IsSequence(outbox)
    /\ OneAtATime
    /\ OwnersUnderWay

\* The engine's types are among the server's.
LEMMA EngineTyped == Matching!IInv => Engine!TypeOK
  BY EngineIsMatching DEF Matching!IInv

LEMMA EngineStaysTyped == Matching!IInv' => Engine!TypeOK'
  <1>1. (Matching!IInv => Engine!TypeOK)'
    BY EngineTyped, PTL
  <1> QED
    BY <1>1

-----------------------------------------------------------------------------
(* What the engine does to the orders in the book *)

LEMMA AppendParts ==
    ASSUME NEW S, NEW s \in Seq(S), NEW e
    PROVE  /\ DOMAIN Append(s, e) = DOMAIN s \cup {Len(s) + 1}
           /\ \A i \in DOMAIN s : Append(s, e)[i] = s[i]
           /\ Append(s, e)[Len(s) + 1] = e
  <1>1. s \in Seq(S \cup {e})
    OBVIOUS
  <1> QED
    BY <1>1

\* A fill takes out of the book at most the order that the new trade names.
LEMMA FillTakesMaker ==
    ASSUME Engine!MatchStep, trades \in Seq(Engine!Trade)
    PROVE  /\ status = "matching" /\ status' = status
           /\ Booked(book) \subseteq Booked(book') \cup TradedOrders'
           /\ TradedOrders \subseteq TradedOrders'
  <1> DEFINE side == Engine!Opposite(incoming.side)
             maker(p) == Head(book.levels[side][p].orders)
             buying == incoming.side = "Buy"
             made(p, q) == [buy_order_id |-> IF buying THEN incoming.id ELSE maker(p).id,
                            sell_order_id |-> IF buying THEN maker(p).id ELSE incoming.id,
                            price |-> p, quantity |-> q]
  <1>1. PICK p, q : /\ trades' = Append(trades, made(p, q))
                    /\ book' = Engine!fill_front(book, side, p, q)
    BY Zenon DEF Engine!MatchStep
  <1> DEFINE trade == made(p, q)
  <1>2. trade.buy_order_id = maker(p).id \/ trade.sell_order_id = maker(p).id
    OBVIOUS
  <1> HIDE DEF trade
  <1>3. /\ DOMAIN trades' = DOMAIN trades \cup {Len(trades) + 1}
        /\ \A i \in DOMAIN trades : trades'[i] = trades[i]
        /\ trades'[Len(trades) + 1] = trade
    <2>1. trades' = Append(trades, trade)
      BY <1>1 DEF trade
    <2> QED
      BY <2>1, AppendParts
  <1>6. maker(p).id \in TradedOrders'
    <2>1. trades'[Len(trades) + 1].buy_order_id = maker(p).id
             \/ trades'[Len(trades) + 1].sell_order_id = maker(p).id
      BY <1>2, <1>3
    <2> HIDE DEF maker
    <2> QED
      BY <1>3, <2>1 DEF TradedOrders
  <1>4. TradedOrders \subseteq TradedOrders'
    BY <1>3 DEF TradedOrders
  <1>5. Booked(book) \ {maker(p).id} \subseteq Booked(book')
    BY <1>1, Zenon DEF Booked, Engine!fill_front, Engine!remove_from_index, Engine!Erase,
                Engine!Restrict
  <1> QED
    BY <1>4, <1>5, <1>6, Zenon DEF Engine!MatchStep

\* What rests joins the orders in the book; a call that is done leaves them alone.
LEMMA RestAdds ==
    ASSUME Engine!Rest \/ Engine!Complete
    PROVE  /\ status = "matching" /\ status' \in {"done", "invalid_argument"}
           /\ Booked(book) \subseteq Booked(book')
           /\ trades' = trades
  <1>1. CASE Engine!Rest
    BY <1>1 DEF Engine!Rest, Engine!LoopDone, Engine!add_order, Engine!Put, Booked
  <1>2. CASE Engine!Complete
    BY <1>2 DEF Engine!Complete, Engine!LoopDone
  <1> QED
    BY <1>1, <1>2

\* A call takes out of the book only the order that it is about, if any.
LEMMA CallTakesOne ==
    ASSUME NEW request, Called(request)
    PROVE  /\ Booked(book) \ {request.id} \subseteq Booked(book')
           /\ request.type = "NewOrder" => book' = book
           /\ request.type # "CancelOrder" =>
                 status' \in {"killed", "matching", "not_found", "logic_error"}
           /\ request.type = "CancelOrder" =>
                 status' \in {"cancelled", "not_found", "logic_error"}
  <1>1. \A i : Booked(Engine!extract_order(book, request.id, i)) = Booked(book) \ {request.id}
    BY DEF Booked, Engine!extract_order, Engine!remove_from_index, Engine!Erase,
           Engine!Restrict
  <1>2. \A b, o : Engine!StartProcessing(b, o) =>
                     book' = b /\ status' \in {"killed", "matching"}
    BY DEF Engine!StartProcessing
  <1>3. CASE /\ request.type = "NewOrder"
             /\ Engine!ProcessOrder(request.id, request.side, request.order_type,
                                    request.time_in_force, request.price, request.quantity)
    BY <1>2, <1>3 DEF Engine!ProcessOrder
  <1>4. CASE request.type = "CancelOrder" /\ Engine!CancelOrder(request.id)
    BY <1>1, <1>4, Zenon DEF Engine!CancelOrder
  <1>5. CASE /\ request.type = "ReplaceOrder"
             /\ Engine!ReplaceOrder(request.id, request.price, request.quantity)
    <2>1. CASE book' = book /\ status' \in {"not_found", "logic_error"}
      BY <1>5, <2>1
    <2>2. CASE \E i, o : Engine!StartProcessing(Engine!extract_order(book, request.id, i), o)
      BY <1>1, <1>2, <1>5, <2>2
    <2> QED
      BY <1>5, <2>1, <2>2, Zenon DEF Engine!ReplaceOrder
  <1> QED
    BY <1>3, <1>4, <1>5 DEF Called

-----------------------------------------------------------------------------
(* What is to be sent is a sequence *)

LEMMA FunctionIsSequence ==
    ASSUME NEW n \in Nat, NEW f, f = [i \in 1 .. n |-> f[i]]
    PROVE  IsSequence(f)
  <1>1. f \in [1 .. n -> {f[i] : i \in 1 .. n}]
    OBVIOUS
  <1>2. f \in Seq({f[i] : i \in 1 .. n})
    BY <1>1
  <1> QED
    BY <1>2, Zenon DEF IsSequence

LEMMA OneIsSequence ==
    ASSUME NEW m
    PROVE  IsSequence(<<m>>) /\ <<m>> # <<>>
  <1>1. <<m>> \in Seq({m})
    OBVIOUS
  <1> QED
    BY <1>1, Zenon DEF IsSequence

LEMMA ConcatIsSequence ==
    ASSUME NEW s, IsSequence(s), NEW t, IsSequence(t)
    PROVE  IsSequence(s \o t) /\ (s # <<>> => s \o t # <<>>)
  <1>1. PICK S : s \in Seq(S)
    BY DEF IsSequence
  <1>2. PICK T : t \in Seq(T)
    BY DEF IsSequence
  <1>3. s \in Seq(S \cup T) /\ t \in Seq(S \cup T)
    BY <1>1, <1>2
  <1>4. s \o t \in Seq(S \cup T) /\ Len(s \o t) = Len(s) + Len(t)
    BY <1>3
  <1>5. s # <<>> => Len(s) > 0
    BY <1>1
  <1>6. s # <<>> => Len(s \o t) > 0
    BY <1>1, <1>2, <1>4, <1>5
  <1>7. s # <<>> => s \o t # <<>>
    BY <1>6
  <1> QED
    BY <1>4, <1>7 DEF IsSequence

LEMMA TailIsSequence ==
    ASSUME NEW s, IsSequence(s), s # <<>>
    PROVE  IsSequence(Tail(s)) /\ (Len(s) = 1 <=> Tail(s) = <<>>)
  <1>1. PICK S : s \in Seq(S)
    BY DEF IsSequence
  <1>2. Tail(s) \in Seq(S) /\ Len(Tail(s)) = Len(s) - 1 /\ Len(s) \in Nat
    BY <1>1
  <1>3. \A t \in Seq(S) : Len(t) = 0 <=> t = <<>>
    OBVIOUS
  <1>4. Len(s) = 1 <=> Len(Tail(s)) = 0
    BY <1>2
  <1>5. IsSequence(Tail(s))
    BY <1>2 DEF IsSequence
  <1> QED
    BY <1>2, <1>3, <1>4, <1>5, Zenon

\* The orders that the trades have filled are finitely many.
LEMMA FilledAreFinite ==
    ASSUME trades \in Seq(Engine!Trade)
    PROVE  IsFiniteSet(FilledOrders)
  <1>1. IsFiniteSet(DOMAIN trades)
    <2>1. DOMAIN trades = 1 .. Len(trades) /\ Len(trades) \in Int
      OBVIOUS
    <2> QED
      BY <2>1, FS_Interval
  <1> DEFINE Buyers == {trades[i].buy_order_id : i \in DOMAIN trades}
             Sellers == {trades[i].sell_order_id : i \in DOMAIN trades}
  <1>2. IsFiniteSet(Buyers)
    <2> DEFINE f == [i \in DOMAIN trades |-> trades[i].buy_order_id]
    <2>1. f \in Surjection(DOMAIN trades, Buyers)
      BY DEF Surjection
    <2> QED
      BY <1>1, <2>1, FS_Surjection DEF ExistsSurjection
  <1>3. IsFiniteSet(Sellers)
    <2> DEFINE f == [i \in DOMAIN trades |-> trades[i].sell_order_id]
    <2>1. f \in Surjection(DOMAIN trades, Sellers)
      BY DEF Surjection
    <2> QED
      BY <1>1, <2>1, FS_Surjection DEF ExistsSurjection
  <1>4. FilledOrders \in SUBSET (Buyers \cup Sellers)
    BY DEF FilledOrders
  <1> HIDE DEF Buyers, Sellers
  <1>5. IsFiniteSet(Buyers \cup Sellers)
    BY <1>2, <1>3, FS_Union, Zenon
  <1> QED
    BY <1>4, <1>5, FS_Subset

\* So they can be put in an order, each of them once.
LEMMA DeletionsAre ==
    ASSUME trades \in Seq(Engine!Trade)
    PROVE  \E n \in Nat : \E order \in [1 .. n -> FilledOrders] :
              /\ \A id \in FilledOrders : \E i \in 1 .. n : order[i] = id
              /\ Level3Deletions = [i \in 1 .. n |-> Deleted(order[i])]
  <1> DEFINE n == Cardinality(FilledOrders)
             order == SetToSeq(FilledOrders)
  <1>1. IsFiniteSet(FilledOrders)
    BY FilledAreFinite
  <1> HIDE DEF n
  <1>2. n \in Nat /\ \E f \in [1 .. n -> FilledOrders] : IsInjective(f)
    BY <1>1, FS_CardinalityType DEF n, ExistsBijection, Bijection, Injection
  <1>3. order \in [1 .. n -> FilledOrders] /\ IsInjective(order)
    BY <1>2 DEF SetToSeq, n
  <1>4. DOMAIN order = 1 .. n
    BY <1>3
  <1> HIDE DEF order
  <1>5. Level3Deletions = [i \in 1 .. n |-> Deleted(order[i])]
    BY <1>4 DEF Level3Deletions, order
  <1>6. order \in Surjection(1 .. n, FilledOrders)
    <2>1. order \in Injection(1 .. n, FilledOrders)
      BY <1>3 DEF Injection
    <2>2. Cardinality(1 .. n) = n
      BY <1>2, FS_Interval
    <2> QED
      BY <1>1, <2>1, <2>2, FS_Injection DEF n
  <1>7. \A id \in FilledOrders : \E i \in 1 .. n : order[i] = id
    BY <1>6 DEF Surjection
  <1> QED
    BY <1>2, <1>3, <1>5, <1>7, Zenon

LEMMA DeletionsAreSequence ==
    ASSUME trades \in Seq(Engine!Trade)
    PROVE  IsSequence(Level3Deletions)
  <1>1. PICK n \in Nat : \E order \in [1 .. n -> FilledOrders] :
           Level3Deletions = [i \in 1 .. n |-> Deleted(order[i])]
    BY DeletionsAre
  <1>2. Level3Deletions = [i \in 1 .. n |-> Level3Deletions[i]]
    BY <1>1
  <1> QED
    BY <1>2, FunctionIsSequence

LEMMA MessagesAreSequences ==
    ASSUME trades \in Seq(Engine!Trade)
    PROVE  /\ IsSequence(ExecutionDeliveries)
           /\ IsSequence(BookUpdate)
           /\ IsSequence(Level3Executions)
           /\ IsSequence(Level3Deletions)
           /\ IsSequence(Level3Add)
  <1>1. Len(trades) \in Nat /\ 2 * Len(trades) \in Nat /\ DOMAIN trades = 1 .. Len(trades)
    OBVIOUS
  <1>2. IsSequence(ExecutionDeliveries)
    <2>1. ExecutionDeliveries = [i \in 1 .. 2 * Len(trades) |-> ExecutionDeliveries[i]]
      BY Zenon DEF ExecutionDeliveries
    <2> QED
      BY <1>1, <2>1, FunctionIsSequence
  <1>3. IsSequence(Level3Executions)
    <2>1. Level3Executions = [i \in 1 .. Len(trades) |-> Level3Executions[i]]
      BY <1>1 DEF Level3Executions
    <2> QED
      BY <1>1, <2>1, FunctionIsSequence
  <1>4. IsSequence(BookUpdate)
    BY OneIsSequence DEF BookUpdate
  <1>5. IsSequence(Level3Add)
    <2>1. IsSequence(<<>>)
      BY DEF IsSequence
    <2> QED
      BY <2>1, OneIsSequence DEF Level3Add
  <1> QED
    BY <1>2, <1>3, <1>4, <1>5, DeletionsAreSequence

-----------------------------------------------------------------------------
(* Every step keeps the invariant *)

\* The engine is left alone, but for the trade buffer that a handler may clear.
LEMMA EngineRests ==
    ASSUME Matching!IInv, UNCHANGED <<book, incoming, status>>, trades' \in {trades, <<>>}
    PROVE  Matching!IInv'
  <1>1. CASE trades' = trades
    BY <1>1, MatchingAssumptions, Matching!NextKeepsIInv DEF Matching!vars
  <1>2. CASE trades' = <<>>
    <2>1. Matching!TypeOK'
      BY <1>2 DEF Matching!IInv, Matching!TypeOK
    <2> QED
      BY <2>1 DEF Matching!IInv
  <1> QED
    BY <1>1, <1>2

LEMMA InitServerInv == Init => ServerInv
  <1> SUFFICES ASSUME Init PROVE ServerInv
    OBVIOUS
  <1>1. Matching!IInv /\ Engine!TypeOK
    BY EngineStarts, EngineTyped DEF Init
  <1>2. DOMAIN order_owners = {} /\ IsMap(order_owners, OrderId, Owner)
    BY DEF Init, EmptyMap, IsMap
  <1>3. TypeOK
    BY <1>1, <1>2, BoundsAssumption DEF Init, TypeOK, Client
  <1>4. IsSequence(outbox)
    BY DEF Init, IsSequence
  <1>5. OneAtATime /\ OwnersUnderWay
    BY <1>2 DEF Init, OneAtATime, OwnersUnderWay, Engine!Init
  <1> QED
    BY <1>1, <1>3, <1>4, <1>5 DEF ServerInv

\* A session comes, on a free socket and with a number of its own.
LEMMA ConnectKeepsInv == ServerInv /\ Connect => ServerInv'
  <1> SUFFICES ASSUME ServerInv, Connect PROVE ServerInv'
    OBVIOUS
  <1>1. Matching!IInv' /\ Engine!TypeOK'
    BY EngineRests, EngineStaysTyped DEF ServerInv, Connect, engineVars
  <1>2. PICK s \in Socket : client_risk_ids[s] = 0 /\ register_client(s)
    BY DEF Connect
  <1>3. /\ next_risk_client_id \in Client /\ next_risk_client_id # 0
        /\ next_risk_client_id' \in 1 .. MaxSessions + 1
    BY <1>2, BoundsAssumption DEF Connect, ServerInv, TypeOK, Client, register_client
  <1>4. /\ client_risk_ids' \in [Socket -> Client \cup {0}]
        /\ \A t \in Socket : client_risk_ids[t] # 0 => client_risk_ids'[t] # 0
    BY <1>2, <1>3 DEF ServerInv, TypeOK, register_client
  <1>5. UNCHANGED <<engineVars, phase, order_owners, handlerVars, fileVars, replayed>>
    BY DEF Connect
  <1>6. TypeOK'
    BY <1>1, <1>3, <1>4, <1>5 DEF ServerInv, TypeOK, handlerVars, fileVars
  <1>7. IsSequence(outbox)' /\ OwnersUnderWay'
    BY <1>5 DEF ServerInv, OwnersUnderWay, TradedOrders, engineVars, handlerVars
  <1>8. OneAtATime'
    BY <1>4, <1>5 DEF ServerInv, TypeOK, OneAtATime, engineVars, handlerVars
  <1> QED
    BY <1>1, <1>6, <1>7, <1>8 DEF ServerInv

\* A session goes, and its orders stay.
LEMMA DisconnectKeepsInv ==
    ASSUME ServerInv, NEW s \in Socket, Disconnect(s)
    PROVE  ServerInv'
  <1>1. Matching!IInv' /\ Engine!TypeOK'
    BY EngineRests, EngineStaysTyped DEF ServerInv, Disconnect, engineVars
  <1>2. /\ client_risk_ids' \in [Socket -> Client \cup {0}]
        /\ next_risk_client_id' = next_risk_client_id
        /\ handler # 0 => client_risk_ids'[handler] = client_risk_ids[handler]
    BY DEF ServerInv, TypeOK, Disconnect, unregister_client
  <1>3. UNCHANGED <<engineVars, phase, order_owners, handlerVars, fileVars, replayed>>
    BY DEF Disconnect
  <1>4. TypeOK'
    BY <1>1, <1>2, <1>3 DEF ServerInv, TypeOK, handlerVars, fileVars
  <1>5. IsSequence(outbox)' /\ OwnersUnderWay'
    BY <1>3 DEF ServerInv, OwnersUnderWay, TradedOrders, engineVars, handlerVars
  <1>6. OneAtATime'
    BY <1>2, <1>3 DEF ServerInv, OneAtATime, engineVars, handlerVars
  <1> QED
    BY <1>1, <1>4, <1>5, <1>6 DEF ServerInv

\* A thread that has just taken the mutex: nothing is under way.
LEMMA NothingUnderWay ==
    ASSUME ServerInv, NEW s \in Socket, Receives(s)
    PROVE  /\ s # 0 /\ phase = "running" /\ client_risk_ids[s] # 0
           /\ command = NoCommand /\ outbox = <<>> /\ status = "ready"
           /\ DOMAIN order_owners \subseteq Booked(book)
  BY SocketAssumption DEF ServerInv, TypeOK, OneAtATime, OwnersUnderWay, Receives

\* A request is refused.
LEMMA RefuseKeepsInv ==
    ASSUME ServerInv, NEW s \in Socket, NEW id, Receives(s), Refuse(s, id),
           ServerUnchanged, UNCHANGED <<book, incoming, status>>, trades' \in {trades, <<>>}
    PROVE  ServerInv'
  <1>1. Matching!IInv' /\ Engine!TypeOK'
    BY EngineRests, EngineStaysTyped DEF ServerInv
  <1>2. IsSequence(outbox)' /\ outbox' # <<>>
    BY OneIsSequence DEF Refuse
  <1>3. /\ handler' = s /\ command' = NoCommand
        /\ UNCHANGED <<fileVars, phase, sessionVars, order_owners, replayed>>
    BY NothingUnderWay DEF Refuse, ServerUnchanged
  <1>4. TypeOK'
    BY <1>1, <1>2, <1>3, NothingUnderWay
       DEF ServerInv, TypeOK, fileVars, sessionVars
  <1>5. OneAtATime'
    BY <1>3, NothingUnderWay DEF OneAtATime, sessionVars
  <1>6. OwnersUnderWay'
    BY <1>3, NothingUnderWay DEF OwnersUnderWay
  <1> QED
    BY <1>1, <1>2, <1>4, <1>5, <1>6 DEF ServerInv

\* A request is accepted, written to the journal and given to the engine.
LEMMA AcceptKeepsInv ==
    ASSUME ServerInv, NEW s \in Socket, NEW request \in Request, Receives(s),
           Accept(s, request), ServerUnchanged, Called(request)
    PROVE  ServerInv'
  <1>1. Matching!IInv' /\ Engine!TypeOK'
    BY EngineIsCalled, EngineStaysTyped DEF ServerInv
  <1>2. /\ handler' = s /\ command' = request /\ request # NoCommand /\ outbox' = <<>>
        /\ UNCHANGED <<phase, sessionVars, order_owners, replayed>>
    BY NothingUnderWay, RequestAssumption DEF Accept, ServerUnchanged
  <1>3. /\ journal' \in Seq(Request) /\ Len(journal') = Len(journal) + 1
        /\ Len(journal) \in Nat /\ tail' \in {"clean", "stump", "torn"}
        /\ broken' \subseteq 0 .. Len(journal') - 1
    <2>1. /\ journal' \in Seq(Request) /\ Len(journal') = Len(journal) + 1
          /\ Len(journal) \in Nat /\ tail' \in {"clean", "stump", "torn"}
      BY DEF Accept, append_journal_record, ServerInv, TypeOK
    <2>2. broken' \subseteq broken \cup {Len(journal)} /\ broken \subseteq 0 .. Len(journal) - 1
      BY DEF Accept, append_journal_record, ServerInv, TypeOK
    <2> QED
      BY <2>1, <2>2
  <1>4. TypeOK'
    BY <1>1, <1>2, <1>3, NothingUnderWay DEF ServerInv, TypeOK, sessionVars
  <1>5. IsSequence(outbox)'
    BY <1>2 DEF IsSequence
  <1>6. OneAtATime'
    BY <1>2, NothingUnderWay, CallTakesOne DEF OneAtATime, sessionVars
  <1>7. OwnersUnderWay'
    BY <1>2, NothingUnderWay, CallTakesOne DEF OwnersUnderWay
  <1> QED
    BY <1>1, <1>4, <1>5, <1>6, <1>7 DEF ServerInv

\* The handlers, up to their calls of the engine.
LEMMA HandlersKeepInv ==
    ASSUME ServerInv, NEW s \in Socket, NEW request \in Request,
           \/ handle_new_order(s, request)
           \/ handle_cancel_order(s, request)
           \/ handle_replace_order(s, request)
    PROVE  ServerInv'
  <1>1. Receives(s) /\ ServerUnchanged
    BY DEF handle_new_order, handle_cancel_order, handle_replace_order
  <1>2. CASE Accept(s, request) /\ Called(request)
    BY <1>1, <1>2, AcceptKeepsInv
  <1>3. CASE /\ Refuse(s, request.id) /\ UNCHANGED <<book, incoming, status>>
             /\ trades' \in {trades, <<>>}
    BY <1>1, <1>3, RefuseKeepsInv
  <1> QED
    BY <1>2, <1>3 DEF handle_new_order, handle_cancel_order, handle_replace_order, Called,
                      engineVars

LEMMA MalformedKeepsInv ==
    ASSUME ServerInv, NEW s \in Socket, HandleMalformed(s)
    PROVE  ServerInv'
  BY RefuseKeepsInv DEF HandleMalformed, engineVars

\* The engine works on the command: an owner whose order is filled is excused by the
\* trade that filled it.
LEMMA EngineStepKeepsInv == ServerInv /\ EngineStep => ServerInv'
  <1> SUFFICES ASSUME ServerInv, EngineStep PROVE ServerInv'
    OBVIOUS
  <1>1. Matching!IInv' /\ Engine!TypeOK'
    BY EngineWorks, EngineStaysTyped DEF ServerInv, EngineStep
  <1>2. UNCHANGED <<phase, sessionVars, order_owners, replayed, handlerVars, fileVars>>
    BY DEF EngineStep, ServerUnchanged
  <1>3. trades \in Seq(Engine!Trade)
    BY DEF ServerInv, TypeOK, Engine!TypeOK
  <1>4. /\ status = "matching" /\ status' \in {"matching", "done", "invalid_argument"}
        /\ Booked(book) \subseteq Booked(book') \cup TradedOrders'
        /\ TradedOrders \subseteq TradedOrders'
    <2>1. CASE Engine!MatchStep
      BY <1>3, <2>1, FillTakesMaker
    <2>2. CASE Engine!Rest \/ Engine!Complete
      BY <2>2, RestAdds DEF TradedOrders
    <2> QED
      BY <2>1, <2>2 DEF EngineStep
  <1>5. DOMAIN order_owners # {} => command # NoCommand /\ command.type # "CancelOrder"
    BY <1>4 DEF ServerInv, OneAtATime
  <1>6. TypeOK'
    BY <1>1, <1>2 DEF ServerInv, TypeOK, sessionVars, handlerVars, fileVars
  <1>7. OneAtATime'
    BY <1>2, <1>4 DEF ServerInv, OneAtATime, sessionVars, handlerVars
  <1>8. OwnersUnderWay'
    <2> SUFFICES ASSUME NEW id \in DOMAIN order_owners, id \notin Booked(book')
                 PROVE  /\ command # NoCommand
                        /\ \/ id = command.id
                           \/ command.type # "CancelOrder" /\ id \in TradedOrders'
      BY <1>2 DEF OwnersUnderWay, handlerVars
    <2>1. CASE id \in Booked(book)
      BY <1>4, <1>5, <2>1
    <2>2. CASE id \notin Booked(book)
      BY <1>4, <2>2 DEF ServerInv, OwnersUnderWay
    <2> QED
      BY <2>1, <2>2
  <1>9. IsSequence(outbox)'
    BY <1>2 DEF ServerInv, handlerVars
  <1> QED
    BY <1>1, <1>6, <1>7, <1>8, <1>9 DEF ServerInv

\* A command that is settled: something is to be sent, and every owner has an order.
LEMMA SettledKeepsInv ==
    ASSUME ServerInv, Settle, IsSequence(outbox'), outbox' # <<>>,
           IsMap(order_owners', OrderId, Owner), DOMAIN order_owners' \subseteq Booked(book)
    PROVE  ServerInv'
  <1>1. Matching!IInv' /\ Engine!TypeOK'
    BY EngineWorks, EngineStaysTyped DEF ServerInv, Settle
  <1>2. /\ handler # 0 /\ handler' = handler /\ command # NoCommand /\ command' = NoCommand
        /\ status' = "ready" /\ book' = book
        /\ UNCHANGED <<phase, sessionVars, fileVars, replayed>>
    BY DEF Settle, Engine!Return
  <1>3. phase = "running"
    BY <1>2 DEF ServerInv, OneAtATime
  <1>4. TypeOK'
    BY <1>1, <1>2 DEF ServerInv, TypeOK, sessionVars, fileVars
  <1>5. OneAtATime'
    BY <1>2, <1>3 DEF ServerInv, OneAtATime, sessionVars
  <1>6. OwnersUnderWay'
    BY <1>2 DEF OwnersUnderWay
  <1> QED
    BY <1>1, <1>4, <1>5, <1>6 DEF ServerInv

LEMMA AllAreSequence ==
    ASSUME NEW a, NEW b, NEW c, NEW d, NEW e, NEW f, NEW g,
           IsSequence(a), IsSequence(b), IsSequence(c), IsSequence(d), IsSequence(e),
           IsSequence(f), IsSequence(g), a # <<>>
    PROVE  IsSequence(a \o b \o c \o d \o e \o f \o g) /\ a \o b \o c \o d \o e \o f \o g # <<>>
  <1> DEFINE ab == a \o b
             abc == ab \o c
             abcd == abc \o d
             abcde == abcd \o e
             abcdef == abcde \o f
  <1>1. IsSequence(ab) /\ ab # <<>>
    BY ConcatIsSequence
  <1> HIDE DEF ab
  <1>2. IsSequence(abc) /\ abc # <<>>
    BY <1>1, ConcatIsSequence
  <1> HIDE DEF abc
  <1>3. IsSequence(abcd) /\ abcd # <<>>
    BY <1>2, ConcatIsSequence
  <1> HIDE DEF abcd
  <1>4. IsSequence(abcde) /\ abcde # <<>>
    BY <1>3, ConcatIsSequence
  <1> HIDE DEF abcde
  <1>5. IsSequence(abcdef) /\ abcdef # <<>>
    BY <1>4, ConcatIsSequence
  <1> HIDE DEF abcdef
  <1>6. IsSequence(abcdef \o g) /\ abcdef \o g # <<>>
    BY <1>5, ConcatIsSequence
  <1> QED
    BY <1>6 DEF ab, abc, abcd, abcde, abcdef

\* The rest of handle_new_order and handle_replace_order.
LEMMA FinishKeepsInv ==
    ASSUME ServerInv, NEW first, IsSequence(first), FinishOrder(first)
    PROVE  ServerInv'
  <1>1. /\ Settle /\ handler # 0 /\ command # NoCommand
        /\ trades \in Seq(Engine!Trade) /\ command.id \in OrderId
    <2>1. command \in NewOrderRequest \cup CancelRequest \cup ReplaceRequest
      BY RequestAssumption DEF ServerInv, TypeOK, FinishOrder, Settle
    <2>2. command.id \in OrderId
      BY <2>1 DEF NewOrderRequest, CancelRequest, ReplaceRequest
    <2> QED
      BY <2>2 DEF FinishOrder, Settle, ServerInv, TypeOK, Engine!TypeOK
  <1>2. IsSequence(outbox') /\ outbox' # <<>>
    <2> DEFINE answer == <<Response(handler, command.id, TRUE)>>
    <2>1. IsSequence(answer) /\ answer # <<>>
      BY OneIsSequence
    <2>2. outbox' = answer \o ExecutionDeliveries \o BookUpdate \o first
                      \o Level3Executions \o Level3Deletions \o Level3Add
      BY DEF FinishOrder
    <2> HIDE DEF answer
    <2> QED
      BY <1>1, <2>1, <2>2, MessagesAreSequences, AllAreSequence
  <1> DEFINE left == remove_filled_order_owners
             owner == find_order_owner(command.id)
  <1>3. IsMap(left, OrderId, Owner) /\ DOMAIN left = DOMAIN order_owners \ FilledOrders
    BY DEF ServerInv, TypeOK, IsMap, remove_filled_order_owners, Restrict
  <1>4. owner \in Owner
    <2>1. handler \in Socket /\ client_risk_ids[handler] \in Client
      BY <1>1 DEF ServerInv, TypeOK, OneAtATime
    <2> QED
      BY <2>1 DEF find_order_owner, Owner
  <1>5. \A id \in DOMAIN left : id # command.id => id \in Booked(book)
    BY <1>3 DEF ServerInv, OwnersUnderWay, FilledOrders, TradedOrders, Booked, contains
  <1> HIDE DEF left, owner
  <1>6. /\ IsMap(order_owners', OrderId, Owner)
        /\ DOMAIN order_owners' \subseteq Booked(book)
    <2>1. CASE contains(book, command.id)
      <3>1. order_owners' = Put(left, command.id, owner)
        BY <2>1 DEF FinishOrder, left, owner
      <3> QED
        BY <1>1, <1>3, <1>4, <1>5, <2>1, <3>1 DEF Put, IsMap, Booked, contains
    <2>2. CASE ~contains(book, command.id)
      <3>1. order_owners' = Erase(left, command.id)
        BY <2>2 DEF FinishOrder, left
      <3> QED
        BY <1>3, <1>5, <3>1 DEF Erase, Restrict, IsMap
    <2> QED
      BY <2>1, <2>2
  <1> QED
    BY <1>1, <1>2, <1>6, SettledKeepsInv

LEMMA SettleNewOrderKeepsInv == ServerInv /\ SettleNewOrder => ServerInv'
  <1>1. IsSequence(<<>>)
    BY DEF IsSequence
  <1> QED
    BY <1>1, FinishKeepsInv DEF SettleNewOrder

LEMMA SettleReplaceKeepsInv == ServerInv /\ SettleReplace => ServerInv'
  <1>1. IsSequence(<<Deleted(command.id)>>)
    BY OneIsSequence
  <1> QED
    BY <1>1, FinishKeepsInv DEF SettleReplace

\* The rest of handle_cancel_order.
LEMMA SettleCancelKeepsInv == ServerInv /\ SettleCancel => ServerInv'
  <1> SUFFICES ASSUME ServerInv, SettleCancel PROVE ServerInv'
    OBVIOUS
  <1>1. Settle /\ status = "cancelled" /\ command # NoCommand
        /\ order_owners' = Erase(order_owners, command.id)
    BY DEF SettleCancel, Settle
  <1>2. IsSequence(outbox') /\ outbox' # <<>>
    <2> DEFINE answer == <<Response(handler, command.id, TRUE)>>
               deletion == <<Deleted(command.id)>>
    <2>1. IsSequence(answer) /\ answer # <<>> /\ IsSequence(BookUpdate) /\ IsSequence(deletion)
      BY OneIsSequence DEF BookUpdate
    <2>2. outbox' = (answer \o BookUpdate) \o deletion
      BY DEF SettleCancel
    <2> HIDE DEF answer, deletion
    <2>3. IsSequence(answer \o BookUpdate) /\ answer \o BookUpdate # <<>>
      BY <2>1, ConcatIsSequence
    <2> QED
      BY <2>1, <2>2, <2>3, ConcatIsSequence
  <1>3. command.type = "CancelOrder"
    BY <1>1 DEF ServerInv, OneAtATime
  <1>4. IsMap(order_owners', OrderId, Owner) /\ DOMAIN order_owners' \subseteq Booked(book)
    BY <1>1, <1>3 DEF ServerInv, TypeOK, OwnersUnderWay, Erase, Restrict, IsMap
  <1> QED
    BY <1>1, <1>2, <1>4, SettledKeepsInv

\* One send; the mutex is free when there is nothing more.
LEMMA SendKeepsInv == ServerInv /\ Send => ServerInv'
  <1> SUFFICES ASSUME ServerInv, Send PROVE ServerInv'
    OBVIOUS
  <1>1. Matching!IInv' /\ Engine!TypeOK'
    BY EngineRests, EngineStaysTyped DEF ServerInv, Send, engineVars
  <1>2. /\ outbox # <<>> /\ outbox' = Tail(outbox)
        /\ handler' = IF Len(outbox) = 1 THEN 0 ELSE handler
        /\ UNCHANGED <<engineVars, phase, sessionVars, order_owners, command, fileVars, replayed>>
    BY DEF Send
  <1>3. IsSequence(outbox') /\ (Len(outbox) = 1 <=> outbox' = <<>>)
    BY <1>2, TailIsSequence DEF ServerInv
  <1>4. command = NoCommand /\ handler # 0
    BY <1>2 DEF ServerInv, TypeOK, OneAtATime
  <1>5. TypeOK'
    BY <1>1, <1>2, <1>3, <1>4 DEF ServerInv, TypeOK, sessionVars, fileVars
  <1>6. OneAtATime'
    BY <1>2, <1>4 DEF ServerInv, OneAtATime, engineVars, sessionVars
  <1>7. OwnersUnderWay'
    BY <1>2 DEF ServerInv, OwnersUnderWay, TradedOrders, engineVars
  <1> QED
    BY <1>1, <1>3, <1>5, <1>6, <1>7 DEF ServerInv

LEMMA SwitchKeepsInv ==
    ASSUME ServerInv, NEW enabled, set_global_kill_switch(enabled)
    PROVE  ServerInv'
  <1>1. Matching!IInv' /\ Engine!TypeOK'
    BY EngineRests, EngineStaysTyped DEF ServerInv, set_global_kill_switch, engineVars
  <1>2. UNCHANGED <<engineVars, phase, sessionVars, order_owners, handlerVars, fileVars, replayed>>
    BY DEF set_global_kill_switch
  <1>3. TypeOK'
    BY <1>1, <1>2 DEF ServerInv, TypeOK, sessionVars, handlerVars, fileVars
  <1>4. IsSequence(outbox)' /\ OneAtATime' /\ OwnersUnderWay'
    BY <1>2 DEF ServerInv, OneAtATime, OwnersUnderWay, TradedOrders, engineVars, sessionVars,
                handlerVars
  <1> QED
    BY <1>1, <1>3, <1>4 DEF ServerInv

LEMMA FrontLength ==
    ASSUME NEW S, NEW s \in Seq(S), s # <<>>
    PROVE  Len(Front(s)) = Len(s) - 1
  <1> DEFINE n == Len(s) - 1
  <1>1. n \in Nat /\ 1 <= n + 1
    OBVIOUS
  <1> HIDE DEF n
  <1>2. Len(SubSeq(s, 1, n)) = n
    BY <1>1
  <1> QED
    BY <1>2 DEF Front, n

\* The process dies: sessions, owners, book and mutex are gone with it.
LEMMA CrashKeepsInv == ServerInv /\ Crash => ServerInv'
  <1> SUFFICES ASSUME ServerInv, Crash PROVE ServerInv'
    OBVIOUS
  <1>1. Matching!IInv' /\ Engine!TypeOK'
    BY EngineStartsAgain, EngineStaysTyped DEF Crash
  <1>2. /\ phase' = "dead" /\ handler' = 0 /\ command' = NoCommand /\ outbox' = <<>>
        /\ order_owners' = EmptyMap /\ client_risk_ids' = [s \in Socket |-> 0]
        /\ next_risk_client_id' = 1 /\ replayed' = 0
    BY DEF Crash
  <1>3. journal' \in Seq(Request) /\ tail' \in {"clean", "stump", "torn"}
    <2>1. journal \in Seq(Request) /\ tail \in {"clean", "stump", "torn"}
      BY DEF ServerInv, TypeOK
    <2>2. Front(journal) \in Seq(Request)
      BY <2>1 DEF Front
    <2> QED
      BY <2>1, <2>2 DEF Crash, fileVars
  <1>4. broken' \subseteq 0 .. Len(journal') - 1
    <2>1. journal \in Seq(Request) /\ broken \subseteq 0 .. Len(journal) - 1
      BY DEF ServerInv, TypeOK
    <2>2. CASE UNCHANGED fileVars
      BY <2>1, <2>2 DEF fileVars
    <2>3. CASE journal' = Front(journal) /\ broken' = broken \ {Len(journal) - 1}
      <3>1. CASE journal = <<>>
        BY <2>1, <2>3, <3>1
      <3>2. CASE journal # <<>>
        <4>1. Len(journal') = Len(journal) - 1 /\ Len(journal) \in Nat
          BY <2>1, <2>3, <3>2, FrontLength
        <4>2. ASSUME NEW i \in broken' PROVE i \in 0 .. Len(journal) - 1 /\ i # Len(journal) - 1
          BY <2>1, <2>3
        <4>3. ASSUME NEW i \in broken' PROVE i \in 0 .. Len(journal') - 1
          <5> DEFINE n == Len(journal)
          <5>1. i \in 0 .. n - 1 /\ i # n - 1 /\ n \in Nat /\ Len(journal') = n - 1
            BY <4>1, <4>2
          <5> HIDE DEF n
          <5> QED
            BY <5>1
        <4> QED
          BY <4>3
      <3> QED
        BY <3>1, <3>2
    <2> QED
      BY <2>2, <2>3 DEF Crash
  <1>5. DOMAIN order_owners' = {} /\ IsMap(order_owners', OrderId, Owner)
    BY <1>2 DEF EmptyMap, IsMap
  <1>6. Len(journal') \in Nat
    BY <1>3
  <1>7. TypeOK'
    BY <1>1, <1>2, <1>3, <1>4, <1>5, <1>6, BoundsAssumption DEF TypeOK
  <1>8. IsSequence(outbox)' /\ OneAtATime' /\ OwnersUnderWay'
    BY <1>2, <1>5 DEF OneAtATime, OwnersUnderWay, IsSequence
  <1> QED
    BY <1>1, <1>7, <1>8 DEF ServerInv

\* The steps of recovery: nobody is connected and nobody owns an order.
LEMMA RecoveryKeepsInv ==
    ASSUME ServerInv, Restart \/ ReplayRecord \/ ReplayReturns \/ ReplayMisframed \/ FinishRecovery
    PROVE  ServerInv'
  <1>1. /\ phase # "running" /\ FileAndServerUnchanged
        /\ phase' \in {"running", "recovering", "refusing"}
        /\ phase' = "running" => status' = "ready"
    BY DEF Restart, ReplayRecord, ReplayReturns, ReplayMisframed, FinishRecovery, engineVars
  <1>2. /\ handler = 0 /\ command = NoCommand /\ outbox = <<>> /\ DOMAIN order_owners = {}
        /\ UNCHANGED <<sessionVars, order_owners, handlerVars, fileVars>>
    BY <1>1 DEF ServerInv, TypeOK, OneAtATime, FileAndServerUnchanged
  <1>3. Matching!IInv' /\ replayed' \in 0 .. Len(journal)
    <2>1. CASE Restart \/ FinishRecovery
      <3>1. UNCHANGED <<engineVars, replayed>>
        BY <2>1 DEF Restart, FinishRecovery
      <3>2. UNCHANGED <<book, incoming, status>> /\ trades' \in {trades, <<>>}
        BY <3>1 DEF engineVars
      <3>3. Matching!IInv'
        BY <3>2, EngineRests DEF ServerInv
      <3> QED
        BY <3>1, <3>3 DEF ServerInv, TypeOK
    <2>2. CASE ReplayReturns
      BY <2>2, EngineWorks DEF ServerInv, TypeOK, ReplayReturns
    <2>3. CASE ReplayRecord
      <3> DEFINE record == journal[replayed + 1]
      <3>1. replayed < Len(journal) /\ replayed' = replayed + 1 /\ Called(record)
        BY <2>3 DEF ReplayRecord, Called
      <3>2. record \in Request /\ replayed' \in 0 .. Len(journal)
        BY <3>1 DEF ServerInv, TypeOK
      <3> HIDE DEF record
      <3> QED
        BY <3>1, <3>2, EngineIsCalled DEF ServerInv
    <2>4. CASE ReplayMisframed
      <3>1. UNCHANGED <<book, incoming, status>> /\ trades' \in {trades, <<>>}
        BY <2>4 DEF ReplayMisframed, engineVars
      <3>2. Matching!IInv'
        BY <3>1, EngineRests DEF ServerInv
      <3>3. replayed \in Nat /\ FalseLength \in Nat
            /\ replayed' \in replayed + FalseLength .. Len(journal)
        BY <2>4, BoundsAssumption DEF ReplayMisframed, ServerInv, TypeOK
      <3> QED
        BY <3>2, <3>3
    <2> QED
      BY <2>1, <2>2, <2>3, <2>4
  <1>4. Engine!TypeOK'
    BY <1>3, EngineStaysTyped
  <1>5. TypeOK'
    BY <1>1, <1>2, <1>3, <1>4 DEF ServerInv, TypeOK, sessionVars, handlerVars, fileVars
  <1>6. IsSequence(outbox)' /\ OneAtATime' /\ OwnersUnderWay'
    BY <1>1, <1>2 DEF ServerInv, OneAtATime, OwnersUnderWay, handlerVars
  <1> QED
    BY <1>3, <1>5, <1>6 DEF ServerInv

LEMMA NextKeepsServerInv == ServerInv /\ [Next]_vars => ServerInv'
  <1> SUFFICES ASSUME ServerInv, [Next]_vars PROVE ServerInv'
    OBVIOUS
  <1>1. CASE Connect
    BY <1>1, ConnectKeepsInv
  <1>2. ASSUME NEW s \in Socket, Disconnect(s) PROVE ServerInv'
    BY <1>2, DisconnectKeepsInv
  <1>3. ASSUME NEW s \in Socket, HandleMalformed(s) PROVE ServerInv'
    BY <1>3, MalformedKeepsInv
  <1>4. ASSUME NEW s \in Socket, NEW request \in Request,
               \/ handle_new_order(s, request)
               \/ handle_cancel_order(s, request)
               \/ handle_replace_order(s, request)
        PROVE  ServerInv'
    BY <1>4, HandlersKeepInv
  <1>5. CASE EngineStep
    BY <1>5, EngineStepKeepsInv
  <1>6. CASE SettleNewOrder \/ SettleReplace \/ SettleCancel
    BY <1>6, SettleNewOrderKeepsInv, SettleReplaceKeepsInv, SettleCancelKeepsInv
  <1>7. CASE Send
    BY <1>7, SendKeepsInv
  <1>8. ASSUME NEW enabled \in BOOLEAN, set_global_kill_switch(enabled) PROVE ServerInv'
    BY <1>8, SwitchKeepsInv
  <1>9. CASE Crash
    BY <1>9, CrashKeepsInv
  <1>10. CASE Restart \/ ReplayRecord \/ ReplayReturns \/ ReplayMisframed \/ FinishRecovery
    BY <1>10, RecoveryKeepsInv
  <1>11. CASE UNCHANGED vars
    <2>1. UNCHANGED <<engineVars, phase, sessionVars, order_owners, handlerVars, fileVars, replayed>>
      BY <1>11 DEF vars
    <2>2. Matching!IInv' /\ Engine!TypeOK'
      BY <2>1, EngineRests, EngineStaysTyped DEF ServerInv, engineVars
    <2>3. TypeOK'
      BY <2>1, <2>2 DEF ServerInv, TypeOK, sessionVars, handlerVars, fileVars
    <2>4. IsSequence(outbox)' /\ OneAtATime' /\ OwnersUnderWay'
      BY <2>1 DEF ServerInv, OneAtATime, OwnersUnderWay, TradedOrders, engineVars,
                  sessionVars, handlerVars
    <2> QED
      BY <2>2, <2>3, <2>4 DEF ServerInv
  <1> QED
    BY <1>1, <1>2, <1>3, <1>4, <1>5, <1>6, <1>7, <1>8, <1>9, <1>10, <1>11 DEF Next

LEMMA ServerInvariant == Spec => []ServerInv
  BY InitServerInv, NextKeepsServerInv, PTL DEF Spec

-----------------------------------------------------------------------------
(* The risk engine, between the calls that the server makes to it *)

\* A request is being matched, or has been and is about to be settled.
AtWork == command # NoCommand /\ command.type # "CancelOrder"

\* The engine has thrown: the command comes to no end.
Failed == command # NoCommand /\ status \in {"not_found", "logic_error", "invalid_argument"}

\* The risk engine as it will be when it has been told what the engine has done so far.
RiskNow ==
    IF AtWork THEN RiskAfterTrades
    ELSE IF command = NoCommand THEN risk
    ELSE Risk!on_order_cancelled(risk,
             Key(order_owners[command.id].risk_client_id, command.id))

\* The owned orders in the book but the one that the command is about.
RestingNow ==
    IF AtWork THEN Restrict(OwnedOrders, {k \in DOMAIN OwnedOrders : k.id # command.id})
    ELSE OwnedOrders

CommandNow ==
    IF AtWork
    THEN [key |-> Key(client_risk_ids[handler], command.id), side |-> incoming.side,
          may_rest |-> may_rest(incoming), remaining |-> incoming.remaining_quantity]
    ELSE NoCommand

\* With these the server makes the steps of RiskEngine, which is proved about in
\* RiskEngineProofs.
Calls == INSTANCE RiskEngineProofs WITH
    Client <- Client, NoClient <- 0, Symbol <- {TheSymbol},
    Traded <- [c \in Client |-> {TheSymbol}],
    risk <- RiskNow, resting <- RestingNow, command <- CommandNow

LEMMA CallsAssumptions ==
    /\ {MaxOrderQuantity, MaxOrderNotional, MaxOpenOrders, MaxOpenQuantity, MaxPosition}
          \subseteq Nat
    /\ CounterMax \in Nat /\ PositionMax \in Nat
    /\ MaxOpenQuantity < CounterMax
    /\ MaxPosition <= PositionMax /\ 2 * PositionMax < CounterMax
    /\ MaxQuantity \in Nat /\ Price \subseteq Int
    /\ 0 \notin Client
    /\ [c \in Client |-> {TheSymbol}] \in [Client -> SUBSET {TheSymbol}]
    /\ NoCommand \notin [key : Calls!OrderKey, side : Calls!Side, may_rest : BOOLEAN,
                         remaining : Calls!Counter]
  <1>1. /\ {MaxOrderQuantity, MaxOrderNotional, MaxOpenOrders, MaxOpenQuantity, MaxPosition}
             \subseteq Nat
        /\ CounterMax \in Nat /\ PositionMax \in Nat
        /\ MaxOpenQuantity < CounterMax
        /\ MaxPosition <= PositionMax /\ 2 * PositionMax < CounterMax
    BY LimitsAssumption
  <1>2. MaxQuantity \in Nat /\ Price \subseteq Int
    BY EngineAssumption, PriceAssumption, ModulusAssumption
  <1>3. 0 \notin Client
    BY BoundsAssumption DEF Client
  <1>4. NoCommand \notin [key : Calls!OrderKey, side : Calls!Side, may_rest : BOOLEAN,
                          remaining : Calls!Counter]
    BY LimitsAssumption DEF Calls!OrderKey, Risk!OrderKey, Calls!Side, Side, Calls!Counter,
                            Risk!Counter
  <1> QED
    BY <1>1, <1>2, <1>3, <1>4

\* The functions of the risk engine that the server calls are those of RiskEngineProofs.
LEMMA RiskIsCalls ==
    /\ Risk!EmptyRisk = Calls!EmptyRisk
    /\ \A r, k : Risk!on_order_cancelled(r, k) = Calls!on_order_cancelled(r, k)
    /\ \A r, k, d, q : Risk!on_order_resting(r, k, d, q) = Calls!on_order_resting(r, k, d, q)
    /\ \A r, b, s, q : Risk!on_trade(r, b, s, q) = Calls!on_trade(r, b, s, q)
    /\ \A r, c, s, d, m, p, q : Risk!check_new_order(r, c, s, d, m, p, q)
                                   <=> Calls!check_new_order(r, c, s, d, m, p, q)
    /\ \A r, k, p, q : Risk!check_replace(r, k, p, q) <=> Calls!check_replace(r, k, p, q)
  <1>1. Risk!EmptyRisk = Calls!EmptyRisk
    BY DEF Risk!EmptyRisk, Calls!EmptyRisk, Risk!EmptyMap, Calls!EmptyMap
  <1>2. /\ \A x, y : Risk!saturating_add(x, y) = Calls!saturating_add(x, y)
        /\ \A x, y : Risk!MinusOrZero(x, y) = Calls!MinusOrZero(x, y)
        /\ \A x : Risk!absolute(x) = Calls!absolute(x)
        /\ \A r, c : Risk!Killed(r, c) <=> Calls!Killed(r, c)
    BY DEF Risk!saturating_add, Calls!saturating_add, Risk!MinusOrZero, Calls!MinusOrZero,
           Risk!absolute, Calls!absolute, Risk!Killed, Calls!Killed
  <1>3. \A p, q : Risk!check_common_order_limits(p, q) <=> Calls!check_common_order_limits(p, q)
    BY <1>2 DEF Risk!check_common_order_limits, Calls!check_common_order_limits
  <1>4. \A p, d, q, b, s : Risk!position_limit_exceeded(p, d, q, b, s)
                              <=> Calls!position_limit_exceeded(p, d, q, b, s)
    BY <1>2 DEF Risk!position_limit_exceeded, Calls!position_limit_exceeded
  <1>5. \A r, k, c, s, w : Risk!Update(r, k, c, s, w) = Calls!Update(r, k, c, s, w)
    BY DEF Risk!Update, Calls!Update
  <1>6. \A r, k, d, q, n, w : Risk!Release(r, k, d, q, n, w) = Calls!Release(r, k, d, q, n, w)
    BY <1>2, <1>5 DEF Risk!Release, Calls!Release
  <1>7. /\ \A f, k : Risk!Erase(f, k) = Calls!Erase(f, k)
        /\ \A f, k, v : Risk!Put(f, k, v) = Calls!Put(f, k, v)
    BY DEF Risk!Erase, Calls!Erase, Risk!Put, Calls!Put, Risk!Restrict, Calls!Restrict
  <1>8. \A r, k : Risk!erase_working_order(r, k) = Calls!erase_working_order(r, k)
    BY <1>6, <1>7 DEF Risk!erase_working_order, Calls!erase_working_order
  <1>9. \A r, k, d, q : Risk!Book(r, k, d, q) = Calls!Book(r, k, d, q)
    BY <1>2, <1>5, <1>7 DEF Risk!Book, Calls!Book
  <1>10. \A w, k, q : Risk!Left(w, k, q) = Calls!Left(w, k, q)
    BY <1>7 DEF Risk!Left, Calls!Left
  <1>11. \A r, k, q : Risk!reduce_working_order(r, k, q) = Calls!reduce_working_order(r, k, q)
    BY <1>6, <1>10 DEF Risk!reduce_working_order, Calls!reduce_working_order
  <1>12. \A p, d, q : Risk!apply_position_delta(p, d, q) = Calls!apply_position_delta(p, d, q)
    BY DEF Risk!apply_position_delta, Calls!apply_position_delta
  <1>13. \A r, k, d, q : Risk!TradeSide(r, k, d, q) = Calls!TradeSide(r, k, d, q)
    BY <1>11, <1>12 DEF Risk!TradeSide, Calls!TradeSide
  <1>14. \A r, b, s, q : Risk!on_trade(r, b, s, q) = Calls!on_trade(r, b, s, q)
    BY <1>13 DEF Risk!on_trade, Calls!on_trade
  <1>15. /\ \A r, k : Risk!on_order_cancelled(r, k) = Calls!on_order_cancelled(r, k)
         /\ \A r, k, d, q : Risk!on_order_resting(r, k, d, q) = Calls!on_order_resting(r, k, d, q)
    BY <1>8, <1>9 DEF Risk!on_order_cancelled, Calls!on_order_cancelled, Risk!on_order_resting,
                      Calls!on_order_resting
  <1>16. \A r, c, s, d, m, p, q : Risk!check_new_order(r, c, s, d, m, p, q)
                                     <=> Calls!check_new_order(r, c, s, d, m, p, q)
    BY <1>2, <1>3, <1>4 DEF Risk!check_new_order, Calls!check_new_order
  <1>17. \A r, k, p, q : Risk!check_replace(r, k, p, q) <=> Calls!check_replace(r, k, p, q)
    BY <1>2, <1>3, <1>4 DEF Risk!check_replace, Calls!check_replace
  <1> QED
    BY <1>1, <1>14, <1>15, <1>16, <1>17

\* A step that the risk engine does not see.
LEMMA StutterKeepsRisk ==
    ASSUME Calls!RiskInv, RiskNow' = RiskNow, RestingNow' = RestingNow, CommandNow' = CommandNow
    PROVE  Calls!RiskInv'
  BY CallsAssumptions, Calls!NextRisk DEF Calls!vars

-----------------------------------------------------------------------------
(* The risk engine after the trades of a call *)

\* One trade reported, where the orders belong to who.
Reported(who, r, t) ==
    Calls!on_trade(r, Key(who[t.buy_order_id], t.buy_order_id),
                   Key(who[t.sell_order_id], t.sell_order_id), t.quantity)

\* h[n] is what r has become after the first n trades.
IsPath(who, r, ts, h) ==
    h = [n \in 0 .. Len(ts) |-> IF n = 0 THEN r ELSE Reported(who, h[n - 1], ts[n])]

\* Any non-empty set of numbers has a smallest.
LEMMA Smallest ==
    ASSUME NEW T \in SUBSET Nat, T # {}
    PROVE  \E n \in T : \A m \in T : n <= m
  <1> DEFINE R == OpToRel(<, Nat)
  <1>1. IsWellFoundedOn(R, Nat)
    BY NatLessThanWellFounded, Zenon
  <1>2. \A m, n \in Nat : <<m, n>> \in R <=> m < n
    BY DEF OpToRel
  <1> HIDE DEF R
  <1>3. PICK n \in T : \A m \in T : ~(<<m, n>> \in R)
    BY <1>1, WFMin, Zenon
  <1>4. \A m \in T : ~(m < n)
    BY <1>2, <1>3, Zenon
  <1> QED
    BY <1>4

\* Two paths agree as far as the trades are the same.
LEMMA PathsAgree ==
    ASSUME NEW who, NEW r, NEW ts \in Seq(Engine!Trade), NEW us \in Seq(Engine!Trade),
           NEW h, NEW g, IsPath(who, r, ts, h), IsPath(who, r, us, g),
           Len(ts) <= Len(us), \A n \in 1 .. Len(ts) : ts[n] = us[n]
    PROVE  \A n \in 0 .. Len(ts) : h[n] = g[n]
  <1> DEFINE T == {n \in 0 .. Len(ts) : h[n] # g[n]}
  <1> SUFFICES ASSUME T # {} PROVE FALSE
    OBVIOUS
  <1>0. Len(ts) \in Nat /\ Len(us) \in Nat
    OBVIOUS
  <1>1. PICK n \in T : \A m \in T : n <= m
    <2>1. T \in SUBSET Nat
      BY <1>0
    <2> HIDE DEF T
    <2> QED
      BY <2>1, Smallest
  <1>2. n \in 0 .. Len(ts) /\ n \in 0 .. Len(us) /\ h[n] # g[n]
    BY <1>0, <1>1
  <1>3. h[n] = (IF n = 0 THEN r ELSE Reported(who, h[n - 1], ts[n]))
    BY <1>2, Zenon DEF IsPath
  <1>4. g[n] = (IF n = 0 THEN r ELSE Reported(who, g[n - 1], us[n]))
    BY <1>2 DEF IsPath
  <1>5. CASE n = 0
    BY <1>2, <1>3, <1>4, <1>5
  <1>6. CASE n # 0
    <2>1. n - 1 \in 0 .. Len(ts) /\ ~(n <= n - 1) /\ n \in 1 .. Len(ts)
      BY <1>0, <1>2, <1>6
    <2>2. h[n - 1] = g[n - 1]
      BY <1>1, <2>1
    <2> QED
      BY <1>2, <1>3, <1>4, <1>6, <2>1, <2>2
  <1> QED
    BY <1>5, <1>6

\* One trade more.
LEMMA PathGrows ==
    ASSUME NEW who, NEW r, NEW ts \in Seq(Engine!Trade), NEW t \in Engine!Trade,
           NEW h, IsPath(who, r, ts, h)
    PROVE  LET g == [n \in 0 .. Len(ts) + 1 |->
                        IF n <= Len(ts) THEN h[n] ELSE Reported(who, h[Len(ts)], t)]
           IN  IsPath(who, r, Append(ts, t), g)
  <1> DEFINE us == Append(ts, t)
             g == [n \in 0 .. Len(ts) + 1 |->
                      IF n <= Len(ts) THEN h[n] ELSE Reported(who, h[Len(ts)], t)]
  <1>1. /\ Len(ts) \in Nat /\ Len(us) = Len(ts) + 1 /\ us[Len(ts) + 1] = t
        /\ \A n \in 1 .. Len(ts) : us[n] = ts[n]
    OBVIOUS
  <1> HIDE DEF us
  <1>2. ASSUME NEW n \in 0 .. Len(us)
        PROVE  g[n] = IF n = 0 THEN r ELSE Reported(who, g[n - 1], us[n])
    <2>1. CASE n <= Len(ts)
      <3>1. n \in 0 .. Len(ts) /\ g[n] = h[n]
        BY <1>1, <2>1
      <3>2. h[n] = IF n = 0 THEN r ELSE Reported(who, h[n - 1], ts[n])
        BY <3>1, Zenon DEF IsPath
      <3>3. n # 0 => n - 1 \in 0 .. Len(ts) /\ g[n - 1] = h[n - 1] /\ us[n] = ts[n]
        BY <1>1, <3>1
      <3> QED
        BY <3>1, <3>2, <3>3
    <2>2. CASE ~(n <= Len(ts))
      <3>1. n = Len(ts) + 1 /\ n # 0 /\ n - 1 = Len(ts)
        BY <1>1, <2>2
      <3>2. g[n] = Reported(who, h[Len(ts)], t) /\ g[n - 1] = h[Len(ts)]
        BY <1>1, <3>1
      <3> QED
        BY <1>1, <3>1, <3>2
    <2> QED
      BY <2>1, <2>2
  <1>3. g = [n \in 0 .. Len(us) |-> g[n]]
    BY <1>1
  <1> HIDE DEF g
  <1>4. IsPath(who, r, us, g)
    BY <1>2, <1>3 DEF IsPath
  <1> QED
    BY <1>4 DEF us, g

LEMMA PathExists ==
    ASSUME NEW who, NEW r, NEW ts \in Seq(Engine!Trade)
    PROVE  \E h : IsPath(who, r, ts, h)
  <1> DEFINE T == {n \in Nat : \E us \in Seq(Engine!Trade) :
                                  Len(us) = n /\ ~\E h : IsPath(who, r, us, h)}
  <1> SUFFICES ASSUME T # {} PROVE FALSE
    OBVIOUS
  <1>1. PICK n \in T : \A m \in T : n <= m
    <2>1. T \in SUBSET Nat
      OBVIOUS
    <2> HIDE DEF T
    <2> QED
      BY <2>1, Smallest
  <1>2. PICK us \in Seq(Engine!Trade) : Len(us) = n /\ ~\E h : IsPath(who, r, us, h)
    BY <1>1
  <1>3. CASE n = 0
    <2> DEFINE h == [k \in 0 .. 0 |-> r]
    <2>1. h = [k \in 0 .. Len(us) |-> IF k = 0 THEN r ELSE Reported(who, h[k - 1], us[k])]
      BY <1>2, <1>3
    <2> QED
      BY <1>2, <2>1, Zenon DEF IsPath
  <1>4. CASE n # 0
    <2> DEFINE ts0 == [k \in 1 .. n - 1 |-> us[k]]
    <2>1. /\ n - 1 \in Nat /\ ts0 \in Seq(Engine!Trade) /\ Len(ts0) = n - 1
          /\ us[n] \in Engine!Trade /\ us = Append(ts0, us[n])
      BY <1>1, <1>2, <1>4
    <2> HIDE DEF ts0
    <2>2. PICK h : IsPath(who, r, ts0, h)
      BY <1>1, <2>1
    <2> DEFINE g == [k \in 0 .. Len(ts0) + 1 |->
                        IF k <= Len(ts0) THEN h[k] ELSE Reported(who, h[Len(ts0)], us[n])]
    <2>3. IsPath(who, r, Append(ts0, us[n]), g)
      BY <2>1, <2>2, PathGrows
    <2> HIDE DEF g
    <2> QED
      BY <1>2, <2>1, <2>3, Zenon
  <1> QED
    BY <1>3, <1>4

\* The end of the path.
After(who, r, ts) == (CHOOSE h : IsPath(who, r, ts, h))[Len(ts)]

LEMMA AfterIs ==
    ASSUME NEW who, NEW r, NEW ts \in Seq(Engine!Trade), NEW h, IsPath(who, r, ts, h)
    PROVE  After(who, r, ts) = h[Len(ts)]
  <1> DEFINE g == CHOOSE g : IsPath(who, r, ts, g)
  <1>1. IsPath(who, r, ts, g)
    OBVIOUS
  <1>2. Len(ts) \in 0 .. Len(ts)
    OBVIOUS
  <1> HIDE DEF g
  <1>3. g[Len(ts)] = h[Len(ts)]
    BY <1>1, <1>2, PathsAgree
  <1> QED
    BY <1>3 DEF After, g

LEMMA AfterNone ==
    ASSUME NEW who, NEW r
    PROVE  After(who, r, <<>>) = r
  <1>1. <<>> \in Seq(Engine!Trade) /\ Len(<<>>) = 0
    OBVIOUS
  <1>2. PICK h : IsPath(who, r, <<>>, h)
    BY <1>1, PathExists, Zenon
  <1>3. h[0] = r
    BY <1>1, <1>2 DEF IsPath
  <1> QED
    BY <1>1, <1>2, <1>3, AfterIs, Zenon

LEMMA AfterOneMore ==
    ASSUME NEW who, NEW r, NEW ts \in Seq(Engine!Trade), NEW t \in Engine!Trade
    PROVE  After(who, r, Append(ts, t)) = Reported(who, After(who, r, ts), t)
  <1>1. PICK h : IsPath(who, r, ts, h)
    BY PathExists, Zenon
  <1> DEFINE g == [n \in 0 .. Len(ts) + 1 |->
                      IF n <= Len(ts) THEN h[n] ELSE Reported(who, h[Len(ts)], t)]
  <1>2. IsPath(who, r, Append(ts, t), g)
    BY <1>1, PathGrows
  <1>3. /\ Append(ts, t) \in Seq(Engine!Trade) /\ Len(Append(ts, t)) = Len(ts) + 1
        /\ Len(ts) \in Nat
    OBVIOUS
  <1>4. g[Len(ts) + 1] = Reported(who, h[Len(ts)], t)
    BY <1>3
  <1> HIDE DEF g
  <1> QED
    BY <1>1, <1>2, <1>3, <1>4, AfterIs, Zenon

\* Whom the orders belong to, for the command.
ClientOf == [id \in OrderId |-> find_order_owner(id).risk_client_id]

LEMMA RiskAfterTradesIs ==
    ASSUME trades \in Seq(Engine!Trade)
    PROVE  RiskAfterTrades = After(ClientOf, risk, trades)
  <1>1. PICK h : IsPath(ClientOf, risk, trades, h)
    BY PathExists, Zenon
  <1>2. \A n \in 1 .. Len(trades) : \A r :
           TradeReported(r, trades[n]) = Reported(ClientOf, r, trades[n])
    <2> SUFFICES ASSUME NEW n \in 1 .. Len(trades), NEW r
                 PROVE  TradeReported(r, trades[n]) = Reported(ClientOf, r, trades[n])
      OBVIOUS
    <2>1. trades[n].buy_order_id \in OrderId /\ trades[n].sell_order_id \in OrderId
      <3>1. trades[n] \in Engine!Trade
        OBVIOUS
      <3> QED
        BY <3>1 DEF Engine!Trade
    <2> QED
      BY <2>1, RiskIsCalls DEF TradeReported, Reported, ClientOf
  <1> DEFINE F(a) == [n \in 0 .. Len(trades) |->
                         IF n = 0 THEN risk ELSE TradeReported(a[n - 1], trades[n])]
  <1>3. \A a : F(a) = [n \in 0 .. Len(trades) |->
                         IF n = 0 THEN risk ELSE Reported(ClientOf, a[n - 1], trades[n])]
    BY <1>2
  <1>4. \A a : a = F(a) <=> IsPath(ClientOf, risk, trades, a)
    BY <1>3, Zenon DEF IsPath
  <1> DEFINE f == CHOOSE a : a = F(a)
  <1>5. f = F(f)
    BY <1>1, <1>4, Zenon
  <1>6. RiskAfterTrades = f[Len(trades)]
    BY DEF RiskAfterTrades
  <1> HIDE DEF F, f
  <1> QED
    BY <1>4, <1>5, <1>6, AfterIs

-----------------------------------------------------------------------------
(* The owned orders, read off the book *)

\* The orders I as the risk engine names them: who is behind each, and what w says of it.
View(I, who, w) ==
    [k \in {Key(who[id], id) : id \in I} |->
        [side |-> w[k.id].side, remaining_quantity |-> w[k.id].left]]

LEMMA KeyFields ==
    ASSUME NEW c, NEW id
    PROVE  /\ Key(c, id).client = c /\ Key(c, id).symbol = TheSymbol /\ Key(c, id).id = id
           /\ Key(c, id) = [client |-> c, symbol |-> TheSymbol, id |-> id]
  BY DEF Key

LEMMA ViewAt ==
    ASSUME NEW I, NEW who, NEW w, NEW id \in I
    PROVE  /\ Key(who[id], id) \in DOMAIN View(I, who, w)
           /\ View(I, who, w)[Key(who[id], id)]
                 = [side |-> w[id].side, remaining_quantity |-> w[id].left]
  <1>1. Key(who[id], id) \in DOMAIN View(I, who, w) /\ Key(who[id], id).id = id
    BY KeyFields DEF View
  <1> QED
    BY <1>1 DEF View

\* A function that has the keys and the values of a view is that view.
LEMMA IsView ==
    ASSUME NEW I, NEW who, NEW w, NEW f, f = [k \in DOMAIN f |-> f[k]],
           DOMAIN f = {Key(who[id], id) : id \in I},
           \A id \in I : f[Key(who[id], id)]
                            = [side |-> w[id].side, remaining_quantity |-> w[id].left]
    PROVE  f = View(I, who, w)
  <1>1. \A k \in DOMAIN f : f[k] = [side |-> w[k.id].side, remaining_quantity |-> w[k.id].left]
    <2> SUFFICES ASSUME NEW id \in I
                 PROVE  LET k == Key(who[id], id)
                        IN  f[k] = [side |-> w[k.id].side, remaining_quantity |-> w[k.id].left]
      OBVIOUS
    <2> QED
      BY KeyFields
  <1>2. f = [k \in {Key(who[id], id) : id \in I} |->
                [side |-> w[k.id].side, remaining_quantity |-> w[k.id].left]]
    BY <1>1, Zenon
  <1> QED
    BY <1>2 DEF View

\* Views of the same orders.
LEMMA ViewAgree ==
    ASSUME NEW I, NEW who, NEW w, NEW who2, NEW w2,
           \A id \in I : /\ who2[id] = who[id]
                         /\ w2[id].side = w[id].side /\ w2[id].left = w[id].left
    PROVE  View(I, who2, w2) = View(I, who, w)
  <1> DEFINE f == View(I, who2, w2)
  <1>1. f = [k \in DOMAIN f |-> f[k]]
    BY DEF View
  <1>2. DOMAIN f = {Key(who[id], id) : id \in I}
    BY DEF View
  <1>3. \A id \in I : f[Key(who[id], id)]
                         = [side |-> w[id].side, remaining_quantity |-> w[id].left]
    BY ViewAt
  <1> HIDE DEF f
  <1> QED
    BY <1>1, <1>2, <1>3, IsView DEF f

\* An order leaves.
LEMMA ViewLess ==
    ASSUME NEW I, NEW who, NEW w, NEW id \in I
    PROVE  Calls!Erase(View(I, who, w), Key(who[id], id)) = View(I \ {id}, who, w)
  <1> DEFINE v == View(I, who, w)
             f == Calls!Erase(v, Key(who[id], id))
  <1>1. f = [k \in DOMAIN f |-> f[k]] /\ DOMAIN f = DOMAIN v \ {Key(who[id], id)}
        /\ \A k \in DOMAIN f : f[k] = v[k]
    BY DEF Calls!Erase, Calls!Restrict
  <1>2. \A j \in I : Key(who[j], j) = Key(who[id], id) <=> j = id
    BY KeyFields
  <1>3. DOMAIN v = {Key(who[j], j) : j \in I}
    BY DEF View
  <1>4. \A j \in I : v[Key(who[j], j)]
                         = [side |-> w[j].side, remaining_quantity |-> w[j].left]
    BY ViewAt
  <1> HIDE DEF v, f
  <1>5. DOMAIN f = {Key(who[j], j) : j \in I \ {id}}
    BY <1>1, <1>2, <1>3
  <1>6. \A j \in I \ {id} : f[Key(who[j], j)]
                         = [side |-> w[j].side, remaining_quantity |-> w[j].left]
    BY <1>1, <1>4, <1>5
  <1> QED
    BY <1>1, <1>5, <1>6, IsView DEF v, f

\* An order joins.
LEMMA ViewMore ==
    ASSUME NEW I, NEW who, NEW w, NEW id, id \notin I
    PROVE  Calls!Put(View(I, who, w), Key(who[id], id),
                     [side |-> w[id].side, remaining_quantity |-> w[id].left])
              = View(I \cup {id}, who, w)
  <1> DEFINE v == View(I, who, w)
             e == [side |-> w[id].side, remaining_quantity |-> w[id].left]
             f == Calls!Put(v, Key(who[id], id), e)
  <1>1. /\ f = [k \in DOMAIN f |-> f[k]] /\ DOMAIN f = DOMAIN v \cup {Key(who[id], id)}
        /\ \A k \in DOMAIN f : f[k] = IF k = Key(who[id], id) THEN e ELSE v[k]
    BY DEF Calls!Put
  <1>2. \A j \in I : Key(who[j], j) # Key(who[id], id)
    BY KeyFields
  <1>3. DOMAIN v = {Key(who[j], j) : j \in I}
    BY DEF View
  <1>4. \A j \in I : v[Key(who[j], j)]
                         = [side |-> w[j].side, remaining_quantity |-> w[j].left]
    BY ViewAt
  <1> HIDE DEF v, f
  <1>5. DOMAIN f = {Key(who[j], j) : j \in I \cup {id}}
    BY <1>1, <1>3
  <1>6. ASSUME NEW j \in I \cup {id}
        PROVE  f[Key(who[j], j)] = [side |-> w[j].side, remaining_quantity |-> w[j].left]
    <2>1. CASE j = id
      BY <1>1, <1>5, <2>1
    <2>2. CASE j # id
      BY <1>1, <1>2, <1>4, <1>5, <2>2
    <2> QED
      BY <2>1, <2>2
  <1> QED
    BY <1>1, <1>5, <1>6, IsView DEF v, f

\* An order has less left.
LEMMA ViewShrinks ==
    ASSUME NEW I, NEW who, NEW w, NEW id \in I, NEW q, NEW w2,
           \A j \in I : w2[j].side = w[j].side,
           \A j \in I : w2[j].left = IF j = id THEN w[j].left - q ELSE w[j].left
    PROVE  [View(I, who, w) EXCEPT ![Key(who[id], id)].remaining_quantity = @ - q]
              = View(I, who, w2)
  <1> DEFINE v == View(I, who, w)
             f == [v EXCEPT ![Key(who[id], id)].remaining_quantity = @ - q]
  <1>2. \A j \in I : Key(who[j], j) = Key(who[id], id) <=> j = id
    BY KeyFields
  <1>3. DOMAIN v = {Key(who[j], j) : j \in I}
    BY DEF View
  <1>4. \A j \in I : v[Key(who[j], j)]
                         = [side |-> w[j].side, remaining_quantity |-> w[j].left]
    BY ViewAt
  <1> HIDE DEF v
  <1>1. /\ f = [k \in DOMAIN f |-> f[k]] /\ DOMAIN f = DOMAIN v
        /\ \A k \in DOMAIN v :
              f[k] = IF k = Key(who[id], id)
                     THEN [v[k] EXCEPT !.remaining_quantity = @ - q] ELSE v[k]
    OBVIOUS
  <1> HIDE DEF f
  <1>6. ASSUME NEW j \in I
        PROVE  f[Key(who[j], j)] = [side |-> w2[j].side, remaining_quantity |-> w2[j].left]
    <2>1. CASE j = id
      <3>1. f[Key(who[id], id)]
               = [v[Key(who[id], id)] EXCEPT !.remaining_quantity = @ - q]
        BY <1>1, <1>3
      <3>2. v[Key(who[id], id)] = [side |-> w[id].side, remaining_quantity |-> w[id].left]
        BY <1>4
      <3>3. w2[id].side = w[id].side /\ w2[id].left = w[id].left - q
        OBVIOUS
      <3> QED
        BY <2>1, <3>1, <3>2, <3>3
    <2>2. CASE j # id
      BY <1>1, <1>2, <1>3, <1>4, <2>2, Zenon
    <2> QED
      BY <2>1, <2>2
  <1> QED
    BY <1>1, <1>3, <1>6, IsView DEF v, f

\* What the index and the lists say of an order is what OrderOf finds.
LEMMA OrderOfIs ==
    ASSUME NEW b, Matching!WellFormed(b), NEW id \in Booked(b)
    PROVE  /\ OrderOf(b, id).side = Matching!WaitingIn(b)[id].side
           /\ OrderOf(b, id).price = Matching!WaitingIn(b)[id].price
           /\ OrderOf(b, id).remaining_quantity = Matching!WaitingIn(b)[id].left
           /\ OrderOf(b, id).id = id
           /\ OrderOf(b, id).side \in Side
           /\ OrderOf(b, id).remaining_quantity \in 1 .. QuantityModulus - 1
  <1>1. PICK s \in Matching!Side, p \in Price :
           \E i \in DOMAIN Matching!OrdersAt(b, s, p) : Matching!OrdersAt(b, s, p)[i].id = id
    BY MatchingAssumptions, Matching!PlaceExists DEF Booked
  <1> DEFINE line == Matching!OrdersAt(b, s, p)
  <1>2. PICK i \in DOMAIN line : line[i].id = id
    BY <1>1
  <1>3. /\ b.order_locations[id] = [side |-> s, price |-> p]
        /\ Matching!WaitingIn(b)[id] = [side |-> s, price |-> p,
                                        left |-> line[i].remaining_quantity]
    BY <1>2, MatchingAssumptions, Matching!PlaceIs DEF Matching!Stands, Matching!Seen
  <1>4. /\ \A j \in DOMAIN line : line[j].id = id => j = i
        /\ line[i].side = s /\ line[i].price = p /\ line[i].remaining_quantity > 0
    <2>1. Matching!IndexConsistent(b) /\ Matching!OrdersRestable(b)
      BY DEF Matching!WellFormed
    <2>2. Matching!InPlace(b, s, p, i)
      BY <2>1, MatchingAssumptions, Matching!OrdersInPlace
    <2> QED
      BY <1>2, <2>2 DEF Matching!InPlace
  <1>5. line[i] \in Matching!Order
    BY <1>2, MatchingAssumptions, Matching!OrdersAtTyped DEF Matching!WellFormed
  <1>6. b.levels[s][p].orders = line
    BY <1>2 DEF Matching!OrdersAt
  <1>7. OrderOf(b, id) = line[i]
    <2> HIDE DEF line
    <2>1. OrderOf(b, id) = CHOOSE o \in Range(line) : o.id = id
      BY <1>3, <1>6 DEF OrderOf
    <2>2. \A o \in Range(line) : o.id = id => o = line[i]
      BY <1>4 DEF Range
    <2>3. line[i] \in Range(line)
      BY DEF Range
    <2> QED
      BY <1>2, <2>1, <2>2, <2>3
  <1>8. line[i].remaining_quantity \in 1 .. QuantityModulus - 1 /\ line[i].side \in Side
    BY <1>4, <1>5, ModulusAssumption DEF Matching!Order, Matching!Quantity, Matching!Side, Side
  <1> QED
    BY <1>2, <1>3, <1>4, <1>7, <1>8

\* The orders that rest for the risk engine, and who owns them.
IdsNow == (DOMAIN order_owners \cap Booked(book)) \ (IF AtWork THEN {command.id} ELSE {})
WhoNow == [id \in DOMAIN order_owners |-> order_owners[id].risk_client_id]

LEMMA RestingIs ==
    Matching!WellFormed(book) =>
        RestingNow = View(IdsNow, WhoNow, Matching!WaitingIn(book))
  <1> SUFFICES ASSUME Matching!WellFormed(book)
               PROVE  RestingNow = View(IdsNow, WhoNow, Matching!WaitingIn(book))
    OBVIOUS
  <1> DEFINE w == Matching!WaitingIn(book)
             owned == DOMAIN order_owners \cap Booked(book)
  <1>0. \A id \in owned : WhoNow[id] = order_owners[id].risk_client_id
    BY DEF WhoNow
  <1>1. /\ OwnedOrders = [k \in DOMAIN OwnedOrders |-> OwnedOrders[k]]
        /\ DOMAIN OwnedOrders = {Key(WhoNow[id], id) : id \in owned}
    BY <1>0 DEF OwnedOrders
  <1>2. ASSUME NEW id \in owned
        PROVE  OwnedOrders[Key(WhoNow[id], id)]
                  = [side |-> w[id].side, remaining_quantity |-> w[id].left]
    <2>1. Key(WhoNow[id], id) \in DOMAIN OwnedOrders /\ Key(WhoNow[id], id).id = id
      BY <1>1, KeyFields
    <2>2. \A k \in DOMAIN OwnedOrders :
             OwnedOrders[k] = [side |-> OrderOf(book, k.id).side,
                               remaining_quantity |-> OrderOf(book, k.id).remaining_quantity]
      BY DEF OwnedOrders
    <2> QED
      BY <2>1, <2>2, OrderOfIs
  <1>3. \A id \in owned : Key(WhoNow[id], id).id = id
    BY KeyFields
  <1> HIDE DEF owned, w
  <1>4. RestingNow = [k \in DOMAIN RestingNow |-> RestingNow[k]]
    BY <1>1, Zenon DEF RestingNow, Restrict
  <1>5. DOMAIN RestingNow = {Key(WhoNow[id], id) : id \in IdsNow}
    <2>1. CASE AtWork
      <3>1. DOMAIN RestingNow = {k \in DOMAIN OwnedOrders : k.id # command.id}
        BY <2>1 DEF RestingNow, Restrict
      <3>2. IdsNow = owned \ {command.id}
        BY <2>1 DEF IdsNow, owned
      <3> QED
        BY <1>1, <1>3, <3>1, <3>2
    <2>2. CASE ~AtWork
      BY <1>1, <2>2 DEF RestingNow, IdsNow, owned
    <2> QED
      BY <2>1, <2>2
  <1>6. \A k \in DOMAIN RestingNow : RestingNow[k] = OwnedOrders[k]
    BY DEF RestingNow, Restrict
  <1>7. \A id \in IdsNow : RestingNow[Key(WhoNow[id], id)]
                              = [side |-> w[id].side, remaining_quantity |-> w[id].left]
    BY <1>2, <1>5, <1>6 DEF IdsNow, owned
  <1>8. RestingNow = View(IdsNow, WhoNow, w)
    BY <1>4, <1>5, <1>7, IsView
  <1> QED
    BY <1>8 DEF w

-----------------------------------------------------------------------------
(* What the risk engine is told, step by step *)

\* The same in the state after a step.
LEMMA RestingIsNext ==
    Matching!WellFormed(book') =>
        RestingNow' = View(IdsNow', WhoNow', Matching!WaitingIn(book'))
  <1>1. (Matching!WellFormed(book) =>
             RestingNow = View(IdsNow, WhoNow, Matching!WaitingIn(book)))'
    BY RestingIs, PTL
  <1> QED
    BY <1>1

LEMMA RiskAfterTradesIsNext ==
    trades' \in Seq(Engine!Trade) => RiskAfterTrades' = After(ClientOf', risk', trades')
  <1>1. (trades \in Seq(Engine!Trade) => RiskAfterTrades = After(ClientOf, risk, trades))'
    <2>1. trades \in Seq(Engine!Trade) => RiskAfterTrades = After(ClientOf, risk, trades)
      BY RiskAfterTradesIs
    <2> QED
      BY <2>1, PTL
  <1> QED
    BY <1>1

\* The command of a handler: what it is about, and how far it has come. A cancelled
\* order is out of the book; a new one is not in it until it rests.
CommandAtWork ==
    /\ AtWork /\ ~Failed =>
          /\ status \in {"matching", "done", "killed"}
          /\ incoming.id = command.id
          /\ status = "matching" => command.id \notin Booked(book)
          /\ status # "matching" =>
                /\ command.id \in Booked(book)
                      <=> may_rest(incoming) /\ incoming.remaining_quantity > 0
                /\ command.id \in Booked(book) =>
                      /\ Matching!WaitingIn(book)[command.id].side = incoming.side
                      /\ Matching!WaitingIn(book)[command.id].left
                            = incoming.remaining_quantity
    /\ command # NoCommand /\ status = "cancelled" => command.id \notin Booked(book)

\* What RiskEngineProofs needs of a state holds between the server's calls.
RiskKept == Failed \/ Calls!RiskInv

\* The facts that the steps below use.
LEMMA ServerFacts ==
    ASSUME ServerInv
    PROVE  /\ Matching!WellFormed(book) /\ trades \in Seq(Engine!Trade)
           /\ Matching!TypeOK
           /\ IsMap(order_owners, OrderId, Owner)
           /\ DOMAIN Matching!WaitingIn(book) = Booked(book)
           /\ Booked(book) \subseteq OrderId
  <1>1. Matching!WellFormed(book) /\ Matching!TypeOK
    BY DEF ServerInv, Matching!IInv
  <1>2. trades \in Seq(Engine!Trade) /\ IsMap(order_owners, OrderId, Owner)
    BY DEF ServerInv, TypeOK, Engine!TypeOK
  <1>3. DOMAIN Matching!WaitingIn(book) = Booked(book)
    BY DEF Matching!WaitingIn, Booked
  <1>4. Booked(book) \subseteq OrderId
    BY <1>1 DEF Matching!TypeOK, Matching!IsBook, Matching!IsMap, Booked
  <1> QED
    BY <1>1, <1>2, <1>3, <1>4

LEMMA ServerFactsNext ==
    ServerInv' => /\ Matching!WellFormed(book') /\ trades' \in Seq(Engine!Trade)
                  /\ Matching!TypeOK'
                  /\ DOMAIN Matching!WaitingIn(book') = Booked(book')
                  /\ Booked(book') \subseteq OrderId
  <1>1. (ServerInv => /\ Matching!WellFormed(book) /\ trades \in Seq(Engine!Trade)
                      /\ Matching!TypeOK
                      /\ DOMAIN Matching!WaitingIn(book) = Booked(book)
                      /\ Booked(book) \subseteq OrderId)'
    <2>1. ServerInv => /\ Matching!WellFormed(book) /\ trades \in Seq(Engine!Trade)
                       /\ Matching!TypeOK
                       /\ DOMAIN Matching!WaitingIn(book) = Booked(book)
                       /\ Booked(book) \subseteq OrderId
      BY ServerFacts
    <2> QED
      BY <2>1, PTL
  <1> QED
    BY <1>1

\* No command, before and after: the risk engine, the owners and the owned orders in
\* the book are what they were.
LEMMA QuietIdle ==
    ASSUME ServerInv, ServerInv', RiskKept, command = NoCommand, command' = NoCommand,
           UNCHANGED <<risk, order_owners>>, book' = book \/ DOMAIN order_owners = {}
    PROVE  RiskKept'
  <1>1. ~AtWork /\ ~AtWork' /\ Calls!RiskInv
    BY DEF AtWork, RiskKept, Failed
  <1>2. RiskNow' = RiskNow /\ CommandNow' = CommandNow
    BY <1>1 DEF RiskNow, CommandNow
  <1>3. RestingNow' = RestingNow
    <2>1. /\ RestingNow = View(IdsNow, WhoNow, Matching!WaitingIn(book))
          /\ RestingNow' = View(IdsNow', WhoNow', Matching!WaitingIn(book'))
      BY RestingIs, RestingIsNext, ServerFacts, ServerFactsNext
    <2>2. WhoNow' = WhoNow
      BY DEF WhoNow
    <2>3. CASE book' = book
      <3>1. IdsNow' = IdsNow
        BY <1>1, <2>3 DEF IdsNow
      <3> QED
        BY <2>1, <2>2, <2>3, <3>1
    <2>4. CASE DOMAIN order_owners = {}
      <3>1. IdsNow = {} /\ IdsNow' = {}
        BY <2>4 DEF IdsNow
      <3> QED
        BY <2>1, <2>2, <3>1, ViewAgree
    <2> QED
      BY <2>3, <2>4
  <1>4. Calls!RiskInv'
    BY <1>1, <1>2, <1>3, StutterKeepsRisk
  <1> QED
    BY <1>4 DEF RiskKept

\* A command is under way and the engine does nothing that the risk engine would be told.
LEMMA QuietBusy ==
    ASSUME ServerInv, ServerInv', Calls!RiskInv, command # NoCommand, command.type # "CancelOrder",
           UNCHANGED <<risk, order_owners, command, handler, trades, incoming>>,
           client_risk_ids'[handler] = client_risk_ids[handler],
           IdsNow' = IdsNow,
           \A id \in IdsNow : Matching!WaitingIn(book')[id] = Matching!WaitingIn(book)[id]
    PROVE  RiskKept'
  <1>1. AtWork /\ AtWork'
    BY DEF AtWork
  <1>2. ClientOf' = ClientOf
    BY DEF ClientOf, find_order_owner, Unowned
  <1>3. RiskNow' = RiskNow
    BY <1>1, <1>2, RiskAfterTradesIs, RiskAfterTradesIsNext, ServerFacts, ServerFactsNext
       DEF RiskNow
  <1>4. CommandNow' = CommandNow
    BY <1>1 DEF CommandNow
  <1>5. RestingNow' = RestingNow
    <2>1. /\ RestingNow = View(IdsNow, WhoNow, Matching!WaitingIn(book))
          /\ RestingNow' = View(IdsNow', WhoNow', Matching!WaitingIn(book'))
      BY RestingIs, RestingIsNext, ServerFacts, ServerFactsNext
    <2>2. WhoNow' = WhoNow
      BY DEF WhoNow
    <2> QED
      BY <2>1, <2>2, ViewAgree
  <1>6. Calls!RiskInv'
    BY <1>3, <1>4, <1>5, StutterKeepsRisk
  <1> QED
    BY <1>6 DEF RiskKept

\* Sessions come and go without a word to the risk engine.
LEMMA SessionsKeepRisk ==
    ASSUME ServerInv, ServerInv', CommandAtWork, RiskKept,
           UNCHANGED <<engineVars, risk, order_owners, handlerVars>>,
           handler # 0 => client_risk_ids'[handler] = client_risk_ids[handler]
    PROVE  CommandAtWork' /\ RiskKept'
  <1>0. UNCHANGED <<book, incoming, trades, status, risk, order_owners, handler, command>>
    BY DEF engineVars, handlerVars
  <1>1. CommandAtWork'
    BY <1>0 DEF CommandAtWork, AtWork, Failed
  <1>2. RiskKept'
    <2>1. CASE command = NoCommand
      BY <1>0, <2>1, QuietIdle
    <2>2. CASE Failed
      BY <1>0, <2>2 DEF RiskKept, Failed
    <2>3. CASE ~Failed /\ command # NoCommand
      <3>1. handler # 0 /\ Calls!RiskInv
        BY <2>3 DEF ServerInv, TypeOK, RiskKept
      <3>2. CASE command.type # "CancelOrder"
        <4>1. IdsNow' = IdsNow
          BY <1>0 DEF IdsNow, AtWork
        <4> QED
          BY <1>0, <2>3, <3>1, <3>2, <4>1, QuietBusy
      <3>3. CASE command.type = "CancelOrder"
        <4>1. ~AtWork /\ ~AtWork'
          BY <1>0, <3>3 DEF AtWork
        <4>2. RiskNow' = RiskNow /\ CommandNow' = CommandNow
          <5>1. /\ RiskNow = Risk!on_order_cancelled(risk,
                                Key(order_owners[command.id].risk_client_id, command.id))
                /\ RiskNow' = Risk!on_order_cancelled(risk,
                                Key(order_owners[command.id].risk_client_id, command.id))
            BY <1>0, <2>3, <4>1, RiskIsCalls DEF RiskNow
          <5> QED
            BY <4>1, <5>1 DEF CommandNow
        <4>3. RestingNow' = RestingNow
          BY <1>0, <4>1, RestingIs, RestingIsNext, ServerFacts, ServerFactsNext
             DEF IdsNow, WhoNow
        <4>4. Calls!RiskInv'
          BY <3>1, <4>2, <4>3, StutterKeepsRisk
        <4> QED
          BY <4>4 DEF RiskKept
      <3> QED
        BY <3>2, <3>3
    <2> QED
      BY <2>1, <2>2, <2>3
  <1> QED
    BY <1>1, <1>2

\* A refusal changes nothing that the risk engine knows of.
LEMMA RefuseKeepsRisk ==
    ASSUME ServerInv, ServerInv', CommandAtWork, RiskKept, NEW s \in Socket, NEW id,
           Receives(s), Refuse(s, id), ServerUnchanged, UNCHANGED <<book, incoming, status>>
    PROVE  CommandAtWork' /\ RiskKept'
  <1>1. /\ command = NoCommand /\ command' = NoCommand
        /\ UNCHANGED <<risk, order_owners, book>>
    BY NothingUnderWay DEF Refuse, ServerUnchanged
  <1>2. RiskKept'
    BY <1>1, QuietIdle
  <1>3. CommandAtWork'
    BY <1>1 DEF CommandAtWork, AtWork
  <1> QED
    BY <1>2, <1>3

-----------------------------------------------------------------------------
(* The risk engine and the requests *)

\* What a request is about.
LEMMA RequestFields ==
    ASSUME NEW request \in Request
    PROVE  /\ request # NoCommand /\ request.id \in OrderId
           /\ request.type \in {"NewOrder", "CancelOrder", "ReplaceOrder"}
           /\ request.type = "NewOrder" =>
                 /\ request.side \in Side /\ request.order_type \in OrderType
                 /\ request.time_in_force \in TimeInForce
           /\ request.type # "CancelOrder" =>
                 /\ request.price \in Price /\ request.price \in Int
                 /\ request.quantity \in 1 .. MaxQuantity
                 /\ request.quantity \in Nat /\ 1 <= request.quantity
  <1>1. request \in NewOrderRequest \cup CancelRequest \cup ReplaceRequest /\ request # NoCommand
    BY RequestAssumption
  <1>2. (\A p \in Price : p \in Int) /\ \A q \in 1 .. MaxQuantity : q \in Nat /\ 1 <= q
    <2>1. MaxQuantity \in Nat /\ Price \subseteq Int
      BY CallsAssumptions
    <2> QED
      BY <2>1
  <1>3. CASE request \in NewOrderRequest
    <2>1. /\ request.type = "NewOrder" /\ request.id \in OrderId /\ request.side \in Side
          /\ request.order_type \in OrderType /\ request.time_in_force \in TimeInForce
          /\ request.price \in Price /\ request.quantity \in 1 .. MaxQuantity
      BY <1>3 DEF NewOrderRequest
    <2>2. request.price \in Int /\ request.quantity \in Nat /\ 1 <= request.quantity
      BY <1>2, <2>1, Zenon
    <2> QED
      BY <1>1, <2>1, <2>2
  <1>4. CASE request \in CancelRequest
    BY <1>1, <1>4 DEF CancelRequest
  <1>5. CASE request \in ReplaceRequest
    <2>1. /\ request.type = "ReplaceOrder" /\ request.id \in OrderId
          /\ request.price \in Price /\ request.quantity \in 1 .. MaxQuantity
      BY <1>5 DEF ReplaceRequest
    <2>2. request.price \in Int /\ request.quantity \in Nat /\ 1 <= request.quantity
      BY <1>2, <2>1, Zenon
    <2> QED
      BY <1>1, <2>1, <2>2
  <1> QED
    BY <1>1, <1>3, <1>4, <1>5

\* A call that has begun to match has the order in hand, and no trades yet.
LEMMA StartIs ==
    ASSUME NEW b, NEW o, Engine!StartProcessing(b, o),
           o = [price |-> o.price, id |-> o.id, side |-> o.side, type |-> o.type,
                time_in_force |-> o.time_in_force, initial_quantity |-> o.initial_quantity,
                remaining_quantity |-> o.remaining_quantity]
    PROVE  /\ book' = b /\ trades' = <<>>
           /\ incoming'.id = o.id /\ incoming'.side = o.side
           /\ incoming'.remaining_quantity = o.remaining_quantity
           /\ may_rest(incoming') <=> (o.type = "Limit" /\ o.time_in_force = "GoodTillCancel")
           /\ status' \in {"killed", "matching"}
           /\ status' = "killed" => ~may_rest(incoming')
  BY DEF Engine!StartProcessing, Engine!Effective, may_rest

\* A session that is on a socket is a client of the risk engine.
LEMMA SessionIsClient ==
    ASSUME ServerInv, NEW s \in Socket, client_risk_ids[s] # 0
    PROVE  client_risk_ids[s] \in Client
  BY DEF ServerInv, TypeOK

\* The risk engine, the owned orders and the command when nothing is under way.
LEMMA IdleIs ==
    ASSUME ServerInv, command = NoCommand
    PROVE  /\ ~AtWork /\ RiskNow = risk /\ CommandNow = NoCommand
           /\ IdsNow = DOMAIN order_owners \cap Booked(book)
           /\ RestingNow = View(IdsNow, WhoNow, Matching!WaitingIn(book))
           /\ RiskKept => Calls!RiskInv
  <1>1. ~AtWork /\ ~Failed
    BY DEF AtWork, Failed
  <1> QED
    BY <1>1, RestingIs, ServerFacts DEF RiskNow, CommandNow, IdsNow, RiskKept

\* And when a new order or a replacement has just been accepted.
LEMMA AcceptedIs ==
    ASSUME ServerInv', NEW s \in Socket, NEW request \in Request,
           request.type # "CancelOrder", handler' = s, command' = request,
           UNCHANGED <<client_risk_ids, order_owners>>, trades' = <<>>
    PROVE  /\ AtWork' /\ RiskNow' = risk'
           /\ CommandNow' = [key |-> Key(client_risk_ids[s], request.id),
                             side |-> incoming'.side, may_rest |-> may_rest(incoming'),
                             remaining |-> incoming'.remaining_quantity]
           /\ WhoNow' = WhoNow
           /\ IdsNow' = (DOMAIN order_owners \cap Booked(book')) \ {request.id}
           /\ RestingNow' = View(IdsNow', WhoNow, Matching!WaitingIn(book'))
  <1>1. AtWork'
    BY RequestFields DEF AtWork
  <1>2. RiskNow' = risk'
    <2>1. RiskAfterTrades' = After(ClientOf', risk', <<>>)
      BY RiskAfterTradesIsNext, ServerFactsNext
    <2> QED
      BY <1>1, <2>1, AfterNone DEF RiskNow
  <1>3. CommandNow' = [key |-> Key(client_risk_ids[s], request.id),
                       side |-> incoming'.side, may_rest |-> may_rest(incoming'),
                       remaining |-> incoming'.remaining_quantity]
    BY <1>1 DEF CommandNow, may_rest
  <1>4. WhoNow' = WhoNow
    BY DEF WhoNow
  <1>5. IdsNow' = (DOMAIN order_owners \cap Booked(book')) \ {request.id}
    BY <1>1 DEF IdsNow
  <1>6. RestingNow' = View(IdsNow', WhoNow, Matching!WaitingIn(book'))
    BY <1>4, RestingIsNext, ServerFactsNext
  <1> QED
    BY <1>1, <1>2, <1>3, <1>4, <1>5, <1>6

\* A new order is accepted: a NewOrder of RiskEngine.
LEMMA NewOrderKeepsRisk ==
    ASSUME ServerInv, ServerInv', RiskKept, NEW s \in Socket, NEW request \in Request,
           Receives(s), request.type = "NewOrder", ServerUnchanged,
           NewOrderAllowed(s, request), Accept(s, request),
           Engine!ProcessOrder(request.id, request.side, request.order_type,
                               request.time_in_force, request.price, request.quantity),
           UNCHANGED risk
    PROVE  CommandAtWork' /\ RiskKept'
  <1> DEFINE c == client_risk_ids[s]
             m == request.order_type = "Limit" /\ request.time_in_force = "GoodTillCancel"
             o == Engine!NewOrder(request.id, request.side, request.order_type,
                                  request.time_in_force, request.price, request.quantity)
  <1>1. command = NoCommand /\ c # 0 /\ c \in Client
    BY NothingUnderWay, SessionIsClient
  <1>2. /\ handler' = s /\ command' = request
        /\ UNCHANGED <<client_risk_ids, order_owners, phase>>
    BY DEF Accept, ServerUnchanged, sessionVars
  <1>3. /\ o.id = request.id /\ o.side = request.side /\ o.remaining_quantity = request.quantity
        /\ o.type = request.order_type /\ o.time_in_force = request.time_in_force
        /\ o = [price |-> o.price, id |-> o.id, side |-> o.side, type |-> o.type,
                time_in_force |-> o.time_in_force, initial_quantity |-> o.initial_quantity,
                remaining_quantity |-> o.remaining_quantity]
        /\ Engine!StartProcessing(book, o)
    BY DEF Engine!NewOrder, Engine!ProcessOrder
  <1> HIDE DEF o
  <1>4. /\ book' = book /\ trades' = <<>>
        /\ incoming'.id = request.id /\ incoming'.side = request.side
        /\ incoming'.remaining_quantity = request.quantity
        /\ may_rest(incoming') <=> m
        /\ status' \in {"killed", "matching"}
        /\ status' = "killed" => ~may_rest(incoming')
    BY <1>3, StartIs
  <1>5. request.id \notin Booked(book) /\ request.id \notin DOMAIN order_owners
    BY DEF NewOrderAllowed, Booked, contains
  <1>6. CommandAtWork'
    BY <1>2, <1>4, <1>5 DEF CommandAtWork
  <1>7. /\ AtWork' /\ RiskNow' = RiskNow /\ CommandNow = NoCommand /\ Calls!RiskInv
        /\ RestingNow' = RestingNow
        /\ CommandNow' = [key |-> Key(c, request.id), side |-> request.side,
                          may_rest |-> m, remaining |-> request.quantity]
    <2>1. may_rest(incoming') \in BOOLEAN /\ m \in BOOLEAN
      BY DEF may_rest
    <2>2. may_rest(incoming') = m
      BY <1>4, <2>1
    <2>3. /\ RiskNow = risk /\ CommandNow = NoCommand /\ Calls!RiskInv
          /\ IdsNow = DOMAIN order_owners \cap Booked(book)
          /\ RestingNow = View(IdsNow, WhoNow, Matching!WaitingIn(book))
      BY <1>1, IdleIs
    <2>4. request.type # "CancelOrder"
      OBVIOUS
    <2>5. /\ AtWork' /\ RiskNow' = risk'
          /\ CommandNow' = [key |-> Key(client_risk_ids[s], request.id),
                            side |-> incoming'.side, may_rest |-> may_rest(incoming'),
                            remaining |-> incoming'.remaining_quantity]
          /\ IdsNow' = (DOMAIN order_owners \cap Booked(book')) \ {request.id}
          /\ RestingNow' = View(IdsNow', WhoNow, Matching!WaitingIn(book'))
      BY <1>2, <1>4, <2>4, AcceptedIs
    <2>6. IdsNow' = IdsNow
      BY <1>4, <1>5, <2>3, <2>5
    <2>7. RestingNow' = RestingNow
      BY <1>4, <2>3, <2>5, <2>6, Zenon
    <2> QED
      BY <1>4, <2>2, <2>3, <2>5, <2>7
  <1>8. PICK p \in NotionalPrices(request) : p \in Int
    <2> DEFINE opposite == Opposite(request.side)
    <2>1. \A p \in DOMAIN book.levels[opposite] : p \in Price
      <3>1. opposite \in Matching!Side
        BY RequestFields DEF Opposite, Side, Matching!Side
      <3> QED
        BY <3>1, ServerFacts DEF Matching!TypeOK, Matching!IsBook, Matching!IsMap
    <2>2. request.price \in Price /\ Price \subseteq Int
      BY RequestFields, CallsAssumptions
    <2> QED
      BY <2>1, <2>2, Zenon DEF NotionalPrices
  <1>9. Calls!check_new_order(RiskNow, c, TheSymbol, request.side, m, p, request.quantity)
    BY <1>1, <1>8, IdleIs, RiskIsCalls DEF NewOrderAllowed
  <1>10. \A k \in DOMAIN RestingNow : ~(k.symbol = TheSymbol /\ k.id = request.id)
    <2>1. DOMAIN RestingNow = {Key(WhoNow[id], id) : id \in IdsNow}
      BY <1>1, IdleIs DEF View
    <2>2. \A id \in IdsNow : Key(WhoNow[id], id).id # request.id
      BY <1>1, <1>5, IdleIs, KeyFields
    <2> QED
      BY <2>1, <2>2
  <1> HIDE DEF m
  <1>11. Calls!NewOrder(c, TheSymbol, request.id, request.side, m, p, request.quantity)
    BY <1>7, <1>9, <1>10, KeyFields DEF Calls!NewOrder
  <1>12. /\ request.id \in OrderId /\ request.side \in Calls!Side /\ m \in BOOLEAN
         /\ request.quantity \in Nat /\ 1 <= request.quantity
         /\ TheSymbol \in {TheSymbol}
    BY RequestFields DEF Side, Calls!Side, m
  <1>13. Calls!RiskInv'
    BY <1>1, <1>7, <1>8, <1>11, <1>12, CallsAssumptions, Calls!NewOrderStep
  <1> QED
    BY <1>6, <1>13 DEF RiskKept

\* An owned order leaves the book, for the risk engine too.
LEMMA OwnedLeaves ==
    ASSUME ServerInv, ServerInv', command = NoCommand,
           NEW id \in DOMAIN order_owners, id \in Booked(book),
           Matching!LeavesMarket(book, book', id)
    PROVE  LET key == Key(order_owners[id].risk_client_id, id)
               ids == (DOMAIN order_owners \cap Booked(book)) \ {id}
           IN  /\ Booked(book') = Booked(book) \ {id}
               /\ key \in DOMAIN RestingNow
               /\ RestingNow[key].side = Matching!WaitingIn(book)[id].side
               /\ View(ids, WhoNow, Matching!WaitingIn(book')) = Calls!Erase(RestingNow, key)
  <1> DEFINE w == Matching!WaitingIn(book)
             v == Matching!WaitingIn(book')
             ids == (DOMAIN order_owners \cap Booked(book)) \ {id}
  <1>1. v = [j \in DOMAIN w \ {id} |-> w[j]]
    BY DEF Matching!LeavesMarket
  <1>2. DOMAIN w = Booked(book) /\ DOMAIN v = Booked(book')
    BY ServerFacts, ServerFactsNext
  <1>3. Booked(book') = Booked(book) \ {id}
    BY <1>1, <1>2
  <1>4. /\ IdsNow = DOMAIN order_owners \cap Booked(book) /\ id \in IdsNow
        /\ RestingNow = View(IdsNow, WhoNow, w)
        /\ WhoNow[id] = order_owners[id].risk_client_id
        /\ ids = IdsNow \ {id}
    BY IdleIs DEF WhoNow
  <1>5. \A j \in ids : v[j] = w[j]
    BY <1>1, <1>2
  <1> HIDE DEF w, v, ids
  <1>6. View(ids, WhoNow, v) = View(ids, WhoNow, w)
    BY <1>5, ViewAgree
  <1>7. Calls!Erase(RestingNow, Key(WhoNow[id], id)) = View(ids, WhoNow, w)
    BY <1>4, ViewLess
  <1>8. /\ Key(WhoNow[id], id) \in DOMAIN RestingNow
        /\ RestingNow[Key(WhoNow[id], id)].side = w[id].side
    <2>1. /\ Key(WhoNow[id], id) \in DOMAIN RestingNow
          /\ RestingNow[Key(WhoNow[id], id)]
                = [side |-> w[id].side, remaining_quantity |-> w[id].left]
      <3>1. id \in IdsNow /\ RestingNow = View(IdsNow, WhoNow, w)
        BY <1>4
      <3>2. /\ Key(WhoNow[id], id) \in DOMAIN View(IdsNow, WhoNow, w)
            /\ View(IdsNow, WhoNow, w)[Key(WhoNow[id], id)]
                  = [side |-> w[id].side, remaining_quantity |-> w[id].left]
        BY <3>1, ViewAt
      <3> QED
        BY <3>1, <3>2, Zenon
    <2>2. [side |-> w[id].side, remaining_quantity |-> w[id].left].side = w[id].side
      OBVIOUS
    <2> QED
      BY <2>1, <2>2, Zenon
  <1> QED
    BY <1>3, <1>4, <1>6, <1>7, <1>8 DEF w, v, ids

\* A cancel of one's own order: a Cancel of RiskEngine, as soon as the order is out of
\* the book.
LEMMA CancelKeepsRisk ==
    ASSUME ServerInv, ServerInv', RiskKept, NEW s \in Socket, NEW request \in Request,
           Receives(s), request.type = "CancelOrder", ServerUnchanged,
           Owns(s, request.id), Accept(s, request), Engine!CancelOrder(request.id),
           UNCHANGED risk
    PROVE  CommandAtWork' /\ RiskKept'
  <1> DEFINE id == request.id
             key == Key(order_owners[id].risk_client_id, id)
  <1>1. command = NoCommand /\ request # NoCommand /\ id \in OrderId
    BY NothingUnderWay, RequestFields
  <1>2. /\ handler' = s /\ command' = request
        /\ UNCHANGED <<client_risk_ids, order_owners>>
    BY DEF Accept, ServerUnchanged, sessionVars
  <1>3. id \in DOMAIN order_owners /\ id \in Booked(book)
    BY DEF Owns, Booked, contains
  <1>4. ~AtWork'
    BY <1>2 DEF AtWork
  <1>5. CASE status' \in {"not_found", "logic_error"}
    <2>1. Failed'
      BY <1>1, <1>2, <1>5 DEF Failed
    <2> QED
      BY <1>4, <1>5, <2>1 DEF CommandAtWork, RiskKept
  <1>6. CASE \E i : /\ Matching!contains(book, id) /\ Matching!IsPosition(book, id, i)
                    /\ ~Matching!erase_throws(book, id, i)
                    /\ book' = Matching!extract_order(book, id, i) /\ status' = "cancelled"
    <2>1. PICK i : /\ Matching!contains(book, id) /\ Matching!IsPosition(book, id, i)
                   /\ ~Matching!erase_throws(book, id, i)
                   /\ book' = Matching!extract_order(book, id, i) /\ status' = "cancelled"
      BY <1>6
    <2>2. Matching!LeavesMarket(book, book', id)
      BY <2>1, ServerFacts, MatchingAssumptions, Matching!ExtractLeaves
    <2>3. /\ Booked(book') = Booked(book) \ {id}
          /\ key \in DOMAIN RestingNow
          /\ View((DOMAIN order_owners \cap Booked(book)) \ {id}, WhoNow,
                  Matching!WaitingIn(book')) = Calls!Erase(RestingNow, key)
      BY <1>1, <1>3, <2>2, OwnedLeaves, Zenon
    <2>4. CommandNow = NoCommand /\ CommandNow' = NoCommand /\ RiskNow = risk /\ Calls!RiskInv
      BY <1>1, <1>4, IdleIs DEF CommandNow
    <2>5. RiskNow' = Calls!on_order_cancelled(RiskNow, key)
      <3>1. RiskNow' = Risk!on_order_cancelled(risk, key)
        BY <1>1, <1>2, <1>4 DEF RiskNow
      <3> QED
        BY <2>4, <3>1, RiskIsCalls
    <2>6. RestingNow' = Calls!Erase(RestingNow, key)
      <3>1. IdsNow' = (DOMAIN order_owners \cap Booked(book)) \ {id} /\ WhoNow' = WhoNow
        BY <1>2, <1>4, <2>3 DEF IdsNow, WhoNow
      <3> QED
        BY <2>3, <3>1, RestingIsNext, ServerFactsNext
    <2> HIDE DEF key
    <2>7. Calls!Cancel(key)
      BY <2>3, <2>4, <2>5, <2>6 DEF Calls!Cancel
    <2>8. Calls!RiskInv'
      BY <2>3, <2>4, <2>7, CallsAssumptions, Calls!CancelStep
    <2>9. CommandAtWork'
      BY <1>2, <1>4, <2>3 DEF CommandAtWork
    <2> QED
      BY <2>8, <2>9 DEF RiskKept
  <1>7. Matching!CancelOrder(id)
    BY EngineIsMatching
  <1>8. Matching!contains(book, id)
    BY <1>3 DEF Matching!contains, Booked
  <1> QED
    BY <1>5, <1>6, <1>7, <1>8 DEF Matching!CancelOrder

\* A replacement is accepted: a Replace of RiskEngine.
LEMMA ReplaceKeepsRisk ==
    ASSUME ServerInv, ServerInv', RiskKept, NEW s \in Socket, NEW request \in Request,
           Receives(s), request.type = "ReplaceOrder", ServerUnchanged,
           Owns(s, request.id), Accept(s, request),
           Risk!check_replace(risk, Key(client_risk_ids[s], request.id), request.price,
                              request.quantity),
           risk' = Risk!on_order_cancelled(risk, Key(client_risk_ids[s], request.id)),
           Engine!ReplaceOrder(request.id, request.price, request.quantity)
    PROVE  CommandAtWork' /\ RiskKept'
  <1> DEFINE id == request.id
             key == Key(client_risk_ids[s], id)
             at == book.order_locations[id]
             Amended(i) == [book.levels[at.side][at.price].orders[i] EXCEPT
                               !.price = request.price, !.initial_quantity = request.quantity,
                               !.remaining_quantity = request.quantity]
  <1>1. /\ command = NoCommand /\ request # NoCommand /\ id \in OrderId
        /\ request.price \in Int /\ request.quantity \in Nat /\ 1 <= request.quantity
    BY NothingUnderWay, RequestFields
  <1>2. /\ handler' = s /\ command' = request
        /\ UNCHANGED <<client_risk_ids, order_owners>>
    BY DEF Accept, ServerUnchanged, sessionVars
  <1>3. /\ id \in DOMAIN order_owners /\ id \in Booked(book)
        /\ order_owners[id].risk_client_id = client_risk_ids[s]
    BY DEF Owns, Booked, contains
  <1>4. CASE status' \in {"not_found", "logic_error"}
    <2>1. Failed'
      BY <1>1, <1>2, <1>4 DEF Failed
    <2> QED
      BY <1>4, <2>1 DEF CommandAtWork, RiskKept
  <1>5. CASE \E i : /\ Matching!contains(book, id) /\ Matching!IsPosition(book, id, i)
                    /\ ~Matching!erase_throws(book, id, i)
                    /\ Matching!StartProcessing(Matching!extract_order(book, id, i), Amended(i))
    <2>1. PICK i : /\ Matching!contains(book, id) /\ Matching!IsPosition(book, id, i)
                   /\ ~Matching!erase_throws(book, id, i)
                   /\ Matching!StartProcessing(Matching!extract_order(book, id, i), Amended(i))
      BY <1>5, Zenon
    <2> DEFINE o == Amended(i)
               was == book.levels[at.side][at.price].orders[i]
    <2>2. /\ was \in Matching!Order /\ was.id = id /\ was.type = "Limit"
          /\ was.time_in_force = "GoodTillCancel"
          /\ was.side = Matching!WaitingIn(book)[id].side /\ was.side \in Matching!Side
      <3> DEFINE line == Matching!OrdersAt(book, at.side, at.price)
      <3>1. /\ at.side \in Matching!Side /\ at.price \in Price
            /\ book.levels[at.side][at.price].orders = line
            /\ i \in 1 .. Len(line) /\ line[i].id = id /\ line[i] \in Matching!Order
            /\ Matching!Restable(line[i])
        <4>1. Matching!contains(book, id) /\ Matching!IsPosition(book, id, i)
              /\ Matching!WellFormed(book)
          BY <2>1, ServerFacts, Zenon
        <4> HIDE DEF Amended, o, was, id
        <4> QED
          BY <4>1, MatchingAssumptions, Matching!PositionFacts
      <3>2. i \in DOMAIN line
        BY <3>1, ServerFacts, MatchingAssumptions, Matching!OrdersAtTyped
           DEF Matching!WellFormed
      <3>3. line[i].side = at.side
        BY <3>1, <3>2, ServerFacts DEF Matching!WellFormed, Matching!OrdersRestable
      <3>4. Matching!WaitingIn(book)[id].side = at.side
        BY <1>3 DEF Matching!WaitingIn, Booked
      <3> HIDE DEF line
      <3> QED
        BY <3>1, <3>3, <3>4 DEF Matching!Restable
    <2>3. /\ o.id = id /\ o.side = was.side /\ o.remaining_quantity = request.quantity
          /\ o.type = "Limit" /\ o.time_in_force = "GoodTillCancel"
          /\ o = [price |-> o.price, id |-> o.id, side |-> o.side, type |-> o.type,
                  time_in_force |-> o.time_in_force, initial_quantity |-> o.initial_quantity,
                  remaining_quantity |-> o.remaining_quantity]
      <3> HIDE DEF was
      <3>1. o = [was EXCEPT !.price = request.price, !.initial_quantity = request.quantity,
                            !.remaining_quantity = request.quantity]
        BY DEF was
      <3> HIDE DEF o, Amended
      <3> QED
        BY <2>2, <3>1, Zenon DEF Matching!Order
    <2>4. Engine!StartProcessing(Matching!extract_order(book, id, i), o)
      BY <2>1, StartIsMatching, Zenon
    <2> HIDE DEF o, Amended, was
    <2>5. /\ book' = Matching!extract_order(book, id, i) /\ trades' = <<>>
          /\ incoming'.id = id /\ incoming'.side = was.side
          /\ incoming'.remaining_quantity = request.quantity
          /\ may_rest(incoming')
          /\ status' = "matching"
      BY <2>3, <2>4, StartIs
    <2>6. Matching!LeavesMarket(book, book', id)
      BY <2>1, <2>5, ServerFacts, MatchingAssumptions, Matching!ExtractLeaves
    <2>7. /\ Booked(book') = Booked(book) \ {id}
          /\ key \in DOMAIN RestingNow /\ RestingNow[key].side = was.side
          /\ View((DOMAIN order_owners \cap Booked(book)) \ {id}, WhoNow,
                  Matching!WaitingIn(book')) = Calls!Erase(RestingNow, key)
      BY <1>1, <1>3, <2>2, <2>6, OwnedLeaves, Zenon
    <2>8. CommandNow = NoCommand /\ RiskNow = risk /\ Calls!RiskInv
      BY <1>1, IdleIs
    <2>9. may_rest(incoming') = TRUE
      BY <2>5 DEF may_rest
    <2>10. /\ AtWork' /\ RiskNow' = risk'
           /\ CommandNow' = [key |-> key, side |-> incoming'.side,
                             may_rest |-> may_rest(incoming'),
                             remaining |-> incoming'.remaining_quantity]
           /\ IdsNow' = (DOMAIN order_owners \cap Booked(book')) \ {id}
           /\ RestingNow' = View(IdsNow', WhoNow, Matching!WaitingIn(book'))
      <3>1. request.type # "CancelOrder"
        OBVIOUS
      <3> QED
        BY <1>2, <2>5, <3>1, AcceptedIs
    <2>11. CommandNow' = [key |-> key, side |-> RestingNow[key].side, may_rest |-> TRUE,
                          remaining |-> request.quantity]
      BY <2>5, <2>7, <2>9, <2>10
    <2>12. RestingNow' = Calls!Erase(RestingNow, key)
      <3>1. IdsNow' = (DOMAIN order_owners \cap Booked(book)) \ {id}
        BY <2>7, <2>10
      <3> QED
        BY <2>7, <2>10, <3>1, Zenon
    <2>13. /\ RiskNow' = Calls!on_order_cancelled(RiskNow, key)
           /\ Calls!check_replace(RiskNow, key, request.price, request.quantity)
      BY <2>8, <2>10, RiskIsCalls
    <2> HIDE DEF key
    <2>14. Calls!Replace(key, request.price, request.quantity)
      BY <2>7, <2>8, <2>11, <2>12, <2>13 DEF Calls!Replace
    <2>15. Calls!RiskInv'
      BY <1>1, <2>7, <2>8, <2>14, CallsAssumptions, Calls!ReplaceStep
    <2>16. CommandAtWork'
      BY <1>2, <2>5, <2>7 DEF CommandAtWork
    <2> QED
      BY <2>15, <2>16 DEF RiskKept
  <1>6. Matching!ReplaceOrder(id, request.price, request.quantity)
    BY EngineIsMatching
  <1>7. Matching!contains(book, id)
    BY <1>3 DEF Matching!contains, Booked
  <1> QED
    BY <1>4, <1>5, <1>6, <1>7, Zenon DEF Matching!ReplaceOrder

-----------------------------------------------------------------------------
(* The risk engine and the matching loop *)

\* An iteration of the matching loop, as the market and the trade buffer show it: the
\* order in hand is filled by a quantity against the resting order m.
FillIs(m, quantity, t) ==
    LET w == Matching!WaitingIn(book)
    IN  /\ m \in Booked(book) /\ m \in OrderId /\ incoming.id \in OrderId
        /\ incoming.side \in Side
        /\ w[m].side # incoming.side
        /\ w[m].left \in Nat /\ incoming.remaining_quantity \in Nat
        /\ incoming.remaining_quantity > 0
        /\ quantity = IF w[m].left < incoming.remaining_quantity THEN w[m].left
                      ELSE incoming.remaining_quantity
        /\ t \in Engine!Trade /\ t.quantity = quantity
        /\ t.buy_order_id = IF incoming.side = "Buy" THEN incoming.id ELSE m
        /\ t.sell_order_id = IF incoming.side = "Buy" THEN m ELSE incoming.id
        /\ trades' = Append(trades, t)
        /\ incoming'.id = incoming.id /\ incoming'.side = incoming.side
        /\ may_rest(incoming') = may_rest(incoming)
        /\ incoming'.remaining_quantity = incoming.remaining_quantity - quantity
        /\ w[m].left = quantity => Matching!LeavesMarket(book, book', m)
        /\ w[m].left # quantity => Matching!ShrinksInMarket(book, book', m, quantity)

LEMMA MatchStepIs ==
    ASSUME ServerInv, ServerInv', Engine!MatchStep
    PROVE  \E m, t : \E quantity \in Nat : FillIs(m, quantity, t)
  <1>0. /\ Matching!MatchStep /\ Matching!IInv
        /\ Matching!WellFormed(book) /\ Matching!WellFormed(book')
    BY EngineIsMatching, ServerFacts, ServerFactsNext DEF ServerInv
  <1> DEFINE side == Matching!Opposite(incoming.side)
             w == Matching!WaitingIn(book)
  <1>1. /\ incoming \in Matching!Order /\ incoming.remaining_quantity > 0
        /\ side \in Matching!Side
        /\ \E p \in DOMAIN book.levels[side] : \E quantity \in Nat : Matching!FillsAt(p, quantity)
    BY <1>0, MatchingAssumptions, Matching!MatchStepFills
  <1>2. PICK p \in DOMAIN book.levels[side] : \E quantity \in Nat : Matching!FillsAt(p, quantity)
    BY <1>1
  <1>3. PICK quantity \in Nat : Matching!FillsAt(p, quantity)
    BY <1>2
  <1> DEFINE line == Matching!OrdersAt(book, side, p)
             resting == line[1]
             m == resting.id
             t == Matching!TradeWith(p, quantity)
  <1>4. /\ quantity = IF incoming.remaining_quantity < resting.remaining_quantity
                      THEN incoming.remaining_quantity ELSE resting.remaining_quantity
        /\ quantity \in 1 .. Head(book.levels[side][p].orders).remaining_quantity
        /\ trades' = Append(trades, t) /\ t \in Matching!Trade
        /\ incoming' = [incoming EXCEPT !.remaining_quantity = @ - quantity]
        /\ book' = Matching!fill_front(book, side, p, quantity)
    BY <1>3 DEF Matching!FillsAt
  <1>5. /\ p \in Price /\ 1 \in DOMAIN line
        /\ resting \in Matching!Order /\ resting.remaining_quantity > 0
    BY <1>0, <1>1, MatchingAssumptions, Matching!FrontFacts
  <1>6. Matching!Stands(book, m, line, side, p, 1)
    BY <1>0, <1>1, <1>5, MatchingAssumptions, Matching!PlaceIs
  <1>7. m \in Booked(book) /\ w[m] = Matching!Seen(side, p, resting)
    BY <1>6 DEF Matching!Stands, Booked
  <1>8. resting.remaining_quantity = quantity => Matching!LeavesMarket(book, book', m)
    BY <1>0, <1>1, <1>4, MatchingAssumptions, Matching!FillLeaves, Zenon
  <1>9. resting.remaining_quantity # quantity => Matching!ShrinksInMarket(book, book', m, quantity)
    BY <1>0, <1>1, <1>4, MatchingAssumptions, Matching!FillingThePart
  <1>10. /\ t.quantity = quantity
         /\ t.buy_order_id = IF incoming.side = "Buy" THEN incoming.id ELSE m
         /\ t.sell_order_id = IF incoming.side = "Buy" THEN m ELSE incoming.id
    BY DEF Matching!TradeWith
  <1>11. t \in Engine!Trade
    BY <1>4 DEF Engine!Trade, Matching!Trade, Engine!Quantity, Matching!Quantity
  <1>12. side # incoming.side
    BY <1>1 DEF Matching!Opposite, Matching!Order, Matching!Side
  <1> HIDE DEF t, resting, w, m, side
  <1>13. w[m].side = side /\ w[m].left = resting.remaining_quantity
    BY <1>7 DEF Matching!Seen
  <1>14. m \in OrderId
    BY <1>5 DEF m, Matching!Order
  <1>15. /\ incoming.id \in OrderId /\ incoming.side \in Side
         /\ incoming.remaining_quantity \in Nat /\ resting.remaining_quantity \in Nat
    BY <1>1, <1>5, ModulusAssumption
       DEF Matching!Order, Matching!Side, Side, Matching!Quantity
  <1>16. /\ incoming'.id = incoming.id /\ incoming'.side = incoming.side
         /\ may_rest(incoming') = may_rest(incoming)
         /\ incoming'.remaining_quantity = incoming.remaining_quantity - quantity
    BY <1>1, <1>4 DEF Matching!Order, may_rest
  <1>17. quantity = IF w[m].left < incoming.remaining_quantity THEN w[m].left
                    ELSE incoming.remaining_quantity
    BY <1>4, <1>13, <1>15
  <1>18. w[m].left \in Nat /\ w[m].side # incoming.side
    BY <1>12, <1>13, <1>15
  <1>19. /\ w[m].left = quantity => Matching!LeavesMarket(book, book', m)
         /\ w[m].left # quantity => Matching!ShrinksInMarket(book, book', m, quantity)
    BY <1>8, <1>9, <1>13
  <1>20. FillIs(m, quantity, t)
    BY <1>1, <1>4, <1>7, <1>10, <1>11, <1>14, <1>15, <1>16, <1>17, <1>18, <1>19
       DEF FillIs, w
  <1> QED
    BY <1>20

\* What the risk engine is told of the trade.
LEMMA TradeIsReported ==
    ASSUME ServerInv, ServerInv', AtWork, AtWork', incoming.id = command.id,
           UNCHANGED <<risk, order_owners, client_risk_ids, command, handler>>,
           NEW m, NEW t, NEW quantity, FillIs(m, quantity, t), m # command.id
    PROVE  LET mine == Key(client_risk_ids[handler], command.id)
               other == Key(IF m \in DOMAIN order_owners
                            THEN order_owners[m].risk_client_id ELSE 0, m)
           IN  /\ RiskNow' = IF incoming.side = "Buy"
                             THEN Calls!on_trade(RiskNow, mine, other, quantity)
                             ELSE Calls!on_trade(RiskNow, other, mine, quantity)
               /\ CommandNow = [key |-> mine, side |-> incoming.side,
                                may_rest |-> may_rest(incoming),
                                remaining |-> incoming.remaining_quantity]
               /\ CommandNow' = [CommandNow EXCEPT !.remaining = @ - quantity]
  <1> DEFINE mine == Key(client_risk_ids[handler], command.id)
             other == Key(IF m \in DOMAIN order_owners
                          THEN order_owners[m].risk_client_id ELSE 0, m)
  <1>1. /\ m \in OrderId /\ incoming.id \in OrderId /\ incoming.side \in Side
        /\ t \in Engine!Trade /\ t.quantity = quantity
        /\ t.buy_order_id = IF incoming.side = "Buy" THEN incoming.id ELSE m
        /\ t.sell_order_id = IF incoming.side = "Buy" THEN m ELSE incoming.id
        /\ trades' = Append(trades, t)
        /\ incoming'.side = incoming.side
        /\ may_rest(incoming') = may_rest(incoming)
        /\ incoming'.remaining_quantity = incoming.remaining_quantity - quantity
    BY DEF FillIs
  <1>2. ClientOf' = ClientOf
    BY DEF ClientOf, find_order_owner, Unowned
  <1>3. RiskNow = After(ClientOf, risk, trades) /\ RiskNow' = After(ClientOf, risk, Append(trades, t))
    BY <1>1, <1>2, RiskAfterTradesIs, RiskAfterTradesIsNext, ServerFacts, ServerFactsNext
       DEF RiskNow
  <1>4. RiskNow' = Reported(ClientOf, RiskNow, t)
    BY <1>1, <1>3, AfterOneMore, ServerFacts
  <1>5. Key(ClientOf[command.id], command.id) = mine /\ Key(ClientOf[m], m) = other
    BY <1>1 DEF ClientOf, find_order_owner, Unowned
  <1> HIDE DEF mine, other
  <1>6. RiskNow' = IF incoming.side = "Buy"
                   THEN Calls!on_trade(RiskNow, mine, other, quantity)
                   ELSE Calls!on_trade(RiskNow, other, mine, quantity)
    BY <1>1, <1>4, <1>5 DEF Reported
  <1>7. /\ CommandNow = [key |-> mine, side |-> incoming.side, may_rest |-> may_rest(incoming),
                         remaining |-> incoming.remaining_quantity]
        /\ CommandNow' = [key |-> mine, side |-> incoming.side, may_rest |-> may_rest(incoming),
                          remaining |-> incoming.remaining_quantity - quantity]
    BY <1>1 DEF CommandNow, mine
  <1>8. CommandNow' = [CommandNow EXCEPT !.remaining = @ - quantity]
    BY <1>7
  <1> QED
    BY <1>6, <1>7, <1>8 DEF mine, other

\* And what becomes of the orders that rest.
LEMMA MakerIsFilled ==
    ASSUME ServerInv, ServerInv', AtWork, AtWork', UNCHANGED <<order_owners, command>>,
           NEW m, NEW t, NEW quantity, FillIs(m, quantity, t), m # command.id
    PROVE  LET w == Matching!WaitingIn(book)
               key == Key(WhoNow[m], m)
           IN  /\ m \notin DOMAIN order_owners => RestingNow' = RestingNow
               /\ m \in DOMAIN order_owners =>
                     /\ key \in DOMAIN RestingNow
                     /\ RestingNow[key] = [side |-> w[m].side, remaining_quantity |-> w[m].left]
                     /\ RestingNow' =
                           IF w[m].left = quantity THEN Calls!Erase(RestingNow, key)
                           ELSE [RestingNow EXCEPT ![key].remaining_quantity = @ - quantity]
               /\ Booked(book') \subseteq Booked(book)
  <1> DEFINE w == Matching!WaitingIn(book)
             v == Matching!WaitingIn(book')
  <1>1. DOMAIN w = Booked(book) /\ DOMAIN v = Booked(book')
    BY ServerFacts, ServerFactsNext
  <1>2. /\ m \in Booked(book)
        /\ w[m].left = quantity => Matching!LeavesMarket(book, book', m)
        /\ w[m].left # quantity => Matching!ShrinksInMarket(book, book', m, quantity)
    BY DEF FillIs
  <1>3. /\ RestingNow = View(IdsNow, WhoNow, w)
        /\ RestingNow' = View(IdsNow', WhoNow, v)
        /\ IdsNow = (DOMAIN order_owners \cap Booked(book)) \ {command.id}
        /\ IdsNow' = (DOMAIN order_owners \cap Booked(book')) \ {command.id}
    <2>1. WhoNow' = WhoNow
      BY DEF WhoNow
    <2>2. /\ IdsNow = (DOMAIN order_owners \cap Booked(book)) \ {command.id}
          /\ IdsNow' = (DOMAIN order_owners \cap Booked(book')) \ {command.id}
      BY DEF IdsNow
    <2> QED
      BY <2>1, <2>2, RestingIs, RestingIsNext, ServerFacts, ServerFactsNext
  <1> DEFINE Done(ids) ==
          /\ Booked(book') \subseteq Booked(book)
          /\ m \notin ids => View(IdsNow', WhoNow, v) = View(ids, WhoNow, w)
          /\ m \in ids =>
                View(IdsNow', WhoNow, v) =
                    IF w[m].left = quantity
                    THEN Calls!Erase(View(ids, WhoNow, w), Key(WhoNow[m], m))
                    ELSE [View(ids, WhoNow, w) EXCEPT
                             ![Key(WhoNow[m], m)].remaining_quantity = @ - quantity]
  <1>4. ASSUME w[m].left = quantity PROVE Done(IdsNow)
    <2>1. v = [j \in DOMAIN w \ {m} |-> w[j]]
      BY <1>2, <1>4 DEF Matching!LeavesMarket
    <2>2. Booked(book') = Booked(book) \ {m}
      BY <1>1, <2>1
    <2>3. IdsNow' = IdsNow \ {m} /\ \A j \in IdsNow' : v[j] = w[j]
      BY <1>1, <1>3, <2>1, <2>2
    <2> HIDE DEF w, v
    <2>4. View(IdsNow', WhoNow, v) = View(IdsNow \ {m}, WhoNow, w)
      BY <2>3, ViewAgree
    <2>5. m \in IdsNow =>
             Calls!Erase(View(IdsNow, WhoNow, w), Key(WhoNow[m], m))
                = View(IdsNow \ {m}, WhoNow, w)
      BY ViewLess
    <2>6. m \notin IdsNow => IdsNow \ {m} = IdsNow
      OBVIOUS
    <2> QED
      BY <1>4, <2>2, <2>4, <2>5, <2>6
  <1>5. ASSUME w[m].left # quantity PROVE Done(IdsNow)
    <2>1. v = [w EXCEPT ![m].left = @ - quantity]
      BY <1>2, <1>5 DEF Matching!ShrinksInMarket
    <2>2. DOMAIN v = DOMAIN w
      BY <2>1
    <2>3. Booked(book') = Booked(book) /\ IdsNow' = IdsNow
      BY <1>1, <1>3, <2>2
    <2>4. \A j \in DOMAIN w : w[j] = [side |-> w[j].side, price |-> w[j].price, left |-> w[j].left]
      BY DEF Matching!WaitingIn
    <2> HIDE DEF w, v
    <2>5. \A j \in DOMAIN w : /\ v[j].side = w[j].side
                              /\ v[j].left = IF j = m THEN w[j].left - quantity ELSE w[j].left
      <3> SUFFICES ASSUME NEW j \in DOMAIN w
                   PROVE  /\ v[j].side = w[j].side
                          /\ v[j].left = IF j = m THEN w[j].left - quantity ELSE w[j].left
        OBVIOUS
      <3>1. CASE j # m
        BY <2>1, <3>1
      <3>2. CASE j = m
        <4>1. v[m] = [w[m] EXCEPT !.left = @ - quantity]
          BY <1>1, <1>2, <2>1
        <4>2. w[m] = [side |-> w[m].side, price |-> w[m].price, left |-> w[m].left]
          BY <1>1, <1>2, <2>4
        <4> QED
          BY <3>2, <4>1, <4>2
      <3> QED
        BY <3>1, <3>2
    <2>6. IdsNow \subseteq DOMAIN w
      BY <1>1, <1>3
    <2>7. ASSUME m \notin IdsNow
          PROVE  View(IdsNow, WhoNow, v) = View(IdsNow, WhoNow, w)
      <3>1. \A j \in IdsNow : v[j].side = w[j].side /\ v[j].left = w[j].left
        BY <2>5, <2>6, <2>7
      <3> QED
        BY <3>1, ViewAgree
    <2>8. ASSUME m \in IdsNow
          PROVE  [View(IdsNow, WhoNow, w) EXCEPT
                     ![Key(WhoNow[m], m)].remaining_quantity = @ - quantity]
                    = View(IdsNow, WhoNow, v)
      <3>1. /\ \A j \in IdsNow : v[j].side = w[j].side
            /\ \A j \in IdsNow : v[j].left = IF j = m THEN w[j].left - quantity ELSE w[j].left
        BY <2>5, <2>6
      <3> QED
        BY <2>8, <3>1, ViewShrinks
    <2> QED
      BY <1>5, <2>3, <2>7, <2>8
  <1>6. Done(IdsNow)
    BY <1>4, <1>5
  <1>7. m \in IdsNow <=> m \in DOMAIN order_owners
    BY <1>2, <1>3
  <1> HIDE DEF w, v
  <1>8. m \in IdsNow =>
           /\ Key(WhoNow[m], m) \in DOMAIN View(IdsNow, WhoNow, w)
           /\ View(IdsNow, WhoNow, w)[Key(WhoNow[m], m)]
                 = [side |-> w[m].side, remaining_quantity |-> w[m].left]
    BY ViewAt
  <1> QED
    BY <1>3, <1>6, <1>7, <1>8 DEF w

\* A command is not the sign that there is none.
LEMMA CommandIsOne ==
    ASSUME NEW c \in Client, NEW id \in OrderId, NEW d \in Side, NEW b \in BOOLEAN, NEW q \in Nat
    PROVE  [key |-> Key(c, id), side |-> d, may_rest |-> b, remaining |-> q] # NoCommand
  <1>1. Key(c, id) \in Risk!OrderKey
    BY DEF Key, Risk!OrderKey
  <1> QED
    BY <1>1, LimitsAssumption

\* The engine works on a command of a handler, or on a record in a process without owners.
LEMMA EngineWorksFor ==
    ASSUME ServerInv, CommandAtWork, RiskKept, status = "matching"
    PROVE  /\ command = NoCommand => DOMAIN order_owners = {}
           /\ command # NoCommand =>
                 /\ AtWork /\ ~Failed /\ Calls!RiskInv /\ command.type # "CancelOrder"
                 /\ incoming.id = command.id /\ command.id \notin Booked(book)
                 /\ handler # 0 /\ handler \in Socket
                 /\ client_risk_ids[handler] \in Client
  <1>1. command = NoCommand => DOMAIN order_owners = {}
    BY DEF ServerInv, OneAtATime
  <1>2. ASSUME command # NoCommand
        PROVE  /\ AtWork /\ ~Failed /\ Calls!RiskInv /\ command.type # "CancelOrder"
               /\ incoming.id = command.id /\ command.id \notin Booked(book)
    <2>1. command.type # "CancelOrder"
      BY <1>2 DEF ServerInv, OneAtATime
    <2>2. AtWork /\ ~Failed
      BY <1>2, <2>1 DEF AtWork, Failed
    <2> QED
      BY <2>1, <2>2 DEF RiskKept, CommandAtWork
  <1>3. command # NoCommand => handler # 0 /\ handler \in Socket
                               /\ client_risk_ids[handler] \in Client
    BY DEF ServerInv, TypeOK, OneAtATime
  <1> QED
    BY <1>1, <1>2, <1>3

\* An iteration of the matching loop: a Trade or a TradeUnowned of RiskEngine.
LEMMA MatchStepKeepsRisk ==
    ASSUME ServerInv, ServerInv', CommandAtWork, RiskKept, Engine!MatchStep,
           UNCHANGED <<risk, order_owners, client_risk_ids, command, handler>>
    PROVE  CommandAtWork' /\ RiskKept'
  <1>0. status = "matching" /\ status' = "matching"
    BY Zenon DEF Engine!MatchStep
  <1>1. CASE command = NoCommand
    <2>1. RiskKept'
      BY <1>0, <1>1, EngineWorksFor, QuietIdle
    <2> QED
      BY <1>1, <2>1 DEF CommandAtWork, AtWork
  <1>2. CASE command # NoCommand
    <2>1. PICK m, t : \E quantity \in Nat : FillIs(m, quantity, t)
      BY MatchStepIs
    <2>2. PICK quantity \in Nat : FillIs(m, quantity, t)
      BY <2>1
    <2>3. /\ AtWork /\ ~Failed /\ Calls!RiskInv
          /\ incoming.id = command.id /\ command.id \notin Booked(book)
          /\ client_risk_ids[handler] \in Client
      BY <1>0, <1>2, EngineWorksFor
    <2>4. AtWork' /\ ~Failed'
      BY <1>0, <2>3 DEF AtWork, Failed
    <2> DEFINE w == Matching!WaitingIn(book)
               mine == Key(client_risk_ids[handler], command.id)
               other == Key(IF m \in DOMAIN order_owners
                            THEN order_owners[m].risk_client_id ELSE 0, m)
    <2>5. /\ m \in Booked(book) /\ m \in OrderId /\ incoming.side \in Side
          /\ w[m].side # incoming.side
          /\ w[m].left \in Nat /\ incoming.remaining_quantity \in Nat
          /\ incoming.remaining_quantity > 0
          /\ quantity = IF w[m].left < incoming.remaining_quantity THEN w[m].left
                        ELSE incoming.remaining_quantity
          /\ incoming'.id = incoming.id
      BY <2>2 DEF FillIs
    <2>6. m # command.id
      BY <2>3, <2>5
    <2>7. /\ RiskNow' = IF incoming.side = "Buy"
                        THEN Calls!on_trade(RiskNow, mine, other, quantity)
                        ELSE Calls!on_trade(RiskNow, other, mine, quantity)
          /\ CommandNow = [key |-> mine, side |-> incoming.side,
                           may_rest |-> may_rest(incoming),
                           remaining |-> incoming.remaining_quantity]
          /\ CommandNow' = [CommandNow EXCEPT !.remaining = @ - quantity]
      BY <2>2, <2>3, <2>4, <2>6, TradeIsReported
    <2>8. LET key == Key(WhoNow[m], m)
          IN  /\ m \notin DOMAIN order_owners => RestingNow' = RestingNow
              /\ m \in DOMAIN order_owners =>
                    /\ key \in DOMAIN RestingNow
                    /\ RestingNow[key] = [side |-> w[m].side, remaining_quantity |-> w[m].left]
                    /\ RestingNow' =
                          IF w[m].left = quantity THEN Calls!Erase(RestingNow, key)
                          ELSE [RestingNow EXCEPT ![key].remaining_quantity = @ - quantity]
              /\ Booked(book') \subseteq Booked(book)
      BY <2>2, <2>3, <2>4, <2>6, MakerIsFilled
    <2>9. CommandNow # NoCommand
      <3>1. command.id \in OrderId
        BY <1>2, RequestFields DEF ServerInv, TypeOK
      <3>2. may_rest(incoming) \in BOOLEAN
        BY DEF may_rest
      <3> QED
        BY <2>3, <2>5, <2>7, <3>1, <3>2, CommandIsOne
    <2>10. /\ mine.client = client_risk_ids[handler] /\ mine.symbol = TheSymbol
           /\ other.symbol = TheSymbol
           /\ other = [client |-> other.client, symbol |-> TheSymbol, id |-> m]
      BY KeyFields
    <2>11. /\ CommandNow.key = mine /\ CommandNow.side = incoming.side
           /\ CommandNow.remaining = incoming.remaining_quantity
      BY <2>7
    <2>12. quantity <= incoming.remaining_quantity
      BY <2>5
    <2>13. Calls!RiskInv'
      <3>1. CASE m \in DOMAIN order_owners
        <4>1. other = Key(WhoNow[m], m)
          BY <3>1 DEF WhoNow
        <4>2. /\ other \in DOMAIN RestingNow
              /\ RestingNow[other] = [side |-> w[m].side, remaining_quantity |-> w[m].left]
              /\ RestingNow' =
                    IF w[m].left = quantity THEN Calls!Erase(RestingNow, other)
                    ELSE [RestingNow EXCEPT ![other].remaining_quantity = @ - quantity]
          BY <2>8, <3>1, <4>1
        <4> HIDE DEF w, mine, other
        <4>3. RestingNow[other].side = w[m].side /\ RestingNow[other].remaining_quantity = w[m].left
          BY <4>2
        <4>4. Calls!Trade(other)
          BY <2>5, <2>7, <2>9, <2>10, <2>11, <4>2, <4>3 DEF Calls!Trade
        <4> QED
          BY <2>3, <4>2, <4>4, CallsAssumptions, Calls!TradeStep
      <3>2. CASE m \notin DOMAIN order_owners
        <4>1. other = [client |-> 0, symbol |-> TheSymbol, id |-> m]
          BY <3>2, KeyFields
        <4>2. RestingNow' = RestingNow
          BY <2>8, <3>2
        <4> HIDE DEF w, mine, other
        <4>3. Calls!TradeUnowned(m, quantity)
          BY <2>7, <2>9, <2>10, <2>11, <2>12, <4>1, <4>2 DEF Calls!TradeUnowned
        <4> QED
          BY <2>3, <2>5, <4>3, CallsAssumptions, Calls!TradeUnownedStep
      <3> QED
        BY <3>1, <3>2
    <2>14. CommandAtWork'
      <3>1. command.id \notin Booked(book')
        BY <2>3, <2>8
      <3> QED
        BY <1>0, <2>3, <2>5, <3>1 DEF CommandAtWork
    <2> QED
      BY <2>13, <2>14 DEF RiskKept
  <1> QED
    BY <1>1, <1>2

\* The end of matching, as the market shows it: what is left of the order joins it, or
\* nothing does.
LEMMA LoopEndIs ==
    ASSUME ServerInv, ServerInv', Engine!Rest \/ Engine!Complete,
           incoming.id = command.id, command.id \notin Booked(book)
    PROVE  /\ status' = "done"
           /\ command.id \in Booked(book') <=> may_rest(incoming) /\ incoming.remaining_quantity > 0
           /\ Booked(book') \ {command.id} = Booked(book) \ {command.id}
           /\ \A j \in Booked(book) :
                 Matching!WaitingIn(book')[j] = Matching!WaitingIn(book)[j]
           /\ command.id \in Booked(book') =>
                 /\ Matching!WaitingIn(book')[command.id].side = incoming.side
                 /\ Matching!WaitingIn(book')[command.id].left = incoming.remaining_quantity
  <1> DEFINE w == Matching!WaitingIn(book)
             v == Matching!WaitingIn(book')
  <1>1. status = "matching"
    BY DEF Engine!Rest, Engine!Complete, Engine!LoopDone
  <1>2. DOMAIN w = Booked(book) /\ DOMAIN v = Booked(book')
    BY ServerFacts, ServerFactsNext
  <1>3. CASE Engine!Complete
    <2>1. /\ status' = "done" /\ book' = book
          /\ ~(may_rest(incoming) /\ incoming.remaining_quantity > 0)
      BY <1>3 DEF Engine!Complete, Engine!may_rest, may_rest
    <2> QED
      BY <2>1
  <1>4. CASE Engine!Rest
    <2>1. /\ Matching!may_rest(incoming) /\ incoming.remaining_quantity > 0
          /\ status' = "done" /\ book' = Matching!add_order(book, incoming)
          /\ ~Matching!contains(book, incoming.id)
      <3>1. Matching!Rest /\ ~Matching!contains(book, incoming.id)
        BY <1>4, EngineIsMatching DEF Matching!contains, Booked
      <3> QED
        BY <3>1 DEF Matching!Rest
    <2>2. incoming \in Matching!Order
      BY <1>1, ServerFacts DEF Matching!TypeOK
    <2>3. Matching!Restable(incoming)
      BY <2>1 DEF Matching!may_rest, Matching!Restable
    <2>4. Matching!JoinsMarket(book, book', incoming)
      BY <2>1, <2>2, <2>3, ServerFacts, MatchingAssumptions, Matching!JoiningTheLine
    <2>5. v = [j \in DOMAIN w \cup {command.id} |->
                  IF j = command.id
                  THEN Matching!Seen(incoming.side, incoming.price, incoming) ELSE w[j]]
      BY <2>4 DEF Matching!JoinsMarket
    <2>6. may_rest(incoming)
      BY <2>1 DEF may_rest, Matching!may_rest
    <2> HIDE DEF w, v
    <2>7. Booked(book') = Booked(book) \cup {command.id}
      BY <1>2, <2>5
    <2>8. v[command.id] = Matching!Seen(incoming.side, incoming.price, incoming)
      BY <2>5
    <2>9. /\ v[command.id].side = incoming.side
          /\ v[command.id].left = incoming.remaining_quantity
      BY <2>8 DEF Matching!Seen
    <2>10. \A j \in Booked(book) : v[j] = w[j]
      BY <1>2, <2>5
    <2> QED
      BY <2>1, <2>6, <2>7, <2>9, <2>10 DEF w, v
  <1> QED
    BY <1>3, <1>4

\* The end of matching: what is left rests, or is dropped; the risk engine is told later.
LEMMA LoopEndKeepsRisk ==
    ASSUME ServerInv, ServerInv', CommandAtWork, RiskKept, Engine!Rest \/ Engine!Complete,
           UNCHANGED <<risk, order_owners, client_risk_ids, command, handler>>
    PROVE  CommandAtWork' /\ RiskKept'
  <1>0. status = "matching" /\ UNCHANGED <<incoming, trades>>
    BY DEF Engine!Rest, Engine!Complete, Engine!LoopDone
  <1>1. CASE command = NoCommand
    <2>1. RiskKept'
      BY <1>0, <1>1, EngineWorksFor, QuietIdle
    <2> QED
      BY <1>1, <2>1 DEF CommandAtWork, AtWork
  <1>2. CASE command # NoCommand
    <2> DEFINE w == Matching!WaitingIn(book)
               v == Matching!WaitingIn(book')
    <2>1. /\ AtWork /\ ~Failed /\ Calls!RiskInv /\ command.type # "CancelOrder"
          /\ incoming.id = command.id /\ command.id \notin Booked(book)
      BY <1>0, <1>2, EngineWorksFor
    <2>2. DOMAIN w = Booked(book) /\ DOMAIN v = Booked(book')
      BY ServerFacts, ServerFactsNext
    <2>3. /\ status' = "done"
          /\ command.id \in Booked(book') <=> may_rest(incoming) /\ incoming.remaining_quantity > 0
          /\ Booked(book') \ {command.id} = Booked(book) \ {command.id}
          /\ \A j \in Booked(book) : v[j] = w[j]
          /\ command.id \in Booked(book') =>
                v[command.id].side = incoming.side
                /\ v[command.id].left = incoming.remaining_quantity
      BY <2>1, LoopEndIs
    <2>4. AtWork' /\ ~Failed'
      BY <2>1, <2>3 DEF AtWork, Failed
    <2>5. /\ IdsNow = (DOMAIN order_owners \cap Booked(book)) \ {command.id}
          /\ IdsNow' = (DOMAIN order_owners \cap Booked(book')) \ {command.id}
      BY <2>1, <2>4 DEF IdsNow
    <2> HIDE DEF w, v
    <2>6. IdsNow' = IdsNow /\ \A id \in IdsNow : v[id] = w[id]
      BY <2>3, <2>5
    <2>7. RiskKept'
      BY <1>0, <1>2, <2>1, <2>6, QuietBusy DEF w, v
    <2>8. CommandAtWork'
      BY <1>0, <2>1, <2>3 DEF CommandAtWork, v
    <2> QED
      BY <2>7, <2>8
  <1> QED
    BY <1>1, <1>2

-----------------------------------------------------------------------------
(* The risk engine and the end of a command *)

\* A new order or a replacement is settled: a Finish of RiskEngine.
LEMMA FinishKeepsRisk ==
    ASSUME ServerInv, ServerInv', CommandAtWork, RiskKept, NEW first, FinishOrder(first),
           command.type # "CancelOrder"
    PROVE  CommandAtWork' /\ RiskKept'
  <1> DEFINE w == Matching!WaitingIn(book)
             id == command.id
             c == client_risk_ids[handler]
             mine == Key(c, id)
             rests == may_rest(incoming) /\ incoming.remaining_quantity > 0
  <1>1. /\ command # NoCommand /\ handler # 0 /\ command' = NoCommand /\ book' = book
        /\ status \in {"done", "killed"}
    BY DEF FinishOrder, Settle, Engine!Return
  <1>2. AtWork /\ ~AtWork' /\ ~Failed /\ Calls!RiskInv
    BY <1>1 DEF AtWork, Failed, RiskKept
  <1>3. /\ incoming.id = id /\ (id \in Booked(book) <=> rests)
        /\ id \in Booked(book) => /\ w[id].side = incoming.side
                                  /\ w[id].left = incoming.remaining_quantity
    BY <1>1, <1>2 DEF CommandAtWork
  <1>4. CommandNow = [key |-> mine, side |-> incoming.side, may_rest |-> may_rest(incoming),
                      remaining |-> incoming.remaining_quantity]
    BY <1>2 DEF CommandNow
  <1>5. /\ CommandNow.key = mine /\ CommandNow.side = incoming.side
        /\ CommandNow.may_rest = may_rest(incoming)
        /\ CommandNow.remaining = incoming.remaining_quantity
    BY <1>4
  <1>6. /\ CommandNow # NoCommand /\ CommandNow' = NoCommand
        /\ RiskNow = RiskAfterTrades /\ RiskNow' = risk'
    <2>1. c \in Client /\ id \in OrderId
      BY <1>1, RequestFields DEF ServerInv, TypeOK, OneAtATime
    <2>2. incoming \in Matching!Order
      BY <1>1, ServerFacts DEF Matching!TypeOK
    <2>3. /\ incoming.side \in Side /\ incoming.remaining_quantity \in Nat
          /\ may_rest(incoming) \in BOOLEAN
      BY <2>2, ModulusAssumption
         DEF Matching!Order, Matching!Side, Side, Matching!Quantity, may_rest
    <2>4. CommandNow # NoCommand
      BY <1>4, <2>1, <2>3, CommandIsOne
    <2> QED
      BY <1>1, <1>2, <2>4 DEF CommandNow, RiskNow
  <1>7. /\ RestingNow = View(IdsNow, WhoNow, w)
        /\ RestingNow' = View(IdsNow', WhoNow', w)
        /\ IdsNow = (DOMAIN order_owners \cap Booked(book)) \ {id}
        /\ IdsNow' = DOMAIN order_owners' \cap Booked(book)
    BY <1>1, <1>2, RestingIs, RestingIsNext, ServerFacts, ServerFactsNext DEF IdsNow
  <1> DEFINE left == remove_filled_order_owners
             owner == find_order_owner(id)
  <1>8. /\ owner.risk_client_id = c
        /\ DOMAIN left \cap Booked(book) = DOMAIN order_owners \cap Booked(book)
        /\ \A j \in DOMAIN left : left[j] = order_owners[j]
    BY DEF find_order_owner, remove_filled_order_owners, Restrict, FilledOrders, Booked, contains
  <1> HIDE DEF left, owner, w
  <1>9. Calls!Finish
    <2>1. CASE id \in Booked(book)
      <3> DEFINE o == OrderOf(book, id)
      <3>1. /\ order_owners' = Put(left, id, owner)
            /\ risk' = Risk!on_order_resting(RiskAfterTrades, Key(owner.risk_client_id, o.id),
                                             o.side, o.remaining_quantity)
        BY <2>1 DEF FinishOrder, left, owner, contains, Booked
      <3>2. o.id = id /\ o.side = incoming.side /\ o.remaining_quantity = incoming.remaining_quantity
        BY <1>3, <2>1, OrderOfIs, ServerFacts DEF w
      <3>3. RiskNow' = Calls!on_order_resting(RiskNow, CommandNow.key, CommandNow.side,
                                              CommandNow.remaining)
        <4>1. risk' = Risk!on_order_resting(RiskNow, mine, incoming.side,
                                            incoming.remaining_quantity)
          BY <1>6, <1>8, <3>1, <3>2
        <4> QED
          BY <1>5, <1>6, <4>1, RiskIsCalls
      <3>4. IdsNow' = IdsNow \cup {id} /\ id \notin IdsNow
        BY <1>7, <1>8, <2>1, <3>1 DEF Put
      <3>5. WhoNow'[id] = c /\ \A j \in IdsNow : WhoNow'[j] = WhoNow[j]
        <4>1. \A j \in DOMAIN order_owners' : WhoNow'[j] = order_owners'[j].risk_client_id
          BY DEF WhoNow
        <4>2. \A j \in DOMAIN order_owners : WhoNow[j] = order_owners[j].risk_client_id
          BY DEF WhoNow
        <4>3. /\ order_owners'[id] = owner /\ id \in DOMAIN order_owners'
              /\ \A j \in IdsNow : /\ j \in DOMAIN order_owners' /\ j \in DOMAIN order_owners
                                   /\ order_owners'[j] = order_owners[j]
          BY <1>7, <1>8, <3>1 DEF Put
        <4> QED
          BY <1>8, <4>1, <4>2, <4>3
      <3>6. View(IdsNow, WhoNow', w) = RestingNow
        BY <1>7, <3>5, ViewAgree
      <3>7. RestingNow' = Calls!Put(RestingNow, mine,
                              [side |-> w[id].side, remaining_quantity |-> w[id].left])
        <4>1. Calls!Put(View(IdsNow, WhoNow', w), Key(WhoNow'[id], id),
                        [side |-> w[id].side, remaining_quantity |-> w[id].left])
                 = View(IdsNow \cup {id}, WhoNow', w)
          BY <3>4, ViewMore
        <4> QED
          BY <1>7, <3>4, <3>5, <3>6, <4>1, Zenon
      <3>8. RestingNow' = Calls!Put(RestingNow, CommandNow.key,
                              [side |-> CommandNow.side,
                               remaining_quantity |-> CommandNow.remaining])
        BY <1>3, <1>5, <2>1, <3>7
      <3>9. CommandNow.may_rest /\ CommandNow.remaining > 0
        BY <1>3, <1>5, <2>1
      <3> HIDE DEF mine
      <3> QED
        BY <1>6, <3>3, <3>8, <3>9 DEF Calls!Finish
    <2>2. CASE id \notin Booked(book)
      <3>1. order_owners' = Erase(left, id) /\ risk' = RiskAfterTrades
        BY <2>2 DEF FinishOrder, left, contains, Booked
      <3>2. IdsNow' = IdsNow
        BY <1>7, <1>8, <2>2, <3>1 DEF Erase, Restrict
      <3>3. \A j \in IdsNow : WhoNow'[j] = WhoNow[j]
        <4>1. \A j \in IdsNow : /\ j \in DOMAIN order_owners' /\ j \in DOMAIN order_owners
                                /\ order_owners'[j] = order_owners[j]
          BY <1>7, <1>8, <3>1 DEF Erase, Restrict
        <4> QED
          BY <4>1 DEF WhoNow
      <3>4. RestingNow' = RestingNow
        BY <1>7, <3>2, <3>3, ViewAgree
      <3>5. ~(CommandNow.may_rest /\ CommandNow.remaining > 0)
        BY <1>3, <1>5, <2>2
      <3> QED
        BY <1>6, <3>1, <3>4, <3>5 DEF Calls!Finish
    <2> QED
      BY <2>1, <2>2
  <1>10. Calls!RiskInv'
    BY <1>2, <1>9, CallsAssumptions, Calls!FinishStep
  <1>11. CommandAtWork'
    BY <1>1 DEF CommandAtWork, AtWork
  <1> QED
    BY <1>10, <1>11 DEF RiskKept

\* A cancel is settled: the risk engine is told what was true since the order left.
LEMMA SettleCancelKeepsRisk ==
    ASSUME ServerInv, ServerInv', CommandAtWork, RiskKept, SettleCancel
    PROVE  CommandAtWork' /\ RiskKept'
  <1> DEFINE w == Matching!WaitingIn(book)
             key == Key(order_owners[command.id].risk_client_id, command.id)
  <1>1. /\ command # NoCommand /\ command' = NoCommand /\ book' = book
        /\ status = "cancelled" /\ order_owners' = Erase(order_owners, command.id)
        /\ risk' = Risk!on_order_cancelled(risk, key)
    BY DEF SettleCancel, Settle, Engine!Return
  <1>2. /\ ~AtWork /\ ~AtWork' /\ ~Failed /\ Calls!RiskInv
        /\ command.id \notin Booked(book)
    <2>1. command.type = "CancelOrder"
      BY <1>1 DEF ServerInv, OneAtATime
    <2> QED
      BY <1>1, <2>1 DEF AtWork, Failed, RiskKept, CommandAtWork
  <1>3. RiskNow' = RiskNow /\ CommandNow' = CommandNow
    BY <1>1, <1>2 DEF RiskNow, CommandNow
  <1>4. RestingNow' = RestingNow
    <2>1. /\ RestingNow = View(IdsNow, WhoNow, w)
          /\ RestingNow' = View(IdsNow', WhoNow', w)
      BY <1>1, RestingIs, RestingIsNext, ServerFacts, ServerFactsNext
    <2>2. IdsNow' = IdsNow
      BY <1>1, <1>2 DEF IdsNow, Erase, Restrict
    <2>3. \A j \in IdsNow : WhoNow'[j] = WhoNow[j]
      BY <1>1, <1>2 DEF WhoNow, IdsNow, Erase, Restrict
    <2> HIDE DEF w
    <2> QED
      BY <2>1, <2>2, <2>3, ViewAgree
  <1>5. Calls!RiskInv'
    BY <1>2, <1>3, <1>4, StutterKeepsRisk
  <1>6. CommandAtWork'
    BY <1>1 DEF CommandAtWork, AtWork
  <1> QED
    BY <1>5, <1>6 DEF RiskKept

\* The kill switch is the risk engine's own.
LEMMA SwitchKeepsRisk ==
    ASSUME ServerInv, ServerInv', RiskKept, NEW enabled \in BOOLEAN,
           set_global_kill_switch(enabled)
    PROVE  CommandAtWork' /\ RiskKept'
  <1>1. /\ command = NoCommand /\ command' = NoCommand
        /\ risk' = [risk EXCEPT !.global_kill_switch = enabled]
        /\ book' = book /\ order_owners' = order_owners
    BY DEF set_global_kill_switch, handlerVars, engineVars
  <1>2. /\ ~AtWork /\ ~AtWork' /\ RiskNow = risk /\ RiskNow' = risk'
        /\ CommandNow = NoCommand /\ CommandNow' = NoCommand /\ Calls!RiskInv
    BY <1>1 DEF AtWork, RiskNow, CommandNow, RiskKept, Failed
  <1>3. RestingNow' = RestingNow
    BY <1>1, <1>2, RestingIs, RestingIsNext, ServerFacts, ServerFactsNext DEF IdsNow, WhoNow
  <1>4. Calls!set_global_kill_switch(enabled)
    BY <1>1, <1>2, <1>3 DEF Calls!set_global_kill_switch
  <1>5. Calls!RiskInv'
    BY <1>2, <1>4, CallsAssumptions, Calls!KillSwitchStep
  <1>6. CommandAtWork'
    BY <1>1 DEF CommandAtWork, AtWork
  <1> QED
    BY <1>5, <1>6 DEF RiskKept

\* A process starts with a risk engine that knows nobody.
LEMMA StartsWithoutRisk ==
    risk = Risk!EmptyRisk /\ command = NoCommand /\ DOMAIN order_owners = {}
        => CommandAtWork /\ RiskKept
  <1> SUFFICES ASSUME risk = Risk!EmptyRisk, command = NoCommand, DOMAIN order_owners = {}
               PROVE  CommandAtWork /\ RiskKept
    OBVIOUS
  <1>1. ~AtWork /\ RiskNow = Calls!EmptyRisk /\ CommandNow = NoCommand
    BY RiskIsCalls DEF AtWork, RiskNow, CommandNow
  <1>2. RestingNow = Calls!EmptyMap
    BY <1>1 DEF RestingNow, OwnedOrders, Calls!EmptyMap
  <1>3. Calls!Init
    BY <1>1, <1>2 DEF Calls!Init
  <1>4. Calls!RiskInv
    BY <1>3, CallsAssumptions, Calls!InitRisk
  <1> QED
    BY <1>1, <1>4 DEF CommandAtWork, RiskKept

LEMMA StartsAgainWithoutRisk ==
    ASSUME risk' = Risk!EmptyRisk, command' = NoCommand, DOMAIN order_owners' = {}
    PROVE  CommandAtWork' /\ RiskKept'
  <1>1. (risk = Risk!EmptyRisk /\ command = NoCommand /\ DOMAIN order_owners = {}
            => CommandAtWork /\ RiskKept)'
    BY StartsWithoutRisk, PTL
  <1>2. Risk!EmptyRisk' = Risk!EmptyRisk
    BY DEF Risk!EmptyRisk, Risk!EmptyMap
  <1> QED
    BY <1>1, <1>2

-----------------------------------------------------------------------------
(* The risk engine through every step *)

\* Requests, accepted and refused.
LEMMA HandlersKeepRisk ==
    ASSUME ServerInv, ServerInv', CommandAtWork, RiskKept,
           NEW s \in Socket, NEW request \in Request,
           \/ handle_new_order(s, request)
           \/ handle_cancel_order(s, request)
           \/ handle_replace_order(s, request)
    PROVE  CommandAtWork' /\ RiskKept'
  <1>1. CASE Refuse(s, request.id) /\ Receives(s) /\ ServerUnchanged
             /\ UNCHANGED <<book, incoming, status>>
    BY <1>1, RefuseKeepsRisk
  <1>2. CASE handle_new_order(s, request)
    <2>1. Receives(s) /\ request.type = "NewOrder" /\ ServerUnchanged
      BY <1>2 DEF handle_new_order
    <2>2. CASE NewOrderAllowed(s, request)
      BY <1>2, <2>1, <2>2, NewOrderKeepsRisk DEF handle_new_order
    <2>3. CASE ~NewOrderAllowed(s, request)
      BY <1>1, <1>2, <2>1, <2>3 DEF handle_new_order
    <2> QED
      BY <2>2, <2>3
  <1>3. CASE handle_cancel_order(s, request)
    <2>1. Receives(s) /\ request.type = "CancelOrder" /\ ServerUnchanged
      BY <1>3 DEF handle_cancel_order
    <2>2. CASE Owns(s, request.id)
      BY <1>3, <2>1, <2>2, CancelKeepsRisk DEF handle_cancel_order
    <2>3. CASE ~Owns(s, request.id)
      BY <1>1, <1>3, <2>1, <2>3 DEF handle_cancel_order, engineVars
    <2> QED
      BY <2>2, <2>3
  <1>4. CASE handle_replace_order(s, request)
    <2> DEFINE allowed == /\ Owns(s, request.id)
                          /\ Risk!check_replace(risk, Key(client_risk_ids[s], request.id),
                                                request.price, request.quantity)
    <2>1. Receives(s) /\ request.type = "ReplaceOrder" /\ ServerUnchanged
      BY <1>4 DEF handle_replace_order
    <2>2. CASE allowed
      BY <1>4, <2>1, <2>2, ReplaceKeepsRisk DEF handle_replace_order
    <2>3. CASE ~allowed
      BY <1>1, <1>4, <2>1, <2>3 DEF handle_replace_order
    <2> QED
      BY <2>2, <2>3
  <1> QED
    BY <1>2, <1>3, <1>4

\* The messages, and the steps of recovery.
LEMMA QuietStepsKeepRisk ==
    ASSUME ServerInv, ServerInv', CommandAtWork, RiskKept,
           \/ Send \/ Restart \/ ReplayRecord \/ ReplayReturns
           \/ ReplayMisframed \/ FinishRecovery
    PROVE  CommandAtWork' /\ RiskKept'
  <1>1. /\ command = NoCommand /\ command' = NoCommand /\ UNCHANGED <<risk, order_owners>>
        /\ book' = book \/ DOMAIN order_owners = {}
    <2>1. CASE Send
      BY <2>1 DEF Send, engineVars, ServerInv, OneAtATime
    <2>2. CASE Restart \/ ReplayRecord \/ ReplayReturns \/ ReplayMisframed \/ FinishRecovery
      <3>1. phase # "running" /\ FileAndServerUnchanged
        BY <2>2 DEF Restart, ReplayRecord, ReplayReturns, ReplayMisframed, FinishRecovery
      <3> QED
        BY <3>1 DEF FileAndServerUnchanged, handlerVars, ServerInv, TypeOK, OneAtATime
    <2> QED
      BY <2>1, <2>2
  <1>2. RiskKept'
    BY <1>1, QuietIdle
  <1> QED
    BY <1>1, <1>2 DEF CommandAtWork, AtWork

LEMMA NextKeepsRisk ==
    ASSUME ServerInv, ServerInv', CommandAtWork, RiskKept, [Next]_vars
    PROVE  CommandAtWork' /\ RiskKept'
  <1>1. CASE Connect
    <2>1. UNCHANGED <<engineVars, risk, order_owners, handlerVars>>
      BY <1>1 DEF Connect
    <2>2. handler # 0 => client_risk_ids'[handler] = client_risk_ids[handler]
      BY <1>1 DEF Connect, register_client, ServerInv, TypeOK, OneAtATime
    <2> QED
      BY <2>1, <2>2, SessionsKeepRisk
  <1>2. ASSUME NEW s \in Socket, Disconnect(s) PROVE CommandAtWork' /\ RiskKept'
    <2>1. UNCHANGED <<engineVars, risk, order_owners, handlerVars>>
      BY <1>2 DEF Disconnect
    <2>2. handler # 0 => client_risk_ids'[handler] = client_risk_ids[handler]
      BY <1>2 DEF Disconnect, unregister_client, ServerInv, TypeOK
    <2> QED
      BY <2>1, <2>2, SessionsKeepRisk
  <1>3. ASSUME NEW s \in Socket, HandleMalformed(s) PROVE CommandAtWork' /\ RiskKept'
    BY <1>3, RefuseKeepsRisk DEF HandleMalformed, engineVars
  <1>4. ASSUME NEW s \in Socket, NEW request \in Request,
               \/ handle_new_order(s, request)
               \/ handle_cancel_order(s, request)
               \/ handle_replace_order(s, request)
        PROVE  CommandAtWork' /\ RiskKept'
    BY <1>4, HandlersKeepRisk
  <1>5. CASE EngineStep
    <2>1. UNCHANGED <<risk, order_owners, client_risk_ids, command, handler>>
      BY <1>5 DEF EngineStep, ServerUnchanged, sessionVars, handlerVars
    <2> QED
      BY <1>5, <2>1, MatchStepKeepsRisk, LoopEndKeepsRisk DEF EngineStep
  <1>6. CASE SettleNewOrder
    BY <1>6, FinishKeepsRisk DEF SettleNewOrder
  <1>7. CASE SettleReplace
    BY <1>7, FinishKeepsRisk DEF SettleReplace
  <1>8. CASE SettleCancel
    BY <1>8, SettleCancelKeepsRisk
  <1>9. CASE \/ Send \/ Restart \/ ReplayRecord \/ ReplayReturns
             \/ ReplayMisframed \/ FinishRecovery
    BY <1>9, QuietStepsKeepRisk
  <1>10. ASSUME NEW enabled \in BOOLEAN, set_global_kill_switch(enabled)
         PROVE  CommandAtWork' /\ RiskKept'
    BY <1>10, SwitchKeepsRisk
  <1>11. CASE Crash
    BY <1>11, StartsAgainWithoutRisk DEF Crash, EmptyMap
  <1>12. CASE UNCHANGED vars
    BY <1>12, SessionsKeepRisk DEF vars, sessionVars
  <1> QED
    BY <1>1, <1>2, <1>3, <1>4, <1>5, <1>6, <1>7, <1>8, <1>9, <1>10, <1>11, <1>12 DEF Next

LEMMA RiskInvariant == Spec => [](ServerInv /\ CommandAtWork /\ RiskKept)
  <1>1. Init => ServerInv /\ CommandAtWork /\ RiskKept
    BY InitServerInv, StartsWithoutRisk DEF Init, EmptyMap
  <1>2. ServerInv /\ CommandAtWork /\ RiskKept /\ [Next]_vars
           => (ServerInv /\ CommandAtWork /\ RiskKept)'
    BY NextKeepsServerInv, NextKeepsRisk
  <1> QED
    BY <1>1, <1>2, PTL DEF Spec

\* Between commands the risk engine is the one that RiskEngineProofs is about.
LEMMA BetweenCommands ==
    ASSUME RiskKept, command = NoCommand
    PROVE  /\ Calls!RiskInv
           /\ RiskNow = risk /\ RestingNow = OwnedOrders /\ CommandNow = NoCommand
  BY DEF RiskKept, Failed, AtWork, RiskNow, RestingNow, CommandNow

-----------------------------------------------------------------------------
(* What a listener makes of a sequence of messages *)

\* A listener that knows a and hears the messages s comes to know b.
Heard(a, s, b) ==
    \E h : /\ h[0] = a /\ h[Len(s)] = b
           /\ \A i \in 1 .. Len(s) : h[i] = Hear(h[i - 1], s[i])

LEMMA HeardNone ==
    ASSUME NEW a
    PROVE  Heard(a, <<>>, a)
  <1> DEFINE h == [i \in 0 .. 0 |-> a]
  <1>1. h[0] = a /\ Len(<<>>) = 0
    OBVIOUS
  <1>2. \A i \in 1 .. 0 : FALSE
    OBVIOUS
  <1> HIDE DEF h
  <1> QED
    BY <1>1, <1>2 DEF Heard

LEMMA HeardOne ==
    ASSUME NEW a, NEW m
    PROVE  Heard(a, <<m>>, Hear(a, m))
  <1> DEFINE h == [i \in 0 .. 1 |-> IF i = 0 THEN a ELSE Hear(a, m)]
  <1>1. h[0] = a /\ h[1] = Hear(a, m) /\ Len(<<m>>) = 1 /\ <<m>>[1] = m
    OBVIOUS
  <1> HIDE DEF h
  <1>2. \A i \in 1 .. 1 : h[i] = Hear(h[i - 1], <<m>>[i])
    <2> SUFFICES ASSUME NEW i \in 1 .. 1
                 PROVE  h[i] = Hear(h[i - 1], <<m>>[i])
      OBVIOUS
    <2>1. i = 1 /\ i - 1 = 0
      OBVIOUS
    <2> QED
      BY <1>1, <2>1
  <1> QED
    BY <1>1, <1>2 DEF Heard

\* Messages that change nothing.
LEMMA HeardInVain ==
    ASSUME NEW a, NEW s, IsSequence(s), \A i \in 1 .. Len(s) : Hear(a, s[i]) = a
    PROVE  Heard(a, s, a)
  <1>1. PICK S : s \in Seq(S)
    BY DEF IsSequence
  <1>2. Len(s) \in Nat
    BY <1>1
  <1> DEFINE h == [i \in 0 .. Len(s) |-> a]
  <1>3. h[0] = a /\ h[Len(s)] = a /\ \A i \in 1 .. Len(s) : h[i] = a /\ h[i - 1] = a
    BY <1>2
  <1> HIDE DEF h
  <1> QED
    BY <1>3 DEF Heard

\* One sequence after the other.
LEMMA HeardThen ==
    ASSUME NEW a, NEW b, NEW c, NEW s, NEW t, IsSequence(s), IsSequence(t),
           Heard(a, s, b), Heard(b, t, c)
    PROVE  Heard(a, s \o t, c)
  <1>1. PICK S : s \in Seq(S)
    BY DEF IsSequence
  <1>2. PICK T : t \in Seq(T)
    BY DEF IsSequence
  <1> DEFINE m == Len(s)
             n == Len(t)
  <1>3. /\ m \in Nat /\ n \in Nat /\ Len(s \o t) = m + n
        /\ \A i \in 1 .. m : (s \o t)[i] = s[i]
        /\ \A i \in m + 1 .. m + n : (s \o t)[i] = t[i - m]
    <2>1. s \in Seq(S \cup T) /\ t \in Seq(S \cup T)
      BY <1>1, <1>2
    <2> QED
      BY <2>1
  <1>4. PICK f : /\ f[0] = a /\ f[m] = b
                 /\ \A i \in 1 .. m : f[i] = Hear(f[i - 1], s[i])
    BY Zenon DEF Heard
  <1>5. PICK g : /\ g[0] = b /\ g[n] = c
                 /\ \A i \in 1 .. n : g[i] = Hear(g[i - 1], t[i])
    BY DEF Heard
  <1> DEFINE h == [i \in 0 .. m + n |-> IF i <= m THEN f[i] ELSE g[i - m]]
  <1> HIDE DEF m, n
  <1>6. /\ \A i \in 0 .. m : h[i] = f[i]
        /\ \A i \in m .. m + n : h[i] = g[i - m]
    <2>1. \A i \in 0 .. m : h[i] = f[i]
      BY <1>3
    <2>2. ASSUME NEW i \in m .. m + n PROVE h[i] = g[i - m]
      <3>1. CASE i = m
        <4>1. i \in 0 .. m /\ i - m = 0
          BY <1>3, <3>1
        <4> QED
          BY <1>4, <1>5, <2>1, <3>1, <4>1
      <3>2. CASE i # m
        <4>1. i \in 0 .. m + n /\ ~(i <= m)
          BY <1>3, <3>2
        <4> QED
          BY <4>1
      <3> QED
        BY <3>1, <3>2
    <2> QED
      BY <2>1, <2>2
  <1> HIDE DEF h
  <1>7. h[0] = a /\ h[m + n] = c
    BY <1>3, <1>4, <1>5, <1>6
  <1>8. ASSUME NEW i \in 1 .. m + n
        PROVE  h[i] = Hear(h[i - 1], (s \o t)[i])
    <2>1. CASE i <= m
      <3>1. h[i] = f[i] /\ h[i - 1] = f[i - 1] /\ (s \o t)[i] = s[i] /\ i \in 1 .. m
        BY <1>3, <1>6, <2>1
      <3> QED
        BY <1>4, <3>1
    <2>2. CASE i > m
      <3>1. /\ h[i] = g[i - m] /\ h[i - 1] = g[(i - m) - 1] /\ (s \o t)[i] = t[i - m]
            /\ i - m \in 1 .. n
        <4>1. i - 1 \in m .. m + n /\ (i - 1) - m = (i - m) - 1 /\ i \in m + 1 .. m + n
          BY <1>3, <2>2
        <4> QED
          BY <1>3, <1>6, <2>2, <4>1
      <3> QED
        BY <1>5, <3>1
    <2> QED
      BY <1>3, <2>1, <2>2
  <1> QED
    BY <1>3, <1>7, <1>8, Zenon DEF Heard

\* The first message is heard.
LEMMA HeardFirst ==
    ASSUME NEW a, NEW b, NEW s, IsSequence(s), s # <<>>, Heard(a, s, b)
    PROVE  Heard(Hear(a, Head(s)), Tail(s), b)
  <1>1. PICK S : s \in Seq(S)
    BY DEF IsSequence
  <1> DEFINE n == Len(Tail(s))
  <1>2. /\ n \in Nat /\ Len(s) = n + 1 /\ Head(s) = s[1]
        /\ \A i \in 1 .. n : Tail(s)[i] = s[i + 1]
    BY <1>1
  <1>3. PICK f : /\ f[0] = a /\ f[n + 1] = b
                 /\ \A i \in 1 .. n + 1 : f[i] = Hear(f[i - 1], s[i])
    BY <1>2 DEF Heard
  <1> HIDE DEF n
  <1> DEFINE h == [i \in 0 .. n |-> f[i + 1]]
  <1>4. \A i \in 0 .. n : h[i] = f[i + 1]
    OBVIOUS
  <1> HIDE DEF h
  <1>5. h[0] = Hear(a, Head(s)) /\ h[n] = b
    <2>1. f[1] = Hear(f[1 - 1], s[1]) /\ 1 - 1 = 0
      BY <1>2, <1>3
    <2> QED
      BY <1>2, <1>3, <1>4, <2>1
  <1>6. ASSUME NEW i \in 1 .. n
        PROVE  h[i] = Hear(h[i - 1], Tail(s)[i])
    <2>1. h[i] = f[i + 1] /\ h[i - 1] = f[(i - 1) + 1] /\ i + 1 \in 1 .. n + 1
          /\ i - 1 \in 0 .. n /\ (i - 1) + 1 = (i + 1) - 1
      BY <1>2, <1>4
    <2> QED
      BY <1>2, <1>3, <2>1
  <1> QED
    BY <1>5, <1>6 DEF Heard, n

\* All that is left is nothing.
LEMMA HeardAll ==
    ASSUME NEW a, NEW b, Heard(a, <<>>, b)
    PROVE  b = a
  <1>1. Len(<<>>) = 0
    OBVIOUS
  <1> QED
    BY <1>1 DEF Heard

\* What a listener knows.
Knows(top, orders) == [top |-> top, orders |-> orders]

\* Answers and private executions are not for the listeners.
LEMMA HearNothing ==
    ASSUME NEW m, NEW x, x.kind \in {"response", "execution"}
    PROVE  Hear(m, x) = m
  BY DEF Hear

\* What the other messages tell.
LEMMA HearIs ==
    ASSUME NEW top, NEW f
    PROVE  LET m == Knows(top, f)
           IN  /\ \A snapshot : Hear(m, [kind |-> "book_update", snapshot |-> snapshot])
                                   = Knows(snapshot, f)
               /\ \A id : Hear(m, Deleted(id)) = Knows(top, Erase(f, id))
               /\ \A o : Hear(m, [kind |-> "add", order |-> o]) = Knows(top, Put(f, o.id, o))
               /\ \A t : Hear(m, [kind |-> "executed", trade |-> t]) = Knows(top, Reduced(f, t))
  <1> DEFINE m == Knows(top, f)
  <1>0. /\ m.top = top /\ m.orders = f
        /\ \A a : [m EXCEPT !.top = a] = Knows(a, f)
        /\ \A g : [m EXCEPT !.orders = g] = Knows(top, g)
    BY DEF Knows
  <1> HIDE DEF m
  <1>1. ASSUME NEW snapshot
        PROVE  Hear(m, [kind |-> "book_update", snapshot |-> snapshot]) = Knows(snapshot, f)
    BY <1>0 DEF Hear
  <1>2. ASSUME NEW id PROVE Hear(m, Deleted(id)) = Knows(top, Erase(f, id))
    <2>1. Deleted(id).kind = "deleted" /\ Deleted(id).id = id
      BY DEF Deleted
    <2>2. Hear(m, Deleted(id)) = [m EXCEPT !.orders = Erase(m.orders, id)]
      BY <2>1 DEF Hear
    <2> QED
      BY <1>0, <2>2
  <1>3. ASSUME NEW o
        PROVE  Hear(m, [kind |-> "add", order |-> o]) = Knows(top, Put(f, o.id, o))
    <2> DEFINE x == [kind |-> "add", order |-> o]
    <2>1. x.kind = "add" /\ x.order = o
      OBVIOUS
    <2> HIDE DEF x
    <2>2. Hear(m, x) = [m EXCEPT !.orders = Put(m.orders, o.id, o)]
      BY <2>1 DEF Hear
    <2> QED
      BY <1>0, <2>2 DEF x
  <1>4. ASSUME NEW t
        PROVE  Hear(m, [kind |-> "executed", trade |-> t]) = Knows(top, Reduced(f, t))
    <2> DEFINE x == [kind |-> "executed", trade |-> t]
    <2>1. x.kind = "executed" /\ x.trade = t
      OBVIOUS
    <2> HIDE DEF x
    <2>2. Hear(m, x) = [m EXCEPT !.orders = Reduced(m.orders, t)]
      BY <2>1 DEF Hear
    <2> QED
      BY <1>0, <2>2 DEF x
  <1> QED
    BY <1>1, <1>2, <1>3, <1>4 DEF m

\* A listener that hears the deletions has the other orders left.
LEMMA HeardDeletions ==
    ASSUME trades \in Seq(Engine!Trade), NEW top, NEW f, f = [id \in DOMAIN f |-> f[id]]
    PROVE  Heard(Knows(top, f), Level3Deletions,
                 Knows(top, Restrict(f, DOMAIN f \ FilledOrders)))
  <1>1. PICK n \in Nat : \E order \in [1 .. n -> FilledOrders] :
           /\ \A id \in FilledOrders : \E i \in 1 .. n : order[i] = id
           /\ Level3Deletions = [i \in 1 .. n |-> Deleted(order[i])]
    BY DeletionsAre
  <1>2. PICK order \in [1 .. n -> FilledOrders] :
           /\ \A id \in FilledOrders : \E i \in 1 .. n : order[i] = id
           /\ Level3Deletions = [i \in 1 .. n |-> Deleted(order[i])]
    BY <1>1, Zenon
  <1> DEFINE left(i) == DOMAIN f \ {order[j] : j \in 1 .. i}
             h == [i \in 0 .. n |-> Knows(top, Restrict(f, left(i)))]
  <1>3. Len(Level3Deletions) = n /\ \A i \in 1 .. n : Level3Deletions[i] = Deleted(order[i])
    BY <1>2
  <1>4. h[n] = Knows(top, Restrict(f, DOMAIN f \ FilledOrders))
    <2>1. left(n) = DOMAIN f \ FilledOrders
      BY <1>2
    <2> HIDE DEF left
    <2>2. n \in 0 .. n
      OBVIOUS
    <2> QED
      BY <2>1, <2>2, Zenon
  <1>5. h[0] = Knows(top, f)
    <2>1. left(0) = DOMAIN f
      <3>1. 1 .. 0 = {}
        OBVIOUS
      <3> QED
        BY <3>1, Zenon
    <2> HIDE DEF left
    <2> QED
      BY <2>1 DEF Restrict
  <1>6. ASSUME NEW i \in 1 .. n PROVE h[i] = Hear(h[i - 1], Level3Deletions[i])
    <2>1. i - 1 \in 0 .. n /\ i \in 0 .. n
      OBVIOUS
    <2>2. h[i - 1] = Knows(top, Restrict(f, left(i - 1))) /\ h[i] = Knows(top, Restrict(f, left(i)))
      BY <2>1
    <2>3. Hear(h[i - 1], Level3Deletions[i])
             = Knows(top, Erase(Restrict(f, left(i - 1)), order[i]))
      BY <1>3, <2>2, HearIs
    <2>4. left(i) = left(i - 1) \ {order[i]}
      OBVIOUS
    <2> HIDE DEF left
    <2>5. Erase(Restrict(f, left(i - 1)), order[i]) = Restrict(f, left(i))
      BY <2>4 DEF Erase, Restrict
    <2> QED
      BY <2>2, <2>3, <2>5
  <1> HIDE DEF h
  <1> QED
    BY <1>3, <1>4, <1>5, <1>6 DEF Heard

-----------------------------------------------------------------------------
(* The feed during a command *)

\* The level-3 view of some orders of a book.
Shown(b, ids) == [id \in ids |-> Level3(OrderOf(b, id))]

\* What is still to be sent brings a listener to the book.
Told ==
    \E top \in {Nothing, capture_book_snapshot(book)} :
        Heard(market, outbox, Knows(top, Shown(book, DOMAIN order_owners)))

\* During a command the listener has an order for every owner.
Held ==
    /\ market = Knows(market.top, market.orders)
    /\ market.orders = [id \in DOMAIN order_owners |-> market.orders[id]]

\* The executions of the command bring a listener that has forgotten the command's
\* own order to what is left of those that still rest.
Due ==
    \A top : \E f :
        /\ Heard(Knows(top, Erase(market.orders, command.id)), Level3Executions, Knows(top, f))
        /\ f = [id \in DOMAIN order_owners \ {command.id} |-> f[id]]
        /\ \A id \in DOMAIN f \cap Booked(book) : f[id] = Level3(OrderOf(book, id))

FeedUnderWay ==
    /\ phase # "running" => market = NothingHeard
    /\ command = NoCommand => Told
    /\ command # NoCommand => Held
    /\ command # NoCommand /\ command.type = "NewOrder" => command.id \notin DOMAIN order_owners
    /\ AtWork /\ ~Failed => Due
    /\ command # NoCommand /\ command.type = "CancelOrder" /\ ~Failed =>
          \A id \in DOMAIN order_owners \ {command.id} :
              market.orders[id] = Level3(OrderOf(book, id))

\* The level-3 view of an order is the market's.
LEMMA Level3Is ==
    ASSUME NEW b, Matching!WellFormed(b), NEW id \in Booked(b)
    PROVE  LET w == Matching!WaitingIn(b)[id]
           IN  Level3(OrderOf(b, id))
                  = [id |-> id, side |-> w.side, price |-> w.price, quantity |-> w.left]
  BY OrderOfIs DEF Level3

\* An order that the market sees as before is shown as before.
LEMMA Level3Same ==
    ASSUME NEW b, Matching!WellFormed(b), NEW c, Matching!WellFormed(c),
           NEW id \in Booked(b), id \in Booked(c),
           Matching!WaitingIn(c)[id] = Matching!WaitingIn(b)[id]
    PROVE  Level3(OrderOf(c, id)) = Level3(OrderOf(b, id))
  BY Level3Is

\* The engine has an order cancelled, or fails.
LEMMA CancelIs ==
    ASSUME ServerInv, NEW id \in Booked(book), Engine!CancelOrder(id)
    PROVE  \/ status' \in {"not_found", "logic_error"}
           \/ Matching!LeavesMarket(book, book', id)
  <1>1. Matching!CancelOrder(id) /\ Matching!contains(book, id)
    BY EngineIsMatching DEF Matching!contains, Booked
  <1>2. \/ status' \in {"not_found", "logic_error"}
        \/ \E i : /\ Matching!contains(book, id) /\ Matching!IsPosition(book, id, i)
                  /\ ~Matching!erase_throws(book, id, i)
                  /\ book' = Matching!extract_order(book, id, i)
    BY <1>1 DEF Matching!CancelOrder
  <1> QED
    BY <1>2, ServerFacts, MatchingAssumptions, Matching!ExtractLeaves

\* The engine has an order taken out to be replaced, or fails.
LEMMA ReplaceIs ==
    ASSUME ServerInv, NEW id \in Booked(book), NEW price, NEW quantity,
           Engine!ReplaceOrder(id, price, quantity)
    PROVE  /\ trades' = <<>>
           /\ \/ status' \in {"not_found", "logic_error"}
              \/ Matching!LeavesMarket(book, book', id)
  <1>1. Matching!ReplaceOrder(id, price, quantity) /\ Matching!contains(book, id)
    BY EngineIsMatching DEF Matching!contains, Booked
  <1>2. /\ trades' = <<>>
        /\ \/ status' \in {"not_found", "logic_error"}
           \/ \E i : /\ Matching!contains(book, id) /\ Matching!IsPosition(book, id, i)
                     /\ ~Matching!erase_throws(book, id, i)
                     /\ book' = Matching!extract_order(book, id, i)
    BY <1>1, Zenon DEF Matching!ReplaceOrder, Matching!StartProcessing
  <1> QED
    BY <1>2, ServerFacts, MatchingAssumptions, Matching!ExtractLeaves

\* An order that leaves takes nobody with it.
LEMMA LeavingIsShown ==
    ASSUME ServerInv, ServerInv', NEW id, Matching!LeavesMarket(book, book', id)
    PROVE  /\ Booked(book') = Booked(book) \ {id}
           /\ \A j \in Booked(book') : Level3(OrderOf(book', j)) = Level3(OrderOf(book, j))
  <1> DEFINE w == Matching!WaitingIn(book)
             v == Matching!WaitingIn(book')
  <1>1. DOMAIN w = Booked(book) /\ DOMAIN v = Booked(book')
    BY ServerFacts, ServerFactsNext
  <1>2. v = [j \in DOMAIN w \ {id} |-> w[j]]
    BY DEF Matching!LeavesMarket
  <1> HIDE DEF w, v
  <1>3. Booked(book') = Booked(book) \ {id} /\ \A j \in Booked(book') : v[j] = w[j]
    BY <1>1, <1>2
  <1> QED
    BY <1>3, Level3Same, ServerFacts, ServerFactsNext DEF w, v

\* An order that is filled in part is shown with less.
LEMMA ShrinkingIsShown ==
    ASSUME ServerInv, ServerInv', NEW m \in Booked(book), NEW quantity,
           Matching!ShrinksInMarket(book, book', m, quantity)
    PROVE  /\ Booked(book') = Booked(book)
           /\ \A j \in Booked(book) \ {m} : Level3(OrderOf(book', j)) = Level3(OrderOf(book, j))
           /\ Level3(OrderOf(book', m))
                 = [Level3(OrderOf(book, m)) EXCEPT !.quantity = @ - quantity]
  <1> DEFINE w == Matching!WaitingIn(book)
             v == Matching!WaitingIn(book')
  <1>1. DOMAIN w = Booked(book) /\ DOMAIN v = Booked(book')
    BY ServerFacts, ServerFactsNext
  <1>2. v = [w EXCEPT ![m].left = @ - quantity]
    BY DEF Matching!ShrinksInMarket
  <1>3. w[m] = [side |-> w[m].side, price |-> w[m].price, left |-> w[m].left]
    BY <1>1 DEF Matching!WaitingIn
  <1> HIDE DEF w, v
  <1>4. Booked(book') = Booked(book) /\ \A j \in Booked(book) \ {m} : v[j] = w[j]
    BY <1>1, <1>2
  <1>5. v[m] = [w[m] EXCEPT !.left = @ - quantity]
    BY <1>1, <1>2
  <1>6. v[m].side = w[m].side /\ v[m].price = w[m].price /\ v[m].left = w[m].left - quantity
    BY <1>3, <1>5
  <1>7. /\ Level3(OrderOf(book, m)) = [id |-> m, side |-> w[m].side, price |-> w[m].price,
                                       quantity |-> w[m].left]
        /\ Level3(OrderOf(book', m)) = [id |-> m, side |-> v[m].side, price |-> v[m].price,
                                        quantity |-> v[m].left]
    BY <1>4, Level3Is, ServerFacts, ServerFactsNext DEF w, v
  <1>8. Level3(OrderOf(book', m))
           = [Level3(OrderOf(book, m)) EXCEPT !.quantity = @ - quantity]
    BY <1>6, <1>7
  <1> QED
    BY <1>4, <1>8, Level3Same, ServerFacts, ServerFactsNext DEF w, v

\* A sequence with one more element, field by field.
LEMMA OneMore ==
    ASSUME NEW S, NEW s \in Seq(S), NEW e \in S
    PROVE  /\ s \o <<e>> = [i \in 1 .. Len(s) + 1 |-> (s \o <<e>>)[i]]
           /\ \A i \in 1 .. Len(s) : (s \o <<e>>)[i] = s[i]
           /\ (s \o <<e>>)[Len(s) + 1] = e
  <1>1. s \o <<e>> \in Seq(S) /\ Len(s \o <<e>>) = Len(s) + 1
    OBVIOUS
  <1>2. s \o <<e>> = [i \in 1 .. Len(s) + 1 |-> (s \o <<e>>)[i]]
    BY <1>1
  <1>3. \A i \in 1 .. Len(s) : (s \o <<e>>)[i] = s[i]
    OBVIOUS
  <1>4. (s \o <<e>>)[Len(s) + 1] = e
    OBVIOUS
  <1> QED
    BY <1>2, <1>3, <1>4

\* One more trade is one more message.
LEMMA ExecutionsGrow ==
    ASSUME trades \in Seq(Engine!Trade), NEW t, t \in Engine!Trade, trades' = Append(trades, t)
    PROVE  Level3Executions' = Level3Executions \o <<[kind |-> "executed", trade |-> t]>>
  <1> DEFINE x(u) == [kind |-> "executed", trade |-> u]
             n == Len(trades)
  <1>1. /\ n \in Nat /\ DOMAIN trades = 1 .. n /\ DOMAIN trades' = 1 .. n + 1
        /\ \A i \in 1 .. n : trades'[i] = trades[i]
        /\ trades'[n + 1] = t
    OBVIOUS
  <1> HIDE DEF n, x
  <1>2. /\ Level3Executions = [i \in 1 .. n |-> x(trades[i])]
        /\ Level3Executions' = [i \in 1 .. n + 1 |-> x(trades'[i])]
    BY <1>1 DEF Level3Executions, x
  <1> DEFINE s == Level3Executions
  <1>3. s \in Seq({x(trades[i]) : i \in 1 .. n}) /\ Len(s) = n
    BY <1>1, <1>2
  <1>4. PICK S : s \in Seq(S) /\ x(t) \in S
    <2> DEFINE S == {x(trades[i]) : i \in 1 .. n} \cup {x(t)}
    <2>1. s \in Seq(S)
      BY <1>1, <1>2
    <2>2. x(t) \in S
      OBVIOUS
    <2> HIDE DEF S
    <2> QED
      BY <2>1, <2>2
  <1> DEFINE r == s \o <<x(t)>>
  <1> HIDE DEF s
  <1>5. /\ r = [i \in 1 .. n + 1 |-> r[i]]
        /\ \A i \in 1 .. n : r[i] = s[i]
        /\ r[n + 1] = x(t)
    <2>1. /\ r = [i \in 1 .. Len(s) + 1 |-> r[i]]
          /\ \A i \in 1 .. Len(s) : r[i] = s[i]
          /\ r[Len(s) + 1] = x(t)
      BY <1>4, OneMore, Zenon
    <2>2. Len(s) = n
      BY <1>3
    <2> HIDE DEF r
    <2> QED
      BY <2>1, <2>2, Zenon
  <1>6. \A i \in 1 .. n + 1 : r[i] = x(trades'[i])
    <2> SUFFICES ASSUME NEW i \in 1 .. n + 1 PROVE r[i] = x(trades'[i])
      BY Zenon
    <2>1. CASE i \in 1 .. n
      BY <1>1, <1>2, <1>5, <2>1 DEF s
    <2>2. CASE i = n + 1
      BY <1>1, <1>5, <2>2
    <2>3. i \in 1 .. n \/ i = n + 1
      BY <1>1
    <2> HIDE DEF r
    <2> QED
      BY <2>1, <2>2, <2>3, Zenon
  <1> HIDE DEF r
  <1>7. r = [i \in 1 .. n + 1 |-> x(trades'[i])]
    BY <1>5, <1>6, Zenon
  <1> QED
    BY <1>2, <1>7, Zenon DEF r, s, x

\* The state of a listener in a running process without a command.
LEMMA NoneShown ==
    ASSUME NEW b
    PROVE  NothingHeard = Knows(Nothing, Shown(b, {}))
  <1>1. Shown(b, {}) = EmptyMap
    BY DEF Shown, EmptyMap
  <1> QED
    BY <1>1 DEF NothingHeard, Knows

\* A process that has sent nothing and has no owners.
LEMMA NothingToTell ==
    command = NoCommand /\ outbox = <<>> /\ market = NothingHeard /\ DOMAIN order_owners = {}
        => FeedUnderWay
  <1> SUFFICES ASSUME command = NoCommand, outbox = <<>>, market = NothingHeard,
                      DOMAIN order_owners = {}
               PROVE  FeedUnderWay
    OBVIOUS
  <1>1. Told
    <2>1. Heard(market, outbox, Knows(Nothing, Shown(book, DOMAIN order_owners)))
      BY NoneShown, HeardNone
    <2> QED
      BY <2>1 DEF Told
  <1> QED
    BY <1>1 DEF FeedUnderWay, AtWork

LEMMA NothingToTellAgain ==
    ASSUME command' = NoCommand, outbox' = <<>>, market' = NothingHeard,
           DOMAIN order_owners' = {}
    PROVE  FeedUnderWay'
  <1>1. (command = NoCommand /\ outbox = <<>> /\ market = NothingHeard
           /\ DOMAIN order_owners = {} => FeedUnderWay)'
    BY NothingToTell, PTL
  <1> QED
    BY <1>1

\* A step that has nothing to do with the feed.
LEMMA QuietKeepsFeed ==
    ASSUME FeedUnderWay,
           UNCHANGED <<book, trades, status, phase, order_owners, command, outbox, market>>
    PROVE  FeedUnderWay'
  <1>1. Told => Told'
    BY DEF Told
  <1>2. Held => Held'
    BY DEF Held
  <1>3. Level3Executions' = Level3Executions
    BY DEF Level3Executions
  <1>4. Due => Due'
    BY <1>3 DEF Due
  <1>5. (AtWork' => AtWork) /\ (Failed => Failed')
    BY DEF AtWork, Failed
  <1> QED
    BY <1>1, <1>2, <1>4, <1>5 DEF FeedUnderWay

\* Between commands, with nothing to send.
LEMMA IdleFeed ==
    ASSUME FeedUnderWay, command = NoCommand, outbox = <<>>
    PROVE  \E top \in {Nothing, capture_book_snapshot(book)} :
               market = Knows(top, Shown(book, DOMAIN order_owners))
  <1>1. PICK top \in {Nothing, capture_book_snapshot(book)} :
           Heard(market, outbox, Knows(top, Shown(book, DOMAIN order_owners)))
    BY DEF FeedUnderWay, Told
  <1> QED
    BY <1>1, HeardAll

LEMMA IdleHolds ==
    ASSUME FeedUnderWay, command = NoCommand, outbox = <<>>
    PROVE  Held /\ \A id \in DOMAIN order_owners : market.orders[id] = Level3(OrderOf(book, id))
  <1>1. PICK top : market = Knows(top, Shown(book, DOMAIN order_owners))
    BY IdleFeed
  <1>2. market.top = top /\ market.orders = Shown(book, DOMAIN order_owners)
    BY <1>1 DEF Knows
  <1>3. market.orders = [id \in DOMAIN order_owners |-> market.orders[id]]
    BY <1>2 DEF Shown
  <1> QED
    BY <1>1, <1>2, <1>3 DEF Held, Shown

\* A refusal tells the listeners nothing.
LEMMA RefuseKeepsFeed ==
    ASSUME ServerInv, FeedUnderWay, NEW s \in Socket, NEW id,
           Receives(s), Refuse(s, id), ServerUnchanged, UNCHANGED book
    PROVE  FeedUnderWay'
  <1>1. /\ command = NoCommand /\ outbox = <<>> /\ phase = "running" /\ phase' = "running"
        /\ command' = NoCommand /\ outbox' = <<Response(s, id, FALSE)>>
        /\ UNCHANGED <<book, market, order_owners>>
    BY NothingUnderWay DEF Refuse, ServerUnchanged
  <1>2. PICK top \in {Nothing, capture_book_snapshot(book)} :
           market = Knows(top, Shown(book, DOMAIN order_owners))
    BY <1>1, IdleFeed
  <1>3. Hear(market, Response(s, id, FALSE)) = market
    <2> DEFINE x == Response(s, id, FALSE)
    <2>1. x.kind = "response"
      BY DEF Response
    <2> HIDE DEF x
    <2>2. Hear(market, x) = market
      BY <2>1, HearNothing
    <2> QED
      BY <2>2, Zenon DEF x
  <1>4. Heard(market', outbox', Knows(top, Shown(book', DOMAIN order_owners')))
    <2>1. Heard(market, <<Response(s, id, FALSE)>>, market)
      BY <1>3, HeardOne, Zenon
    <2> QED
      BY <1>1, <1>2, <2>1
  <1>5. Told'
    BY <1>1, <1>4 DEF Told
  <1> QED
    BY <1>1, <1>5 DEF FeedUnderWay, AtWork

\* A command whose call has left the other orders alone, and that has not traded.
LEMMA StartsDue ==
    ASSUME trades' = <<>>, UNCHANGED <<market, order_owners>>, Held,
           \A id \in (DOMAIN order_owners \cap Booked(book')) \ {command'.id} :
              market.orders[id] = Level3(OrderOf(book', id))
    PROVE  Due'
  <1> DEFINE f == Erase(market.orders, command'.id)
  <1>1. Level3Executions' = <<>>
    BY DEF Level3Executions
  <1>2. \A top : Heard(Knows(top, f), Level3Executions', Knows(top, f))
    BY <1>1, HeardNone
  <1>3. /\ f = [id \in DOMAIN order_owners' \ {command'.id} |-> f[id]]
        /\ DOMAIN f = DOMAIN order_owners \ {command'.id}
        /\ \A id \in DOMAIN f : f[id] = market.orders[id]
    BY DEF Held, Erase, Restrict
  <1>4. \A id \in DOMAIN f \cap Booked(book') : f[id] = Level3(OrderOf(book', id))
    BY <1>3, Zenon
  <1>5. f = Erase(market'.orders, command'.id)
    OBVIOUS
  <1> HIDE DEF f
  <1> QED
    BY <1>2, <1>3, <1>4, <1>5, Zenon DEF Due

LEMMA AcceptKeepsFeed ==
    ASSUME ServerInv, ServerInv', FeedUnderWay, NEW s \in Socket, NEW request \in Request,
           Receives(s), Accept(s, request), ServerUnchanged, Called(request),
           request.type = "NewOrder" => request.id \notin DOMAIN order_owners,
           request.type # "NewOrder" => request.id \in Booked(book)
    PROVE  FeedUnderWay'
  <1>1. /\ command = NoCommand /\ outbox = <<>> /\ phase = "running" /\ phase' = "running"
        /\ command' = request /\ request # NoCommand
        /\ request.type \in {"NewOrder", "CancelOrder", "ReplaceOrder"}
        /\ UNCHANGED <<market, order_owners>>
    BY NothingUnderWay, RequestFields DEF Accept, ServerUnchanged
  <1>2. Held /\ \A id \in DOMAIN order_owners : market.orders[id] = Level3(OrderOf(book, id))
    BY <1>1, IdleHolds
  <1>3. Held'
    BY <1>1, <1>2 DEF Held
  <1>4. DOMAIN order_owners \subseteq Booked(book)
    BY NothingUnderWay
  <1>5. CASE request.type = "NewOrder"
    <2>1. book' = book /\ trades' = <<>>
      BY <1>5 DEF Called, Engine!ProcessOrder, Engine!StartProcessing
    <2>2. Due'
      BY <1>1, <1>2, <2>1, StartsDue
    <2> QED
      BY <1>1, <1>3, <1>5, <2>2 DEF FeedUnderWay
  <1>6. CASE request.type = "ReplaceOrder"
    <2>1. /\ trades' = <<>>
          /\ \/ status' \in {"not_found", "logic_error"}
             \/ Matching!LeavesMarket(book, book', request.id)
      BY <1>6, ReplaceIs DEF Called
    <2>2. ~Failed' => Due'
      <3> SUFFICES ASSUME ~Failed' PROVE Due'
        OBVIOUS
      <3>1. Matching!LeavesMarket(book, book', request.id)
        BY <1>1, <2>1 DEF Failed
      <3>2. /\ Booked(book') = Booked(book) \ {request.id}
            /\ \A j \in Booked(book') : Level3(OrderOf(book', j)) = Level3(OrderOf(book, j))
        BY <3>1, LeavingIsShown
      <3> QED
        BY <1>1, <1>2, <2>1, <3>2, StartsDue
    <2> QED
      BY <1>1, <1>3, <1>6, <2>2 DEF FeedUnderWay
  <1>7. CASE request.type = "CancelOrder"
    <2>1. \/ status' \in {"not_found", "logic_error"}
          \/ Matching!LeavesMarket(book, book', request.id)
      BY <1>7, CancelIs DEF Called
    <2>2. ~Failed' => \A id \in DOMAIN order_owners \ {request.id} :
                         market.orders[id] = Level3(OrderOf(book', id))
      <3> SUFFICES ASSUME ~Failed', NEW id \in DOMAIN order_owners \ {request.id}
                   PROVE  market.orders[id] = Level3(OrderOf(book', id))
        OBVIOUS
      <3>1. Matching!LeavesMarket(book, book', request.id)
        BY <1>1, <2>1 DEF Failed
      <3>2. /\ Booked(book') = Booked(book) \ {request.id}
            /\ \A j \in Booked(book') : Level3(OrderOf(book', j)) = Level3(OrderOf(book, j))
        BY <3>1, LeavingIsShown
      <3> QED
        BY <1>2, <1>4, <3>2
    <2> QED
      BY <1>1, <1>3, <1>7, <2>2 DEF FeedUnderWay, AtWork
  <1> QED
    BY <1>1, <1>5, <1>6, <1>7

\* The requests.
LEMMA HandlersKeepFeed ==
    ASSUME ServerInv, ServerInv', FeedUnderWay, NEW s \in Socket, NEW request \in Request,
           \/ handle_new_order(s, request)
           \/ handle_cancel_order(s, request)
           \/ handle_replace_order(s, request)
    PROVE  FeedUnderWay'
  <1>1. CASE handle_new_order(s, request)
    <2>1. Receives(s) /\ request.type = "NewOrder" /\ ServerUnchanged
      BY <1>1 DEF handle_new_order
    <2>2. CASE NewOrderAllowed(s, request) /\ Accept(s, request) /\ Called(request)
      BY <2>1, <2>2, AcceptKeepsFeed DEF NewOrderAllowed
    <2>3. CASE Refuse(s, request.id) /\ UNCHANGED book
      BY <2>1, <2>3, RefuseKeepsFeed
    <2> QED
      BY <1>1, <2>2, <2>3 DEF handle_new_order, Called
  <1>2. CASE handle_cancel_order(s, request)
    <2>1. Receives(s) /\ request.type = "CancelOrder" /\ ServerUnchanged
      BY <1>2 DEF handle_cancel_order
    <2>2. CASE Owns(s, request.id) /\ Accept(s, request) /\ Called(request)
      BY <2>1, <2>2, AcceptKeepsFeed DEF Owns, contains, Booked
    <2>3. CASE Refuse(s, request.id) /\ UNCHANGED book
      BY <2>1, <2>3, RefuseKeepsFeed
    <2> QED
      BY <1>2, <2>2, <2>3 DEF handle_cancel_order, Called, engineVars
  <1>3. CASE handle_replace_order(s, request)
    <2>1. Receives(s) /\ request.type = "ReplaceOrder" /\ ServerUnchanged
      BY <1>3 DEF handle_replace_order
    <2>2. CASE Owns(s, request.id) /\ Accept(s, request) /\ Called(request)
      BY <2>1, <2>2, AcceptKeepsFeed DEF Owns, contains, Booked
    <2>3. CASE Refuse(s, request.id) /\ UNCHANGED book
      BY <2>1, <2>3, RefuseKeepsFeed
    <2> QED
      BY <1>3, <2>2, <2>3 DEF handle_replace_order, Called
  <1> QED
    BY <1>1, <1>2, <1>3

-----------------------------------------------------------------------------
(* The feed and the matching loop *)

\* A trade: the listener hears it when the command is settled.
LEMMA MatchStepKeepsDue ==
    ASSUME ServerInv, ServerInv', FeedUnderWay, AtWork, ~Failed,
           incoming.id = command.id, command.id \notin Booked(book),
           Engine!MatchStep, UNCHANGED <<market, order_owners, command>>
    PROVE  Due'
  <1>1. PICK m, t : \E quantity \in Nat : FillIs(m, quantity, t)
    BY MatchStepIs
  <1>2. PICK quantity \in Nat : FillIs(m, quantity, t)
    BY <1>1
  <1>3. /\ m \in Booked(book) /\ m # command.id
        /\ t \in Engine!Trade /\ t.quantity = quantity /\ trades' = Append(trades, t)
        /\ {t.buy_order_id, t.sell_order_id} = {command.id, m}
        /\ \/ Matching!LeavesMarket(book, book', m)
           \/ Matching!ShrinksInMarket(book, book', m, quantity)
    BY <1>2 DEF FillIs
  <1>4. /\ Level3Executions' = Level3Executions \o <<[kind |-> "executed", trade |-> t]>>
        /\ IsSequence(Level3Executions)
    BY <1>3, ServerFacts, ExecutionsGrow, MessagesAreSequences
  <1> SUFFICES ASSUME NEW top
               PROVE  \E f : /\ Heard(Knows(top, Erase(market.orders, command.id)),
                                      Level3Executions', Knows(top, f))
                             /\ f = [id \in DOMAIN order_owners \ {command.id} |-> f[id]]
                             /\ \A id \in DOMAIN f \cap Booked(book') :
                                   f[id] = Level3(OrderOf(book', id))
    BY DEF Due
  <1>5. PICK f : /\ Heard(Knows(top, Erase(market.orders, command.id)), Level3Executions,
                          Knows(top, f))
                 /\ f = [id \in DOMAIN order_owners \ {command.id} |-> f[id]]
                 /\ \A id \in DOMAIN f \cap Booked(book) : f[id] = Level3(OrderOf(book, id))
    BY DEF FeedUnderWay, Due
  <1> DEFINE g == Reduced(f, t)
             x == [kind |-> "executed", trade |-> t]
  <1>6. Heard(Knows(top, Erase(market.orders, command.id)), Level3Executions', Knows(top, g))
    <2>1. Hear(Knows(top, f), x) = Knows(top, g)
      BY HearIs
    <2> HIDE DEF x, g
    <2>2. Heard(Knows(top, f), <<x>>, Knows(top, g)) /\ IsSequence(<<x>>)
      BY <2>1, HeardOne, OneIsSequence
    <2>3. Level3Executions' = Level3Executions \o <<x>>
      BY <1>4 DEF x
    <2> QED
      BY <1>4, <1>5, <2>2, <2>3, HeardThen
  <1>7. /\ DOMAIN f = DOMAIN order_owners \ {command.id}
        /\ g = [id \in DOMAIN order_owners \ {command.id} |-> g[id]]
        /\ \A id \in DOMAIN f \ {m} : g[id] = f[id]
        /\ m \in DOMAIN f => g[m] = [f[m] EXCEPT !.quantity = @ - quantity]
    <2>1. DOMAIN f = DOMAIN order_owners \ {command.id}
      BY <1>5
    <2>2. g = [id \in DOMAIN f |->
                  IF id \in {command.id, m} THEN [f[id] EXCEPT !.quantity = @ - quantity]
                  ELSE f[id]]
      BY <1>3, Zenon DEF Reduced
    <2> HIDE DEF g
    <2> QED
      BY <2>1, <2>2
  <1> HIDE DEF g
  <1>8. ASSUME NEW id \in DOMAIN g \cap Booked(book')
        PROVE  g[id] = Level3(OrderOf(book', id))
    <2>1. id \in DOMAIN f
      BY <1>7
    <2>2. CASE Matching!LeavesMarket(book, book', m)
      <3>1. id \in Booked(book) /\ id # m /\ Level3(OrderOf(book', id)) = Level3(OrderOf(book, id))
        BY <2>2, LeavingIsShown
      <3> QED
        BY <1>5, <1>7, <2>1, <3>1, Zenon
    <2>3. CASE Matching!ShrinksInMarket(book, book', m, quantity)
      <3>1. /\ Booked(book') = Booked(book)
            /\ \A j \in Booked(book) \ {m} :
                  Level3(OrderOf(book', j)) = Level3(OrderOf(book, j))
            /\ Level3(OrderOf(book', m))
                  = [Level3(OrderOf(book, m)) EXCEPT !.quantity = @ - quantity]
        BY <1>3, <2>3, ShrinkingIsShown
      <3>2. f[id] = Level3(OrderOf(book, id))
        BY <1>5, <2>1, <3>1, Zenon
      <3>3. CASE id = m
        BY <1>7, <2>1, <3>1, <3>2, <3>3
      <3>4. CASE id # m
        BY <1>7, <2>1, <3>1, <3>2, <3>4, Zenon
      <3> QED
        BY <3>3, <3>4
    <2> QED
      BY <1>3, <2>2, <2>3
  <1> QED
    BY <1>6, <1>7, <1>8, Zenon

\* The end of matching changes nothing that is shown.
LEMMA LoopEndKeepsDue ==
    ASSUME ServerInv, ServerInv', FeedUnderWay, AtWork, ~Failed,
           incoming.id = command.id, command.id \notin Booked(book),
           Engine!Rest \/ Engine!Complete, UNCHANGED <<market, order_owners, command>>
    PROVE  Due'
  <1>1. /\ Booked(book') \ {command.id} = Booked(book) \ {command.id}
        /\ \A j \in Booked(book) : Matching!WaitingIn(book')[j] = Matching!WaitingIn(book)[j]
    BY LoopEndIs
  <1>2. \A j \in Booked(book') \ {command.id} :
           j \in Booked(book) /\ Level3(OrderOf(book', j)) = Level3(OrderOf(book, j))
    BY <1>1, Level3Same, ServerFacts, ServerFactsNext
  <1>3. Level3Executions' = Level3Executions
    BY RestAdds DEF Level3Executions
  <1> SUFFICES ASSUME NEW top
               PROVE  \E f : /\ Heard(Knows(top, Erase(market.orders, command.id)),
                                      Level3Executions, Knows(top, f))
                             /\ f = [id \in DOMAIN order_owners \ {command.id} |-> f[id]]
                             /\ \A id \in DOMAIN f \cap Booked(book') :
                                   f[id] = Level3(OrderOf(book', id))
    BY <1>3 DEF Due
  <1>4. PICK f : /\ Heard(Knows(top, Erase(market.orders, command.id)), Level3Executions,
                          Knows(top, f))
                 /\ f = [id \in DOMAIN order_owners \ {command.id} |-> f[id]]
                 /\ \A id \in DOMAIN f \cap Booked(book) : f[id] = Level3(OrderOf(book, id))
    BY Zenon DEF FeedUnderWay, Due
  <1>5. DOMAIN f = DOMAIN order_owners \ {command.id}
    BY <1>4
  <1>6. \A id \in DOMAIN f \cap Booked(book') : f[id] = Level3(OrderOf(book', id))
    BY <1>2, <1>4, <1>5
  <1> QED
    BY <1>4, <1>6

LEMMA EngineStepKeepsFeed ==
    ASSUME ServerInv, ServerInv', CommandAtWork, RiskKept, FeedUnderWay, EngineStep
    PROVE  FeedUnderWay'
  <1>1. /\ UNCHANGED <<phase, market, order_owners, command, outbox>>
        /\ Engine!MatchStep \/ Engine!Rest \/ Engine!Complete
    BY DEF EngineStep, ServerUnchanged, handlerVars
  <1>2. status = "matching"
    BY <1>1, Zenon DEF Engine!MatchStep, Engine!Rest, Engine!Complete, Engine!LoopDone
  <1>3. CASE command = NoCommand
    <2>1. phase # "running" /\ outbox = <<>> /\ DOMAIN order_owners = {}
      BY <1>2, <1>3 DEF ServerInv, TypeOK, OneAtATime
    <2>2. market = NothingHeard
      BY <2>1 DEF FeedUnderWay
    <2> QED
      BY <1>1, <1>3, <2>1, <2>2, NothingToTellAgain
  <1>4. CASE command # NoCommand
    <2>1. /\ AtWork /\ ~Failed /\ command.type # "CancelOrder"
          /\ incoming.id = command.id /\ command.id \notin Booked(book)
      BY <1>2, <1>4, EngineWorksFor
    <2>2. Due'
      BY <1>1, <2>1, MatchStepKeepsDue, LoopEndKeepsDue
    <2>3. Held'
      BY <1>1, <1>4 DEF FeedUnderWay, Held
    <2> QED
      BY <1>1, <1>4, <2>1, <2>2, <2>3 DEF FeedUnderWay
  <1> QED
    BY <1>3, <1>4

-----------------------------------------------------------------------------
(* The feed and the end of a command *)

\* Seven sequences, one after the other.
LEMMA HeardInTurn ==
    ASSUME NEW a, NEW b, NEW c, NEW d, NEW e, NEW f, NEW g,
           IsSequence(a), IsSequence(b), IsSequence(c), IsSequence(d), IsSequence(e),
           IsSequence(f), IsSequence(g),
           NEW m0, NEW m1, NEW m2, NEW m3, NEW m4, NEW m5, NEW m6, NEW m7,
           Heard(m0, a, m1), Heard(m1, b, m2), Heard(m2, c, m3), Heard(m3, d, m4),
           Heard(m4, e, m5), Heard(m5, f, m6), Heard(m6, g, m7)
    PROVE  Heard(m0, a \o b \o c \o d \o e \o f \o g, m7)
  <1>1. IsSequence(a \o b) /\ Heard(m0, a \o b, m2)
    BY ConcatIsSequence, HeardThen
  <1>2. IsSequence(a \o b \o c) /\ Heard(m0, a \o b \o c, m3)
    BY <1>1, ConcatIsSequence, HeardThen
  <1>3. IsSequence(a \o b \o c \o d) /\ Heard(m0, a \o b \o c \o d, m4)
    BY <1>2, ConcatIsSequence, HeardThen
  <1>4. IsSequence(a \o b \o c \o d \o e) /\ Heard(m0, a \o b \o c \o d \o e, m5)
    BY <1>3, ConcatIsSequence, HeardThen
  <1>5. IsSequence(a \o b \o c \o d \o e \o f) /\ Heard(m0, a \o b \o c \o d \o e \o f, m6)
    BY <1>4, ConcatIsSequence, HeardThen
  <1> QED
    BY <1>5, HeardThen

\* The client's answer and the private executions say nothing to the listeners.
LEMMA PrivateIsPrivate ==
    ASSUME trades \in Seq(Engine!Trade), NEW m, NEW s, NEW id
    PROVE  /\ Heard(m, <<Response(s, id, TRUE)>>, m)
           /\ Heard(m, ExecutionDeliveries, m)
  <1>1. Heard(m, <<Response(s, id, TRUE)>>, m)
    <2> DEFINE x == Response(s, id, TRUE)
    <2>1. x.kind = "response"
      BY DEF Response
    <2> HIDE DEF x
    <2>2. Hear(m, x) = m
      BY <2>1, HearNothing
    <2>3. Heard(m, <<x>>, m)
      BY <2>2, HeardOne
    <2> QED
      BY <2>3 DEF x
  <1>2. Heard(m, ExecutionDeliveries, m)
    <2> DEFINE n == 2 * Len(trades)
    <2>1. n \in Nat /\ Len(trades) \in Nat
      OBVIOUS
    <2>2. Len(ExecutionDeliveries) = n
      BY <2>1 DEF ExecutionDeliveries
    <2>3. ASSUME NEW i \in 1 .. n PROVE ExecutionDeliveries[i].kind = "execution"
      BY <2>1, <2>3 DEF ExecutionDeliveries
    <2> HIDE DEF n
    <2>4. \A i \in 1 .. Len(ExecutionDeliveries) : Hear(m, ExecutionDeliveries[i]) = m
      BY <2>2, <2>3, HearNothing
    <2> QED
      BY <2>4, MessagesAreSequences, HeardInVain
  <1> QED
    BY <1>1, <1>2

\* The orders that have an owner after a command: those that had one and were not
\* filled, and the command's own if it rests.
LEMMA OwnersAfterFinish ==
    ASSUME NEW first, FinishOrder(first)
    PROVE  DOMAIN order_owners' = (DOMAIN order_owners \ (FilledOrders \cup {command.id}))
                                     \cup ({command.id} \cap Booked(book))
  <1> DEFINE left == remove_filled_order_owners
  <1>1. DOMAIN left = DOMAIN order_owners \ FilledOrders
    BY DEF remove_filled_order_owners, Restrict
  <1> HIDE DEF left
  <1>2. CASE contains(book, command.id)
    <2>1. order_owners' = Put(left, command.id, find_order_owner(command.id))
      BY <1>2 DEF FinishOrder, left
    <2>2. DOMAIN order_owners' = DOMAIN left \cup {command.id}
      BY <2>1 DEF Put
    <2>3. command.id \in Booked(book)
      BY <1>2 DEF contains, Booked
    <2> QED
      BY <1>1, <2>2, <2>3
  <1>3. CASE ~contains(book, command.id)
    <2>1. order_owners' = Erase(left, command.id)
      BY <1>3 DEF FinishOrder, left
    <2>2. DOMAIN order_owners' = DOMAIN left \ {command.id}
      BY <2>1 DEF Erase, Restrict
    <2>3. command.id \notin Booked(book)
      BY <1>3 DEF contains, Booked
    <2> QED
      BY <1>1, <2>2, <2>3
  <1> QED
    BY <1>2, <1>3

\* A new order or a replacement is settled: what is sent brings a listener from the
\* book before the command to the book after it.
LEMMA FinishKeepsFeed ==
    ASSUME ServerInv, ServerInv', FeedUnderWay, NEW first, FinishOrder(first),
           \/ command.type = "NewOrder" /\ first = <<>>
           \/ command.type = "ReplaceOrder" /\ first = <<Deleted(command.id)>>
    PROVE  FeedUnderWay'
  <1> DEFINE id == command.id
             g == market.orders
             top == capture_book_snapshot(book)
  <1>1. /\ command # NoCommand /\ command' = NoCommand /\ book' = book /\ market' = market
        /\ status \in {"done", "killed"} /\ phase' = phase
    BY DEF FinishOrder, Settle, Engine!Return
  <1>2. AtWork /\ ~Failed
    BY <1>1 DEF AtWork, Failed
  <1>3. /\ Held /\ Due
        /\ command.type = "NewOrder" => id \notin DOMAIN order_owners
    BY <1>1, <1>2 DEF FeedUnderWay
  <1>4. PICK f : /\ Heard(Knows(top, Erase(g, id)), Level3Executions, Knows(top, f))
                 /\ f = [j \in DOMAIN order_owners \ {id} |-> f[j]]
                 /\ \A j \in DOMAIN f \cap Booked(book) : f[j] = Level3(OrderOf(book, j))
    BY <1>3, Zenon DEF Due
  <1>5. DOMAIN f = DOMAIN order_owners \ {id} /\ f = [j \in DOMAIN f |-> f[j]]
    BY <1>4
  <1> DEFINE rest == Restrict(f, DOMAIN f \ FilledOrders)
             shown == Shown(book', DOMAIN order_owners')
  <1>6. trades \in Seq(Engine!Trade)
    BY ServerFacts
  <1>7. DOMAIN order_owners' = (DOMAIN f \ FilledOrders) \cup ({id} \cap Booked(book))
    BY <1>5, OwnersAfterFinish, Zenon
  <1>8. DOMAIN order_owners' \subseteq Booked(book)
    BY <1>1 DEF ServerInv, OwnersUnderWay
  <1> HIDE DEF top
  <1>9. Heard(market, <<Response(handler, id, TRUE)>>, market)
        /\ Heard(market, ExecutionDeliveries, market)
    BY <1>6, PrivateIsPrivate, Zenon
  <1>10. Heard(market, BookUpdate, Knows(top, g))
    <2>1. market = Knows(market.top, g)
      BY <1>3 DEF Held
    <2> DEFINE x == [kind |-> "book_update", snapshot |-> top]
    <2>2. Hear(Knows(market.top, g), x) = Knows(top, g)
      BY HearIs
    <2> HIDE DEF x
    <2>3. Heard(market, <<x>>, Knows(top, g))
      BY <2>1, <2>2, HeardOne
    <2>4. BookUpdate = <<x>>
      BY DEF BookUpdate, x, top
    <2> QED
      BY <2>3, <2>4
  <1>11. Heard(Knows(top, g), first, Knows(top, Erase(g, id))) /\ IsSequence(first)
    <2>1. CASE command.type = "NewOrder" /\ first = <<>>
      <3>1. g = [j \in DOMAIN order_owners |-> g[j]] /\ id \notin DOMAIN order_owners
        BY <1>3, <2>1 DEF Held
      <3> HIDE DEF g, id
      <3>2. Erase(g, id) = g
        <4>1. DOMAIN g = DOMAIN order_owners /\ DOMAIN g \ {id} = DOMAIN g
          BY <3>1, Zenon
        <4> QED
          BY <3>1, <4>1 DEF Erase, Restrict
      <3>3. IsSequence(<<>>)
        BY DEF IsSequence
      <3> QED
        BY <2>1, <3>2, <3>3, HeardNone
    <2>2. CASE first = <<Deleted(id)>>
      <3>1. Hear(Knows(top, g), Deleted(id)) = Knows(top, Erase(g, id))
        BY HearIs
      <3> QED
        BY <2>2, <3>1, HeardOne, OneIsSequence
    <2> QED
      BY <2>1, <2>2
  <1>12. Heard(Knows(top, f), Level3Deletions, Knows(top, rest))
    BY <1>5, <1>6, HeardDeletions
  <1>13. Heard(Knows(top, rest), Level3Add, Knows(top, shown))
    <2>1. /\ DOMAIN rest = DOMAIN f \ FilledOrders
          /\ \A j \in DOMAIN rest : rest[j] = f[j]
          /\ rest = [j \in DOMAIN rest |-> rest[j]]
      BY DEF Restrict
    <2> HIDE DEF rest, id
    <2>2. id \notin DOMAIN rest
      BY <1>5, <2>1
    <2>3. \A j \in DOMAIN rest : rest[j] = Level3(OrderOf(book, j))
      BY <1>4, <1>7, <1>8, <2>1
    <2>4. CASE id \in Booked(book)
      <3> DEFINE o == Level3(OrderOf(book, id))
                 x == [kind |-> "add", order |-> o]
      <3>1. o.id = id
        BY <2>4, OrderOfIs, ServerFacts DEF Level3
      <3>2. Level3Add = <<x>>
        BY <2>4 DEF Level3Add, Booked, contains, id
      <3>3. Hear(Knows(top, rest), x) = Knows(top, Put(rest, o.id, o))
        BY HearIs
      <3>4. Put(rest, id, o) = shown
        <4>1. DOMAIN order_owners' = DOMAIN rest \cup {id}
          BY <1>7, <2>1, <2>4
        <4> HIDE DEF o
        <4>2. Put(rest, id, o) = [j \in DOMAIN order_owners' |-> IF j = id THEN o ELSE rest[j]]
          BY <4>1 DEF Put
        <4>3. \A j \in DOMAIN order_owners' :
                 (IF j = id THEN o ELSE rest[j]) = Level3(OrderOf(book, j))
          BY <2>3, <4>1 DEF o
        <4> QED
          BY <1>1, <4>2, <4>3 DEF Shown
      <3> HIDE DEF x, o
      <3> QED
        BY <3>1, <3>2, <3>3, <3>4, HeardOne
    <2>5. CASE id \notin Booked(book)
      <3>1. Level3Add = <<>>
        BY <2>5 DEF Level3Add, Booked, contains, id
      <3>2. DOMAIN order_owners' = DOMAIN rest
        BY <1>7, <2>1, <2>5
      <3>3. rest = shown
        BY <1>1, <2>1, <2>3, <3>2 DEF Shown
      <3> QED
        BY <3>1, <3>3, HeardNone
    <2> QED
      BY <2>4, <2>5
  <1>14. outbox' = <<Response(handler, id, TRUE)>> \o ExecutionDeliveries \o BookUpdate
                   \o first \o Level3Executions \o Level3Deletions \o Level3Add
    BY DEF FinishOrder
  <1>15. /\ IsSequence(ExecutionDeliveries) /\ IsSequence(BookUpdate)
         /\ IsSequence(Level3Executions) /\ IsSequence(Level3Deletions) /\ IsSequence(Level3Add)
    BY <1>6, MessagesAreSequences
  <1> DEFINE r == <<Response(handler, id, TRUE)>>
  <1>16. IsSequence(r)
    BY OneIsSequence
  <1> HIDE DEF r, id, g, rest, shown
  <1>17. Heard(market, r \o ExecutionDeliveries \o BookUpdate
                         \o first \o Level3Executions \o Level3Deletions \o Level3Add,
               Knows(top, shown))
    <2>1. Heard(market, r, market)
      BY <1>9 DEF r
    <2> QED
      BY <1>4, <1>9, <1>10, <1>11, <1>12, <1>13, <1>15, <1>16, <2>1, HeardInTurn
  <1>18. Told'
    <2>1. Heard(market', outbox', Knows(top, shown))
      BY <1>1, <1>14, <1>17, Zenon DEF r
    <2>2. top \in {Nothing, capture_book_snapshot(book')}
      BY <1>1 DEF top
    <2> QED
      BY <2>1, <2>2 DEF Told, shown
  <1>19. phase' # "running" => market' = NothingHeard
    BY <1>1 DEF FeedUnderWay
  <1> QED
    BY <1>1, <1>18, <1>19 DEF FeedUnderWay, AtWork

\* A cancel is settled.
LEMMA SettleCancelKeepsFeed ==
    ASSUME ServerInv, ServerInv', FeedUnderWay, SettleCancel
    PROVE  FeedUnderWay'
  <1> DEFINE id == command.id
             g == market.orders
             top == capture_book_snapshot(book)
             shown == Shown(book', DOMAIN order_owners')
  <1>1. /\ command # NoCommand /\ command' = NoCommand /\ book' = book /\ market' = market
        /\ status = "cancelled" /\ phase' = phase
    BY DEF SettleCancel, Settle, Engine!Return
  <1>2. command.type = "CancelOrder" /\ ~Failed
    BY <1>1 DEF ServerInv, OneAtATime, Failed
  <1>3. Held /\ \A j \in DOMAIN order_owners \ {id} : g[j] = Level3(OrderOf(book, j))
    BY <1>1, <1>2 DEF FeedUnderWay
  <1>4. order_owners' = Erase(order_owners, id)
    BY DEF SettleCancel
  <1>5. Erase(g, id) = shown
    <2>1. g = [j \in DOMAIN order_owners |-> g[j]]
      BY <1>3 DEF Held
    <2> HIDE DEF g, id
    <2>2. DOMAIN order_owners' = DOMAIN order_owners \ {id} /\ DOMAIN g = DOMAIN order_owners
      BY <1>4, <2>1 DEF Erase, Restrict
    <2>3. Erase(g, id) = [j \in DOMAIN order_owners' |-> g[j]]
      BY <2>2 DEF Erase, Restrict
    <2>4. \A j \in DOMAIN order_owners' : g[j] = Level3(OrderOf(book, j))
      BY <1>3, <2>2
    <2> QED
      BY <1>1, <2>3, <2>4 DEF Shown
  <1> HIDE DEF top, shown
  <1> DEFINE r == <<Response(handler, id, TRUE)>>
             u == [kind |-> "book_update", snapshot |-> top]
  <1>6. Heard(market, r, market) /\ IsSequence(r)
    BY PrivateIsPrivate, OneIsSequence, ServerFacts, Zenon
  <1>7. Heard(market, BookUpdate, Knows(top, g)) /\ IsSequence(BookUpdate)
    <2>1. market = Knows(market.top, g)
      BY <1>3 DEF Held
    <2>2. Hear(Knows(market.top, g), u) = Knows(top, g)
      BY HearIs
    <2>3. BookUpdate = <<u>>
      BY DEF BookUpdate, top
    <2> HIDE DEF u
    <2>4. Heard(market, <<u>>, Knows(top, g))
      BY <2>1, <2>2, HeardOne
    <2> QED
      BY <2>3, <2>4, OneIsSequence
  <1>8. Heard(Knows(top, g), <<Deleted(id)>>, Knows(top, shown)) /\ IsSequence(<<Deleted(id)>>)
    <2>1. Hear(Knows(top, g), Deleted(id)) = Knows(top, Erase(g, id))
      BY HearIs
    <2> QED
      BY <1>5, <2>1, HeardOne, OneIsSequence
  <1>9. outbox' = r \o BookUpdate \o <<Deleted(id)>>
    BY DEF SettleCancel
  <1> HIDE DEF r, id, g
  <1>10. Heard(market, r \o BookUpdate, Knows(top, g)) /\ IsSequence(r \o BookUpdate)
    BY <1>6, <1>7, HeardThen, ConcatIsSequence
  <1>11. Heard(market', outbox', Knows(top, shown))
    BY <1>1, <1>8, <1>9, <1>10, HeardThen
  <1>12. Told'
    <2>1. top \in {Nothing, capture_book_snapshot(book')}
      BY <1>1 DEF top
    <2> QED
      BY <1>11, <2>1 DEF Told, shown
  <1>13. phase' # "running" => market' = NothingHeard
    BY <1>1 DEF FeedUnderWay
  <1> QED
    BY <1>1, <1>12, <1>13 DEF FeedUnderWay, AtWork

\* A message is sent.
LEMMA SendKeepsFeed ==
    ASSUME ServerInv, FeedUnderWay, Send
    PROVE  FeedUnderWay'
  <1>1. /\ outbox # <<>> /\ market' = Hear(market, Head(outbox)) /\ outbox' = Tail(outbox)
        /\ UNCHANGED <<book, phase, order_owners, command>>
    BY DEF Send, engineVars
  <1>2. command = NoCommand /\ IsSequence(outbox)
    BY <1>1 DEF ServerInv, OneAtATime
  <1>3. phase = "running"
    BY <1>1 DEF ServerInv, TypeOK, OneAtATime
  <1>4. PICK top \in {Nothing, capture_book_snapshot(book)} :
           Heard(market, outbox, Knows(top, Shown(book, DOMAIN order_owners)))
    BY <1>2 DEF FeedUnderWay, Told
  <1>5. Heard(market', outbox', Knows(top, Shown(book, DOMAIN order_owners)))
    BY <1>1, <1>2, <1>4, HeardFirst
  <1>6. Told'
    BY <1>1, <1>5 DEF Told
  <1> QED
    BY <1>1, <1>2, <1>3, <1>6 DEF FeedUnderWay, AtWork

LEMMA InitFeed == Init => FeedUnderWay
  <1> SUFFICES ASSUME Init PROVE FeedUnderWay
    OBVIOUS
  <1>1. command = NoCommand /\ outbox = <<>> /\ market = NothingHeard /\ DOMAIN order_owners = {}
    BY DEF Init, EmptyMap
  <1> QED
    BY <1>1, NothingToTell

LEMMA NextKeepsFeed ==
    ASSUME ServerInv, ServerInv', CommandAtWork, RiskKept, FeedUnderWay, [Next]_vars
    PROVE  FeedUnderWay'
  <1>1. ASSUME UNCHANGED <<engineVars, phase, order_owners, handlerVars, market>>
        PROVE  FeedUnderWay'
    BY <1>1, QuietKeepsFeed DEF engineVars, handlerVars
  <1>2. CASE Connect \/ (\E s \in Socket : Disconnect(s))
             \/ (\E enabled \in BOOLEAN : set_global_kill_switch(enabled))
    BY <1>1, <1>2 DEF Connect, Disconnect, set_global_kill_switch
  <1>3. ASSUME NEW s \in Socket, HandleMalformed(s) PROVE FeedUnderWay'
    BY <1>3, RefuseKeepsFeed DEF HandleMalformed, engineVars
  <1>4. ASSUME NEW s \in Socket, NEW request \in Request,
               \/ handle_new_order(s, request)
               \/ handle_cancel_order(s, request)
               \/ handle_replace_order(s, request)
        PROVE  FeedUnderWay'
    BY <1>4, HandlersKeepFeed
  <1>5. CASE EngineStep
    BY <1>5, EngineStepKeepsFeed
  <1>6. CASE SettleNewOrder
    BY <1>6, FinishKeepsFeed DEF SettleNewOrder
  <1>7. CASE SettleReplace
    BY <1>7, FinishKeepsFeed DEF SettleReplace
  <1>8. CASE SettleCancel
    BY <1>8, SettleCancelKeepsFeed
  <1>9. CASE Send
    BY <1>9, SendKeepsFeed
  <1>10. CASE Crash
    <2>1. DOMAIN order_owners' = {} /\ command' = NoCommand /\ outbox' = <<>>
          /\ market' = NothingHeard
      BY <1>10 DEF Crash, EmptyMap
    <2> QED
      BY <2>1, NothingToTellAgain
  <1>11. CASE Restart \/ ReplayRecord \/ ReplayReturns \/ ReplayMisframed \/ FinishRecovery
    <2>1. phase # "running" /\ UNCHANGED <<order_owners, command, handler, outbox, market>>
      BY <1>11 DEF Restart, ReplayRecord, ReplayReturns, ReplayMisframed, FinishRecovery,
                   FileAndServerUnchanged, handlerVars
    <2>2. DOMAIN order_owners = {} /\ command = NoCommand /\ outbox = <<>>
          /\ market = NothingHeard
      BY <2>1 DEF ServerInv, TypeOK, OneAtATime, FeedUnderWay
    <2> QED
      BY <2>1, <2>2, NothingToTellAgain
  <1>12. CASE UNCHANGED vars
    BY <1>1, <1>12 DEF vars
  <1> QED
    BY <1>2, <1>3, <1>4, <1>5, <1>6, <1>7, <1>8, <1>9, <1>10, <1>11, <1>12 DEF Next

-----------------------------------------------------------------------------
(* The engine's work on a journal *)

\* Where the work on a journal is: how many records have been read, and the engine's
\* state. What is in the trade buffer does not matter to it.
Point(n, b, o, s) == [read |-> n, book |-> b, incoming |-> o, status |-> s]

\* An order is taken up, as by StartProcessing.
Started(n, b, o) ==
    LET order == Engine!Effective(o)
    IN  Point(n, b, order, IF /\ order.time_in_force = "FillOrKill"
                              /\ Engine!executable_quantity(b, order) < order.remaining_quantity
                           THEN "killed" ELSE "matching")

\* Record r is read, as by ProcessOrder, CancelOrder and ReplaceOrder.
Reads(r, x, y) ==
    LET n == x.read + 1
        b == x.book
        line == b.levels[b.order_locations[r.id].side][b.order_locations[r.id].price].orders
    IN  \/ /\ r.type = "NewOrder"
           /\ y = Started(n, b, Engine!NewOrder(r.id, r.side, r.order_type, r.time_in_force,
                                                r.price, r.quantity))
        \/ /\ r.type \in {"CancelOrder", "ReplaceOrder"}
           /\ ~Engine!contains(b, r.id)
           /\ y = Point(n, b, x.incoming, "not_found")
        \/ /\ r.type \in {"CancelOrder", "ReplaceOrder"}
           /\ Engine!contains(b, r.id)
           /\ \E i \in 1 .. Len(line) :
                 /\ Engine!IsPosition(b, r.id, i)
                 /\ \/ /\ Engine!erase_throws(b, r.id, i)
                       /\ y = Point(n, b, x.incoming, "logic_error")
                    \/ /\ ~Engine!erase_throws(b, r.id, i)
                       /\ r.type = "CancelOrder"
                       /\ y = Point(n, Engine!extract_order(b, r.id, i), x.incoming, "cancelled")
                    \/ /\ ~Engine!erase_throws(b, r.id, i)
                       /\ r.type = "ReplaceOrder"
                       /\ y = Started(n, Engine!extract_order(b, r.id, i),
                                  [line[i] EXCEPT !.price = r.price,
                                                  !.initial_quantity = r.quantity,
                                                  !.remaining_quantity = r.quantity])

\* An iteration of the matching loop or its end, as MatchStep, Rest and Complete.
Works(x, y) ==
    LET b == x.book
        o == x.incoming
        side == Engine!Opposite(o.side)
        looping == o.remaining_quantity > 0 /\ Engine!can_match(b, o)
        resting(p) == Head(b.levels[side][p].orders)
        quantity(p) == IF o.remaining_quantity < resting(p).remaining_quantity
                       THEN o.remaining_quantity ELSE resting(p).remaining_quantity
    IN  /\ x.status = "matching"
        /\ \/ /\ looping
              /\ \E p \in DOMAIN b.levels[side] :
                    /\ Engine!IsBest(b, side, p)
                    /\ y = Point(x.read, Engine!fill_front(b, side, p, quantity(p)),
                                 [o EXCEPT !.remaining_quantity = @ - quantity(p)], x.status)
           \/ /\ ~looping
              /\ o.remaining_quantity > 0 /\ Engine!may_rest(o)
              /\ y = IF Engine!contains(b, o.id) THEN Point(x.read, b, o, "invalid_argument")
                     ELSE Point(x.read, Engine!add_order(b, o), o, "done")
           \/ /\ ~looping
              /\ ~(o.remaining_quantity > 0 /\ Engine!may_rest(o))
              /\ y = Point(x.read, b, o, "done")

\* A step of the work on journal j.
Goes(j, x, y) ==
    \/ x.status = "ready" /\ x.read \in 0 .. Len(j) - 1 /\ Reads(j[x.read + 1], x, y)
    \/ Works(x, y)
    \/ x.status \notin {"ready", "matching"} /\ y = Point(x.read, x.book, NoOrder, "ready")

\* The work on journal j comes from x to z.
Reaches(j, x, z) ==
    \E k \in Nat : \E h : /\ h[0] = x /\ h[k] = z
                          /\ \A i \in 1 .. k : Goes(j, h[i - 1], h[i])

LEMMA ReachesItself ==
    ASSUME NEW j, NEW x
    PROVE  Reaches(j, x, x)
  <1> DEFINE h == [i \in 0 .. 0 |-> x]
  <1>1. h[0] = x /\ \A i \in 1 .. 0 : FALSE
    OBVIOUS
  <1> HIDE DEF h
  <1> QED
    BY <1>1 DEF Reaches

LEMMA ReachesOn ==
    ASSUME NEW j, NEW x, NEW y, NEW z, Reaches(j, x, y), Goes(j, y, z)
    PROVE  Reaches(j, x, z)
  <1>1. PICK k \in Nat : \E h : /\ h[0] = x /\ h[k] = y
                                /\ \A i \in 1 .. k : Goes(j, h[i - 1], h[i])
    BY DEF Reaches
  <1>2. PICK h : /\ h[0] = x /\ h[k] = y
                 /\ \A i \in 1 .. k : Goes(j, h[i - 1], h[i])
    BY <1>1
  <1> DEFINE g == [i \in 0 .. k + 1 |-> IF i <= k THEN h[i] ELSE z]
  <1>3. g[k + 1] = z /\ k + 1 \in Nat /\ \A i \in 0 .. k : g[i] = h[i]
    OBVIOUS
  <1> HIDE DEF g
  <1>4. ASSUME NEW i \in 1 .. k + 1 PROVE Goes(j, g[i - 1], g[i])
    <2>1. CASE i = k + 1
      <3>1. g[i - 1] = y /\ g[i] = z
        BY <1>2, <1>3, <2>1
      <3> QED
        BY <3>1
    <2>2. CASE i \in 1 .. k
      <3>1. g[i - 1] = h[i - 1] /\ g[i] = h[i]
        BY <1>3, <2>2
      <3> QED
        BY <1>2, <2>2, <3>1
    <2>3. i = k + 1 \/ i \in 1 .. k
      OBVIOUS
    <2> QED
      BY <2>1, <2>2, <2>3
  <1>5. g[0] = x
    BY <1>2, <1>3
  <1> QED
    BY <1>3, <1>4, <1>5 DEF Reaches

\* The same way with one step of it made, when there is one way only.
LEMMA ReachesFrom ==
    ASSUME NEW j, NEW x, NEW y, NEW z, Reaches(j, x, z), x # z, \A w : Goes(j, x, w) => w = y
    PROVE  Reaches(j, y, z)
  <1>1. PICK k \in Nat : \E h : /\ h[0] = x /\ h[k] = z
                                /\ \A i \in 1 .. k : Goes(j, h[i - 1], h[i])
    BY DEF Reaches
  <1>2. PICK h : /\ h[0] = x /\ h[k] = z
                 /\ \A i \in 1 .. k : Goes(j, h[i - 1], h[i])
    BY <1>1
  <1>3. k # 0 /\ k - 1 \in Nat /\ 1 \in 1 .. k
    <2>1. k # 0
      BY <1>2
    <2> QED
      BY <2>1
  <1>4. h[1] = y
    <2>1. Goes(j, h[1 - 1], h[1]) /\ 1 - 1 = 0
      BY <1>2, <1>3
    <2> QED
      BY <1>2, <2>1
  <1> DEFINE g == [i \in 0 .. k - 1 |-> h[i + 1]]
  <1>5. \A i \in 0 .. k - 1 : g[i] = h[i + 1]
    OBVIOUS
  <1> HIDE DEF g
  <1>6. g[0] = y /\ g[k - 1] = z
    BY <1>2, <1>3, <1>4, <1>5
  <1>7. ASSUME NEW i \in 1 .. k - 1 PROVE Goes(j, g[i - 1], g[i])
    <2>1. g[i] = h[i + 1] /\ g[i - 1] = h[(i + 1) - 1] /\ i + 1 \in 1 .. k
      BY <1>3, <1>5
    <2> QED
      BY <1>2, <2>1
  <1> QED
    BY <1>3, <1>6, <1>7 DEF Reaches

\* A way leads on through a journal that has grown.
LEMMA ReachesGrown ==
    ASSUME NEW S, NEW j \in Seq(S), NEW r, NEW x, NEW z, Reaches(j, x, z)
    PROVE  Reaches(Append(j, r), x, z)
  <1> DEFINE grown == Append(j, r)
  <1>1. Len(j) \in Nat /\ Len(grown) = Len(j) + 1 /\ \A i \in 1 .. Len(j) : grown[i] = j[i]
    <2>1. j \in Seq(S \cup {r}) /\ r \in S \cup {r}
      OBVIOUS
    <2> QED
      BY <2>1
  <1> HIDE DEF grown
  <1>2. ASSUME NEW y, NEW w, Goes(j, y, w) PROVE Goes(grown, y, w)
    <2>1. CASE y.status = "ready" /\ y.read \in 0 .. Len(j) - 1 /\ Reads(j[y.read + 1], y, w)
      <3>1. y.read \in 0 .. Len(grown) - 1 /\ grown[y.read + 1] = j[y.read + 1]
        BY <1>1, <2>1
      <3> QED
        BY <2>1, <3>1 DEF Goes
    <2> QED
      BY <1>2, <2>1 DEF Goes
  <1>3. PICK k \in Nat : \E h : /\ h[0] = x /\ h[k] = z
                                /\ \A i \in 1 .. k : Goes(j, h[i - 1], h[i])
    BY DEF Reaches
  <1>4. \E h : /\ h[0] = x /\ h[k] = z
               /\ \A i \in 1 .. k : Goes(grown, h[i - 1], h[i])
    BY <1>2, <1>3
  <1> QED
    BY <1>4 DEF Reaches, grown

\* A point where there is nothing left to do is the end of every way.
LEMMA ReachesNoFurther ==
    ASSUME NEW j, NEW x, NEW z, Reaches(j, x, z), \A w : ~Goes(j, x, w)
    PROVE  z = x
  <1>1. PICK k \in Nat : \E h : /\ h[0] = x /\ h[k] = z
                                /\ \A i \in 1 .. k : Goes(j, h[i - 1], h[i])
    BY DEF Reaches
  <1>2. PICK h : /\ h[0] = x /\ h[k] = z
                 /\ \A i \in 1 .. k : Goes(j, h[i - 1], h[i])
    BY <1>1
  <1>3. k = 0
    <2> SUFFICES ASSUME k # 0 PROVE FALSE
      OBVIOUS
    <2>1. Goes(j, h[1 - 1], h[1]) /\ 1 - 1 = 0
      BY <1>2
    <2> QED
      BY <1>2, <2>1
  <1> QED
    BY <1>2, <1>3

-----------------------------------------------------------------------------
(* The engine does that work *)

\* A point of the work with the engine as it is, and as it is after a step.
LEMMA CalledReads ==
    ASSUME NEW r, Called(r), NEW n \in Nat
    PROVE  /\ status = "ready"
           /\ Reads(r, Point(n, book, incoming, status), Point(n + 1, book', incoming', status'))
  <1> DEFINE x == Point(n, book, incoming, status)
             y == Point(n + 1, book', incoming', status')
  <1>1. x.read = n /\ x.book = book /\ x.incoming = incoming
    BY DEF Point
  <1> HIDE DEF x
  <1>2. ASSUME NEW b, NEW o, Engine!StartProcessing(b, o) PROVE y = Started(n + 1, b, o)
    BY <1>2 DEF Engine!StartProcessing, Started
  <1>3. CASE /\ r.type = "NewOrder"
             /\ Engine!ProcessOrder(r.id, r.side, r.order_type, r.time_in_force, r.price,
                                    r.quantity)
    BY <1>1, <1>2, <1>3 DEF Engine!ProcessOrder, Engine!Idle, Reads, x
  <1>4. CASE r.type = "CancelOrder" /\ Engine!CancelOrder(r.id)
    <2> HIDE DEF y
    <2>1. status = "ready" /\ incoming' = incoming
      BY <1>4, Zenon DEF Engine!CancelOrder, Engine!Idle
    <2>2. CASE ~Engine!contains(book, r.id)
      <3>1. y = Point(n + 1, book, incoming, "not_found")
        BY <1>4, <2>1, <2>2, Zenon DEF Engine!CancelOrder, y
      <3> QED
        BY <1>1, <1>4, <2>1, <2>2, <3>1 DEF Reads, x, y
    <2>3. CASE Engine!contains(book, r.id)
      <3> DEFINE at == book.order_locations[r.id]
      <3>1. PICK i \in 1 .. Len(book.levels[at.side][at.price].orders) :
               /\ Engine!IsPosition(book, r.id, i)
               /\ IF Engine!erase_throws(book, r.id, i)
                  THEN status' = "logic_error" /\ book' = book
                  ELSE status' = "cancelled" /\ book' = Engine!extract_order(book, r.id, i)
        BY <1>4, <2>3, Zenon DEF Engine!CancelOrder
      <3>2. \/ /\ Engine!erase_throws(book, r.id, i)
               /\ y = Point(n + 1, book, incoming, "logic_error")
            \/ /\ ~Engine!erase_throws(book, r.id, i)
               /\ y = Point(n + 1, Engine!extract_order(book, r.id, i), incoming, "cancelled")
        BY <2>1, <3>1 DEF y
      <3>3. Reads(r, x, y)
        BY <1>1, <1>4, <2>3, <3>1, <3>2 DEF Reads
      <3> QED
        BY <2>1, <3>3 DEF x, y
    <2> QED
      BY <2>2, <2>3
  <1>5. CASE r.type = "ReplaceOrder" /\ Engine!ReplaceOrder(r.id, r.price, r.quantity)
    <2> HIDE DEF y
    <2>1. status = "ready"
      BY <1>5, Zenon DEF Engine!ReplaceOrder, Engine!Idle
    <2>2. CASE ~Engine!contains(book, r.id)
      <3>1. y = Point(n + 1, book, incoming, "not_found")
        BY <1>5, <2>1, <2>2, Zenon DEF Engine!ReplaceOrder, y
      <3> QED
        BY <1>1, <1>5, <2>1, <2>2, <3>1, Zenon DEF Reads, x, y
    <2>3. CASE Engine!contains(book, r.id)
      <3> DEFINE at == book.order_locations[r.id]
                 new(i) == [book.levels[at.side][at.price].orders[i] EXCEPT
                               !.price = r.price, !.initial_quantity = r.quantity,
                               !.remaining_quantity = r.quantity]
      <3>1. PICK i \in 1 .. Len(book.levels[at.side][at.price].orders) :
               /\ Engine!IsPosition(book, r.id, i)
               /\ IF Engine!erase_throws(book, r.id, i)
                  THEN status' = "logic_error" /\ book' = book /\ incoming' = incoming
                  ELSE Engine!StartProcessing(Engine!extract_order(book, r.id, i), new(i))
        BY <1>5, <2>3, Zenon DEF Engine!ReplaceOrder
      <3>2. \/ /\ Engine!erase_throws(book, r.id, i)
               /\ y = Point(n + 1, book, incoming, "logic_error")
            \/ /\ ~Engine!erase_throws(book, r.id, i)
               /\ y = Started(n + 1, Engine!extract_order(book, r.id, i), new(i))
        <4>1. CASE Engine!erase_throws(book, r.id, i)
          BY <3>1, <4>1 DEF y
        <4>2. CASE ~Engine!erase_throws(book, r.id, i)
          <5> HIDE DEF new
          <5> QED
            BY <1>2, <3>1, <4>2
        <4> QED
          BY <4>1, <4>2, Zenon
      <3>3. Reads(r, x, y)
        BY <1>1, <1>5, <2>3, <3>1, <3>2, Zenon DEF Reads
      <3> QED
        BY <2>1, <3>3 DEF x, y
    <2> QED
      BY <2>2, <2>3
  <1> QED
    BY <1>3, <1>4, <1>5 DEF Called

LEMMA EngineDoesWork ==
    ASSUME Engine!MatchStep \/ Engine!Rest \/ Engine!Complete, NEW n
    PROVE  Works(Point(n, book, incoming, status), Point(n, book', incoming', status'))
  <1> DEFINE x == Point(n, book, incoming, status)
             y == Point(n, book', incoming', status')
  <1>1. x.read = n /\ x.book = book /\ x.incoming = incoming /\ x.status = status
    BY DEF Point
  <1> HIDE DEF x
  <1>2. CASE Engine!Complete
    <2>1. y = Point(n, book, incoming, "done")
      BY <1>2 DEF Engine!Complete
    <2> HIDE DEF y
    <2> QED
      BY <1>1, <1>2, <2>1 DEF Engine!Complete, Engine!LoopDone, Works, x, y
  <1>3. CASE Engine!Rest
    <2>1. y = IF Engine!contains(book, incoming.id)
              THEN Point(n, book, incoming, "invalid_argument")
              ELSE Point(n, Engine!add_order(book, incoming), incoming, "done")
      BY <1>3 DEF Engine!Rest
    <2> HIDE DEF y
    <2> QED
      BY <1>1, <1>3, <2>1 DEF Engine!Rest, Engine!LoopDone, Works, x, y
  <1>4. CASE Engine!MatchStep
    <2> DEFINE side == Engine!Opposite(incoming.side)
               quantity(p) == IF incoming.remaining_quantity
                                     < Head(book.levels[side][p].orders).remaining_quantity
                              THEN incoming.remaining_quantity
                              ELSE Head(book.levels[side][p].orders).remaining_quantity
    <2>1. /\ status = "matching" /\ status' = status
          /\ incoming.remaining_quantity > 0 /\ Engine!can_match(book, incoming)
      BY <1>4, Zenon DEF Engine!MatchStep
    <2>2. PICK p \in DOMAIN book.levels[side] :
             /\ Engine!IsBest(book, side, p)
             /\ incoming' = [incoming EXCEPT !.remaining_quantity = @ - quantity(p)]
             /\ book' = Engine!fill_front(book, side, p, quantity(p))
      BY <1>4, Zenon DEF Engine!MatchStep
    <2>3. y = Point(n, Engine!fill_front(book, side, p, quantity(p)),
                    [incoming EXCEPT !.remaining_quantity = @ - quantity(p)], status)
      BY <2>1, <2>2
    <2> HIDE DEF y
    <2>4. Works(x, y)
      BY <1>1, <2>1, <2>2, <2>3, Zenon DEF Works
    <2> QED
      BY <2>4 DEF x, y
  <1> QED
    BY <1>2, <1>3, <1>4

LEMMA PointFields ==
    ASSUME NEW n, NEW b, NEW o, NEW s
    PROVE  /\ Point(n, b, o, s).read = n /\ Point(n, b, o, s).book = b
           /\ Point(n, b, o, s).incoming = o /\ Point(n, b, o, s).status = s
  BY DEF Point

\* There is one best price, and an order has one position.
LEMMA OneOfEach ==
    ASSUME ServerInv
    PROVE  /\ status = "matching" =>
                 \A p, q : LET side == Engine!Opposite(incoming.side)
                           IN  Engine!IsBest(book, side, p) /\ Engine!IsBest(book, side, q) => p = q
           /\ \A id, i, k : /\ Engine!contains(book, id)
                            /\ Engine!IsPosition(book, id, i) /\ Engine!IsPosition(book, id, k)
                            => i = k
  <1>1. ASSUME status = "matching", NEW p, NEW q,
               Engine!IsBest(book, Engine!Opposite(incoming.side), p),
               Engine!IsBest(book, Engine!Opposite(incoming.side), q)
        PROVE  p = q
    <2> DEFINE side == Engine!Opposite(incoming.side)
    <2>1. side \in Matching!Side
      <3>1. incoming \in Matching!Order
        BY <1>1, ServerFacts DEF Matching!TypeOK
      <3> QED
        BY <3>1 DEF Matching!Order, Matching!Side, Engine!Opposite
    <2>2. DOMAIN book.levels[side] \subseteq Price
      BY <2>1, ServerFacts DEF Matching!WellFormed, Matching!IsBook, Matching!IsMap
    <2> HIDE DEF side
    <2>3. /\ p \in DOMAIN book.levels[side] /\ q \in DOMAIN book.levels[side]
          /\ IF side = "Buy" THEN q <= p /\ p <= q ELSE q >= p /\ p >= q
      BY <1>1 DEF Engine!IsBest, side
    <2>4. p \in Int /\ q \in Int
      BY <2>2, <2>3, PriceAssumption, Zenon
    <2> QED
      BY <2>3, <2>4
  <1>2. ASSUME NEW id, NEW i, NEW k, Engine!contains(book, id),
               Engine!IsPosition(book, id, i), Engine!IsPosition(book, id, k)
        PROVE  i = k
    <2> DEFINE at == book.order_locations[id]
               line == Matching!OrdersAt(book, at.side, at.price)
    <2>1. /\ Matching!contains(book, id) /\ Matching!IsPosition(book, id, i)
          /\ Matching!IsPosition(book, id, k) /\ Matching!WellFormed(book)
      BY <1>2, ServerFacts, Zenon DEF Engine!contains, Matching!contains, Engine!IsPosition,
                               Matching!IsPosition
    <2>2. /\ at.side \in Matching!Side /\ at.price \in Price
          /\ book.levels[at.side][at.price].orders = line
      BY <2>1, MatchingAssumptions, Matching!PositionFacts
    <2>3. i \in DOMAIN line /\ k \in DOMAIN line /\ line[i].id = id /\ line[k].id = id
      BY <2>1, <2>2 DEF Matching!IsPosition
    <2>4. Matching!IndexConsistent(book) /\ Matching!OrdersRestable(book)
      BY <2>1 DEF Matching!WellFormed
    <2>5. Matching!InPlace(book, at.side, at.price, i)
      BY <2>2, <2>3, <2>4, MatchingAssumptions, Matching!OrdersInPlace, Zenon
    <2> QED
      BY <2>3, <2>5 DEF Matching!InPlace
  <1> QED
    BY <1>1, <1>2

\* From where the engine is the work has one way to go.
LEMMA OneWay ==
    ASSUME ServerInv, NEW j, NEW n, NEW y, NEW z,
           Goes(j, Point(n, book, incoming, status), y),
           Goes(j, Point(n, book, incoming, status), z)
    PROVE  y = z
  <1> DEFINE x == Point(n, book, incoming, status)
  <1>1. x.read = n /\ x.book = book /\ x.incoming = incoming /\ x.status = status
    BY PointFields
  <1>2. Goes(j, x, y) /\ Goes(j, x, z)
    OBVIOUS
  <1> HIDE DEF x
  <1>3. CASE status = "ready"
    <2> DEFINE r == j[n + 1]
    <2>1. Reads(r, x, y) /\ Reads(r, x, z)
      BY <1>1, <1>2, <1>3, Zenon DEF Goes, Works
    <2> HIDE DEF r
    <2>2. CASE r.type = "NewOrder"
      BY <2>1, <2>2, Zenon DEF Reads
    <2>3. CASE r.type # "NewOrder" /\ ~Engine!contains(book, r.id)
      BY <1>1, <2>1, <2>3, Zenon DEF Reads
    <2>4. CASE r.type # "NewOrder" /\ Engine!contains(book, r.id)
      <3> DEFINE line == book.levels[book.order_locations[r.id].side]
                                    [book.order_locations[r.id].price].orders
                 new(i) == [line[i] EXCEPT !.price = r.price, !.initial_quantity = r.quantity,
                                           !.remaining_quantity = r.quantity]
                 made(i, u) ==
                    /\ Engine!IsPosition(book, r.id, i)
                    /\ \/ /\ Engine!erase_throws(book, r.id, i)
                          /\ u = Point(n + 1, book, incoming, "logic_error")
                       \/ /\ ~Engine!erase_throws(book, r.id, i)
                          /\ r.type = "CancelOrder"
                          /\ u = Point(n + 1, Engine!extract_order(book, r.id, i), incoming,
                                       "cancelled")
                       \/ /\ ~Engine!erase_throws(book, r.id, i)
                          /\ r.type = "ReplaceOrder"
                          /\ u = Started(n + 1, Engine!extract_order(book, r.id, i), new(i))
      <3>1. ASSUME NEW u, Reads(r, x, u) PROVE \E i : made(i, u)
        BY <1>1, <2>4, <3>1, Zenon DEF Reads
      <3>2. PICK i : made(i, y)
        BY <2>1, <3>1, Zenon
      <3>3. PICK k : made(k, z)
        BY <2>1, <3>1, Zenon
      <3>4. i = k
        BY <2>4, <3>2, <3>3, OneOfEach, Zenon
      <3> HIDE DEF new
      <3> QED
        BY <3>2, <3>3, <3>4
    <2> QED
      BY <2>2, <2>3, <2>4
  <1>4. CASE status = "matching"
    <2>1. Works(x, y) /\ Works(x, z)
      BY <1>1, <1>2, <1>4 DEF Goes
    <2> DEFINE side == Engine!Opposite(incoming.side)
               looping == incoming.remaining_quantity > 0 /\ Engine!can_match(book, incoming)
               quantity(p) == IF incoming.remaining_quantity
                                     < Head(book.levels[side][p].orders).remaining_quantity
                              THEN incoming.remaining_quantity
                              ELSE Head(book.levels[side][p].orders).remaining_quantity
    <2>2. CASE looping
      <3> DEFINE made(p, u) ==
                    /\ Engine!IsBest(book, side, p)
                    /\ u = Point(n, Engine!fill_front(book, side, p, quantity(p)),
                                 [incoming EXCEPT !.remaining_quantity = @ - quantity(p)], status)
      <3>1. ASSUME NEW u, Works(x, u) PROVE \E p : made(p, u)
        BY <1>1, <2>2, <3>1, Zenon DEF Works
      <3>2. PICK p : made(p, y)
        BY <2>1, <3>1
      <3>3. PICK q : made(q, z)
        BY <2>1, <3>1
      <3>4. p = q
        BY <1>4, <3>2, <3>3, OneOfEach, Zenon
      <3> HIDE DEF quantity, side
      <3> QED
        BY <3>2, <3>3, <3>4
    <2>3. CASE ~looping
      <3> DEFINE rests == incoming.remaining_quantity > 0 /\ Engine!may_rest(incoming)
      <3>1. CASE rests
        <4>1. ASSUME NEW u, Works(x, u)
              PROVE  u = IF Engine!contains(book, incoming.id)
                         THEN Point(n, book, incoming, "invalid_argument")
                         ELSE Point(n, Engine!add_order(book, incoming), incoming, "done")
          BY <1>1, <2>3, <3>1, <4>1, Zenon DEF Works
        <4> QED
          BY <2>1, <4>1
      <3>2. CASE ~rests
        <4>1. ASSUME NEW u, Works(x, u) PROVE u = Point(n, book, incoming, "done")
          BY <1>1, <2>3, <3>2, <4>1, Zenon DEF Works
        <4> QED
          BY <2>1, <4>1
      <3> QED
        BY <3>1, <3>2
    <2> QED
      BY <2>2, <2>3
  <1>5. CASE status \notin {"ready", "matching"}
    BY <1>1, <1>2, <1>5, Zenon DEF Goes, Works
  <1> QED
    BY <1>3, <1>4, <1>5

-----------------------------------------------------------------------------
(* Recovery comes to the book that was left *)

\* How far the process is with its journal: it has read all of it while it serves, as a
\* request is called and written in one step, and what was replayed before.
Read == IF phase = "running" THEN Len(journal) ELSE replayed

Now == Point(Read, book, incoming, status)

Start == Point(0, EmptyBook, NoOrder, "ready")

\* A journal of n records has been carried through and left book b.
Through(n, b) == Point(n, b, NoOrder, "ready")

\* The engine is always on the way through the journal. While a command is being
\* carried out, the journal without it leads to the book before it; before and during
\* recovery, the whole journal leads on to the book that is to be recovered.
OnTheWay ==
    /\ status = "ready" => incoming = NoOrder
    /\ Reaches(journal, Start, Now)
    /\ phase = "running" /\ command = NoCommand =>
          settled = book /\ Now = Through(Len(journal), book)
    /\ phase = "running" /\ command # NoCommand =>
          /\ journal # <<>>
          /\ Reaches(Front(journal), Start, Through(Len(journal) - 1, settled))
    /\ phase # "running" /\ settled # Nothing =>
          /\ Reaches(journal, Start, Through(Len(journal), settled))
          /\ Reaches(journal, Now, Through(Len(journal), settled))

\* No record follows a remnant, but perhaps the one of the command that is being
\* carried out, which a crash may yet cut short.
Framed ==
    \/ broken = {}
    \/ command # NoCommand /\ broken \subseteq {Len(journal) - 1}

\* A file that has no record behind a remnant never had one that was carried through.
LEMMA FramedBefore ==
    ASSUME ServerInv, [Next]_vars, Framed'
    PROVE  Framed
  <1>1. /\ journal \in Seq(Request) /\ Len(journal) \in Nat
        /\ broken \subseteq 0 .. Len(journal) - 1
    BY DEF ServerInv, TypeOK
  <1>2. CASE UNCHANGED <<command, journal, broken>>
    BY <1>2 DEF Framed
  <1>3. CASE command' = NoCommand /\ broken' = broken
    BY <1>3 DEF Framed
  <1>4. ASSUME NEW request \in Request, append_journal_record(request)
        PROVE  Framed
    <2>1. /\ Len(journal') = Len(journal) + 1
          /\ broken \subseteq broken'
      BY <1>1, <1>4 DEF append_journal_record
    <2>2. broken \subseteq {Len(journal)}
      BY <1>1, <2>1 DEF Framed
    <2> QED
      BY <1>1, <2>2 DEF Framed
  <1>5. CASE Crash
    <2>1. command' = NoCommand
      BY <1>5 DEF Crash
    <2>2. CASE command # NoCommand /\ broken' = broken \ {Len(journal) - 1}
      BY <2>1, <2>2 DEF Framed
    <2> QED
      BY <1>3, <1>5, <2>1, <2>2 DEF Crash, fileVars
  <1>6. ASSUME NEW s \in Socket, NEW request \in Request,
               \/ handle_new_order(s, request)
               \/ handle_cancel_order(s, request)
               \/ handle_replace_order(s, request)
        PROVE  Framed
    BY <1>2, <1>4, <1>6 DEF handle_new_order, handle_cancel_order, handle_replace_order,
                            Accept, Refuse, fileVars
  <1>7. CASE SettleNewOrder \/ SettleReplace \/ SettleCancel
    BY <1>3, <1>7 DEF SettleNewOrder, SettleReplace, SettleCancel, FinishOrder, Settle, fileVars
  <1>8. CASE \/ Connect \/ EngineStep \/ Send \/ UNCHANGED vars
             \/ \E s \in Socket : Disconnect(s) \/ HandleMalformed(s)
             \/ \E enabled \in BOOLEAN : set_global_kill_switch(enabled)
    BY <1>2, <1>8 DEF Connect, EngineStep, Send, vars, Disconnect, HandleMalformed, Refuse,
                      set_global_kill_switch, fileVars, handlerVars
  <1>9. CASE Restart \/ ReplayRecord \/ ReplayReturns \/ ReplayMisframed \/ FinishRecovery
    BY <1>2, <1>9 DEF Restart, ReplayRecord, ReplayReturns, ReplayMisframed, FinishRecovery,
                      FileAndServerUnchanged, fileVars, handlerVars
  <1> QED
    BY <1>5, <1>6, <1>7, <1>8, <1>9 DEF Next

\* A journal that has been carried through leaves nothing to do.
LEMMA ThroughIsDone ==
    ASSUME NEW j, Len(j) \in Nat, NEW b, NEW w, Goes(j, Through(Len(j), b), w)
    PROVE  FALSE
  <1> DEFINE x == Through(Len(j), b)
  <1>1. x.read = Len(j) /\ x.status = "ready"
    BY PointFields DEF Through
  <1>2. ~(Len(j) \in 0 .. Len(j) - 1)
    OBVIOUS
  <1> HIDE DEF x
  <1>3. Goes(j, x, w)
    BY DEF x
  <1> QED
    BY <1>1, <1>2, <1>3, Zenon DEF Goes, Works

\* A step of the work, made by the engine.
LEMMA StepOnTheWay ==
    ASSUME ServerInv, Goes(journal, Now, Now'), phase # "running", phase' # "running",
           journal' = journal, settled' = settled, OnTheWay,
           status' = "ready" => incoming' = NoOrder
    PROVE  OnTheWay'
  <1>1. Reaches(journal', Start, Now')
    BY ReachesOn DEF OnTheWay
  <1>2. ASSUME settled' # Nothing
        PROVE  /\ Reaches(journal', Start, Through(Len(journal'), settled'))
               /\ Reaches(journal', Now', Through(Len(journal'), settled'))
    <2> DEFINE z == Through(Len(journal), settled)
    <2>1. Reaches(journal, Start, z) /\ Reaches(journal, Now, z)
      BY <1>2 DEF OnTheWay
    <2>2. Now # z
      BY ThroughIsDone DEF ServerInv, TypeOK
    <2>3. \A w : Goes(journal, Now, w) => w = Now'
      BY OneWay DEF Now
    <2>4. Reaches(journal, Now', z)
      BY <2>1, <2>2, <2>3, ReachesFrom
    <2> QED
      BY <2>1, <2>4
  <1> QED
    BY <1>1, <1>2 DEF OnTheWay

\* Nothing happens to the book, the journal or the command.
LEMMA QuietOnTheWay ==
    ASSUME OnTheWay,
           UNCHANGED <<book, incoming, status, phase, command, journal, replayed, settled>>
    PROVE  OnTheWay'
  <1>1. Read' = Read
    BY DEF Read
  <1>2. Now' = Now
    BY <1>1 DEF Now
  <1>3. Through(Len(journal), book)' = Through(Len(journal), book)
        /\ Through(Len(journal), settled)' = Through(Len(journal), settled)
        /\ Through(Len(journal) - 1, settled)' = Through(Len(journal) - 1, settled)
    BY DEF Through, Point
  <1> QED
    BY <1>2, <1>3 DEF OnTheWay

LEMMA InitOnTheWay == Init => OnTheWay
  <1> SUFFICES ASSUME Init PROVE OnTheWay
    OBVIOUS
  <1>1. /\ book = EmptyBook /\ incoming = NoOrder /\ status = "ready" /\ phase = "running"
        /\ journal = <<>> /\ settled = book /\ command = NoCommand
    BY DEF Init, Engine!Init, Engine!EmptyBook, EmptyBook, Engine!Side, Side
  <1>2. Read = 0 /\ Len(journal) = 0
    BY <1>1 DEF Read
  <1>3. Now = Start /\ Now = Through(Len(journal), book)
    BY <1>1, <1>2 DEF Now, Start, Through
  <1> QED
    BY <1>1, <1>3, ReachesItself DEF OnTheWay

\* A call leaves the engine busy.
LEMMA CalledIsBusy ==
    ASSUME NEW r, Called(r)
    PROVE  status' # "ready"
  BY Zenon DEF Called, Engine!ProcessOrder, Engine!CancelOrder, Engine!ReplaceOrder,
         Engine!StartProcessing

\* A request is written and called.
LEMMA AcceptOnTheWay ==
    ASSUME ServerInv, ServerInv', OnTheWay, NEW s \in Socket, NEW request \in Request,
           Receives(s), Accept(s, request), Called(request), ServerUnchanged
    PROVE  OnTheWay'
  <1>1. /\ phase = "running" /\ phase' = "running" /\ command = NoCommand
        /\ command' = request /\ request # NoCommand /\ settled' = settled
        /\ journal \in Seq(Request) /\ journal' = Append(journal, request)
    BY RequestAssumption DEF Receives, Accept, append_journal_record, ServerUnchanged,
                             ServerInv, TypeOK
  <1>2. /\ Len(journal) \in Nat /\ Len(journal') = Len(journal) + 1
        /\ journal'[Len(journal) + 1] = request
        /\ journal' # <<>> /\ Front(journal') = journal
    <2>1. /\ Len(journal) \in Nat /\ Len(journal') = Len(journal) + 1
          /\ journal'[Len(journal) + 1] = request /\ journal' \in Seq(Request)
          /\ \A i \in 1 .. Len(journal) : journal'[i] = journal[i]
      BY <1>1
    <2>2. Front(journal') = journal
      BY <1>1, <2>1 DEF Front
    <2> QED
      BY <2>1, <2>2
  <1>3. /\ status = "ready" /\ settled = book
        /\ Now = Through(Len(journal), book) /\ Now = Point(Len(journal), book, incoming, status)
    BY <1>1, CalledReads, <1>2 DEF OnTheWay, Now, Read
  <1>4. Now' = Point(Len(journal) + 1, book', incoming', status')
    BY <1>1, <1>2 DEF Now, Read
  <1>5. Reads(request, Now, Now')
    BY <1>2, <1>3, <1>4, CalledReads
  <1>6. Goes(journal', Now, Now')
    <2>1. Now.status = "ready" /\ Now.read = Len(journal)
      BY <1>3, PointFields
    <2>2. Len(journal) \in 0 .. Len(journal') - 1
      BY <1>2
    <2> QED
      BY <1>2, <1>5, <2>1, <2>2 DEF Goes
  <1>7. Reaches(journal', Start, Now')
    <2>1. Reaches(journal, Start, Now)
      BY DEF OnTheWay
    <2>2. Reaches(journal', Start, Now)
      BY <1>1, <2>1, ReachesGrown
    <2> QED
      BY <1>6, <2>2, ReachesOn
  <1>8. Reaches(Front(journal'), Start, Through(Len(journal') - 1, settled'))
    <2>1. Len(journal') - 1 = Len(journal)
      BY <1>2
    <2> QED
      BY <1>1, <1>2, <1>3, <2>1, Zenon DEF OnTheWay
  <1> QED
    BY <1>1, <1>2, <1>7, <1>8, CalledIsBusy DEF OnTheWay

LEMMA RefuseOnTheWay ==
    ASSUME OnTheWay, NEW s, NEW id, Refuse(s, id), ServerUnchanged,
           UNCHANGED <<book, incoming, status>>
    PROVE  OnTheWay'
  BY QuietOnTheWay DEF Refuse, ServerUnchanged, fileVars

LEMMA HandlersOnTheWay ==
    ASSUME ServerInv, ServerInv', OnTheWay, NEW s \in Socket, NEW request \in Request,
           \/ handle_new_order(s, request)
           \/ handle_cancel_order(s, request)
           \/ handle_replace_order(s, request)
    PROVE  OnTheWay'
  <1>1. Receives(s) /\ ServerUnchanged
    BY DEF handle_new_order, handle_cancel_order, handle_replace_order
  <1>2. CASE Accept(s, request) /\ Called(request)
    BY <1>1, <1>2, AcceptOnTheWay
  <1>3. CASE Refuse(s, request.id) /\ UNCHANGED <<book, incoming, status>>
    BY <1>1, <1>3, RefuseOnTheWay
  <1> QED
    BY <1>2, <1>3 DEF handle_new_order, handle_cancel_order, handle_replace_order, Called,
                      engineVars

LEMMA EngineStepOnTheWay ==
    ASSUME ServerInv, OnTheWay, EngineStep
    PROVE  OnTheWay'
  <1>1. /\ UNCHANGED <<phase, replayed, settled, command, journal>>
        /\ Engine!MatchStep \/ Engine!Rest \/ Engine!Complete
    BY DEF EngineStep, ServerUnchanged, handlerVars, fileVars
  <1>2. status = "matching" /\ status' # "ready"
    BY <1>1, Zenon DEF Engine!MatchStep, Engine!Rest, Engine!Complete, Engine!LoopDone
  <1>3. Read' = Read
    BY <1>1 DEF Read
  <1>4. Goes(journal, Now, Now')
    <2>1. Works(Now, Now')
      BY <1>1, <1>3, EngineDoesWork DEF Now
    <2> QED
      BY <2>1 DEF Goes
  <1>5. CASE phase # "running"
    BY <1>1, <1>2, <1>4, <1>5, StepOnTheWay
  <1>6. CASE phase = "running"
    <2>1. command # NoCommand
      BY <1>2, <1>6 DEF ServerInv, OneAtATime
    <2>2. Reaches(journal, Start, Now')
      BY <1>4, ReachesOn DEF OnTheWay
    <2>3. journal # <<>> /\ Reaches(Front(journal), Start, Through(Len(journal) - 1, settled))
      BY <1>6, <2>1 DEF OnTheWay
    <2> QED
      BY <1>1, <1>2, <1>6, <2>1, <2>2, <2>3 DEF OnTheWay
  <1> QED
    BY <1>5, <1>6

\* The engine returns: the work is done with a record.
LEMMA ReturnGoes ==
    ASSUME Engine!Return, UNCHANGED <<phase, replayed, journal>>
    PROVE  /\ Goes(journal, Now, Now')
           /\ Now' = Through(Read, book) /\ book' = book
           /\ status' = "ready" /\ incoming' = NoOrder
  <1>1. /\ status \notin {"ready", "matching"} /\ status' = "ready" /\ incoming' = NoOrder
        /\ book' = book
    BY DEF Engine!Return
  <1>2. Read' = Read
    BY DEF Read
  <1>3. Now' = Through(Read, book)
    BY <1>1, <1>2 DEF Now, Through
  <1>4. Now.read = Read /\ Now.book = book /\ Now.status = status
    BY PointFields DEF Now
  <1>5. Goes(journal, Now, Now')
    BY <1>1, <1>3, <1>4 DEF Goes, Through
  <1> QED
    BY <1>1, <1>3, <1>5

LEMMA SettleOnTheWay ==
    ASSUME ServerInv, OnTheWay, Settle
    PROVE  OnTheWay'
  <1>1. /\ phase = "running" /\ UNCHANGED <<phase, replayed, journal>>
        /\ command' = NoCommand /\ settled' = book /\ Engine!Return
    BY DEF Settle, fileVars, ServerInv, OneAtATime
  <1>2. /\ Goes(journal, Now, Now')
        /\ Now' = Through(Read, book) /\ book' = book
        /\ status' = "ready" /\ incoming' = NoOrder
    BY <1>1, ReturnGoes
  <1>3. Reaches(journal', Start, Now')
    BY <1>1, <1>2, ReachesOn DEF OnTheWay
  <1>4. Now' = Through(Len(journal'), book')
    BY <1>1, <1>2 DEF Read
  <1> QED
    BY <1>1, <1>2, <1>3, <1>4 DEF OnTheWay

\* The process dies: the work begins again with what is left of the journal.
LEMMA CrashOnTheWay ==
    ASSUME ServerInv, OnTheWay, Crash
    PROVE  OnTheWay'
  <1>1. /\ phase' # "running" /\ replayed' = 0 /\ book' = EmptyBook /\ incoming' = NoOrder
        /\ status' = "ready" /\ phase \in {"running", "recovering"}
    BY DEF Crash
  <1>2. Now' = Start
    <2>1. Read' = 0
      BY <1>1 DEF Read
    <2> QED
      BY <1>1, <2>1 DEF Now, Start
  <1>3. Reaches(journal', Start, Now')
    BY <1>2, ReachesItself
  <1>4. ASSUME settled' # Nothing
        PROVE  Reaches(journal', Start, Through(Len(journal'), settled'))
    <2>1. phase # "running" => command = NoCommand
      BY DEF ServerInv, TypeOK, OneAtATime
    <2>2. CASE journal' = journal /\ command = NoCommand /\ settled' = settled
      <3>1. CASE phase = "running"
        <4>1. settled = book /\ Now = Through(Len(journal), book) /\ Reaches(journal, Start, Now)
          BY <2>2, <3>1 DEF OnTheWay
        <4> QED
          BY <2>2, <4>1
      <3>2. CASE phase # "running"
        BY <1>4, <2>2, <3>2 DEF OnTheWay
      <3> QED
        BY <3>1, <3>2
    <2>3. CASE journal' = journal /\ command # NoCommand /\ settled' = Nothing
      BY <1>4, <2>3
    <2>4. CASE journal' = Front(journal) /\ command # NoCommand /\ settled' = settled
      <3>1. journal # <<>> /\ Reaches(Front(journal), Start, Through(Len(journal) - 1, settled))
        BY <2>1, <2>4 DEF OnTheWay
      <3>2. Len(Front(journal)) = Len(journal) - 1
        <4>1. journal \in Seq(Request)
          BY DEF ServerInv, TypeOK
        <4> QED
          BY <3>1, <4>1, FrontLength
      <3> QED
        BY <2>4, <3>1, <3>2
    <2> QED
      BY <2>2, <2>3, <2>4 DEF Crash, fileVars
  <1> QED
    BY <1>1, <1>2, <1>3, <1>4 DEF OnTheWay

LEMMA RestartOnTheWay ==
    ASSUME OnTheWay, Restart
    PROVE  OnTheWay'
  <1>1. /\ phase # "running" /\ phase' # "running"
        /\ UNCHANGED <<book, incoming, status, journal, replayed, settled>>
    BY DEF Restart, FileAndServerUnchanged, engineVars, fileVars
  <1>2. Now' = Now
    BY <1>1 DEF Now, Read
  <1> QED
    BY <1>1, <1>2 DEF OnTheWay

LEMMA ReplayOnTheWay ==
    ASSUME ServerInv, OnTheWay, ReplayRecord \/ ReplayReturns
    PROVE  OnTheWay'
  <1>1. /\ phase = "recovering" /\ phase' = "recovering"
        /\ UNCHANGED <<journal, settled>>
    BY DEF ReplayRecord, ReplayReturns, FileAndServerUnchanged, fileVars
  <1>2. CASE ReplayRecord
    <2>1. /\ Called(journal[replayed + 1]) /\ replayed < Len(journal)
          /\ replayed' = replayed + 1
      BY <1>2 DEF ReplayRecord, Called
    <2>2. replayed \in Nat /\ replayed \in 0 .. Len(journal) - 1
      BY <2>1 DEF ServerInv, TypeOK
    <2>3. /\ Now = Point(replayed, book, incoming, status)
          /\ Now' = Point(replayed + 1, book', incoming', status')
      BY <1>1, <2>1 DEF Now, Read
    <2>4. status = "ready" /\ Reads(journal[replayed + 1], Now, Now')
      BY <2>1, <2>2, <2>3, CalledReads
    <2>5. Goes(journal, Now, Now')
      <3>1. Now.status = "ready" /\ Now.read = replayed
        BY <2>3, <2>4, PointFields
      <3> QED
        BY <2>2, <2>4, <3>1 DEF Goes
    <2>6. status' # "ready"
      BY <2>1, CalledIsBusy
    <2> QED
      BY <1>1, <2>5, <2>6, StepOnTheWay
  <1>3. CASE ReplayReturns
    <2>1. Goes(journal, Now, Now') /\ incoming' = NoOrder
      BY <1>1, <1>3, ReturnGoes DEF ReplayReturns
    <2> QED
      BY <1>1, <2>1, StepOnTheWay
  <1> QED
    BY <1>2, <1>3

\* Recovery is done, and has come to the book it was to come to.
LEMMA FinishOnTheWay ==
    ASSUME ServerInv, OnTheWay, FinishRecovery, broken = {}
    PROVE  OnTheWay'
  <1>1. /\ phase = "recovering" /\ status = "ready" /\ replayed = Len(journal)
        /\ phase' \in {"refusing", "running"}
        /\ settled' = IF settled = Nothing THEN book ELSE settled
        /\ UNCHANGED <<book, incoming, status, journal, replayed, command>>
    <2>1. /\ phase = "recovering" /\ status = "ready" /\ replay_results # {}
          /\ phase' \in {"refusing", "running"}
          /\ settled' = IF settled = Nothing THEN book ELSE settled
          /\ UNCHANGED <<book, incoming, status, journal, replayed, command>>
      BY DEF FinishRecovery, FileAndServerUnchanged, engineVars, fileVars, handlerVars
    <2>2. ~(replayed < Len(journal)) /\ replayed \in 0 .. Len(journal)
      BY <2>1 DEF replay_results, ServerInv, TypeOK
    <2> QED
      BY <2>1, <2>2
  <1>2. command = NoCommand
    BY <1>1 DEF ServerInv, TypeOK, OneAtATime
  <1>3. Now = Through(Len(journal), book)
    BY <1>1 DEF OnTheWay, Now, Read, Through
  <1>4. Now' = Now
    BY <1>1 DEF Now, Read
  <1>5. settled' = book
    <2>1. CASE settled # Nothing
      <3>1. Reaches(journal, Now, Through(Len(journal), settled))
        BY <1>1, <2>1 DEF OnTheWay
      <3>2. \A w : ~Goes(journal, Now, w)
        BY <1>3, ThroughIsDone DEF ServerInv, TypeOK
      <3>3. Through(Len(journal), settled) = Through(Len(journal), book)
        BY <1>3, <3>1, <3>2, ReachesNoFurther
      <3>4. settled = book
        BY <3>3, PointFields DEF Through
      <3> QED
        BY <1>1, <3>4
    <2> QED
      BY <1>1, <2>1
  <1>6. Reaches(journal, Start, Now)
    BY DEF OnTheWay
  <1>7. Reaches(journal, Now, Now)
    BY ReachesItself
  <1>8. /\ Now' = Through(Len(journal'), book') /\ Now' = Through(Len(journal'), settled')
        /\ settled' = book' /\ journal' = journal /\ command' = NoCommand
    BY <1>1, <1>2, <1>3, <1>4, <1>5
  <1>9. status = "ready" => incoming = NoOrder
    BY DEF OnTheWay
  <1> QED
    BY <1>1, <1>4, <1>6, <1>7, <1>8, <1>9 DEF OnTheWay

LEMMA NextOnTheWay ==
    ASSUME ServerInv, ServerInv', Framed, OnTheWay, [Next]_vars
    PROVE  OnTheWay'
  <1>1. CASE Connect \/ (\E s \in Socket : Disconnect(s)) \/ Send
             \/ (\E enabled \in BOOLEAN : set_global_kill_switch(enabled)) \/ UNCHANGED vars
    <2>1. UNCHANGED <<book, incoming, status, phase, command, journal, replayed, settled>>
      BY <1>1 DEF Connect, Disconnect, Send, set_global_kill_switch, vars, engineVars, fileVars,
                  handlerVars
    <2> QED
      BY <2>1, QuietOnTheWay
  <1>2. ASSUME NEW s \in Socket, HandleMalformed(s) PROVE OnTheWay'
    BY <1>2, RefuseOnTheWay DEF HandleMalformed, engineVars
  <1>3. ASSUME NEW s \in Socket, NEW request \in Request,
               \/ handle_new_order(s, request)
               \/ handle_cancel_order(s, request)
               \/ handle_replace_order(s, request)
        PROVE  OnTheWay'
    BY <1>3, HandlersOnTheWay
  <1>4. CASE EngineStep
    BY <1>4, EngineStepOnTheWay
  <1>5. CASE SettleNewOrder \/ SettleReplace \/ SettleCancel
    BY <1>5, SettleOnTheWay DEF SettleNewOrder, SettleReplace, SettleCancel, FinishOrder
  <1>6. CASE Crash
    BY <1>6, CrashOnTheWay
  <1>7. CASE Restart
    BY <1>7, RestartOnTheWay
  <1>8. CASE ReplayRecord \/ ReplayReturns
    BY <1>8, ReplayOnTheWay
  <1>9. phase = "recovering" => broken = {}
    BY DEF Framed, ServerInv, TypeOK, OneAtATime
  <1>10. CASE FinishRecovery
    BY <1>9, <1>10, FinishOnTheWay DEF FinishRecovery
  <1>11. ~ReplayMisframed
    BY <1>9 DEF ReplayMisframed
  <1> QED
    BY <1>1, <1>2, <1>3, <1>4, <1>5, <1>6, <1>7, <1>8, <1>10, <1>11 DEF Next

-----------------------------------------------------------------------------
(* The theorems *)

\* Every state of the server has its type, and the journal-processing mutex is held
\* exactly while a command is being matched or something is still to be sent, through
\* crashes and recoveries.
THEOREM ServerTypeCorrect == Spec => []TypeOK
  <1>1. ServerInv => TypeOK
    BY DEF ServerInv
  <1> QED
    BY <1>1, ServerInvariant, PTL

\* Outside a command every owner entry is of an order that rests: the handlers forget
\* no owner of an order that a trade, a cancel or a replace took out of the book.
THEOREM OwnersAlwaysBooked == Spec => []OwnersAreBooked
  <1>1. ServerInv => OwnersAreBooked
    BY DEF ServerInv, OwnersUnderWay, OwnersAreBooked
  <1> QED
    BY <1>1, ServerInvariant, PTL

\* The book that the server serves, and the one that recovery is rebuilding, is
\* never crossed: the engine is used only in ways for which it is proved.
THEOREM ServedBookUncrossed == Spec => []Uncrossed(book)
  <1>1. ServerInv => Uncrossed(book)
    BY DEF ServerInv, Matching!IInv, Matching!Uncrossed, Uncrossed
  <1> QED
    BY <1>1, ServerInvariant, PTL

\* A step outside matching takes an order out of the book only for a session that is
\* connected and that entered the order: a cancel or a replace of its own.
LEMMA OrphansStay ==
    ASSUME [Next]_vars, phase = "running", phase' = "running", status # "matching",
           NEW id \in Booked(book),
           \A s \in Socket : id \in DOMAIN order_owners =>
                                client_risk_ids[s] # order_owners[id].risk_client_id
    PROVE  id \in Booked(book')
  <1>1. CASE book' = book
    BY <1>1
  <1>2. ASSUME NEW s \in Socket, NEW request \in Request,
               \/ handle_new_order(s, request)
               \/ handle_cancel_order(s, request)
               \/ handle_replace_order(s, request)
        PROVE  id \in Booked(book')
    <2>1. CASE book' = book
      BY <2>1
    <2>2. CASE Owns(s, request.id) /\ Called(request)
      <3>1. id # request.id
        BY <2>2 DEF Owns
      <3> QED
        BY <2>2, <3>1, CallTakesOne
    <2> QED
      BY <1>2, <2>1, <2>2, CallTakesOne
         DEF handle_new_order, handle_cancel_order, handle_replace_order, Called, engineVars
  <1>3. CASE EngineStep
    BY <1>3, Zenon DEF EngineStep, Engine!MatchStep, Engine!Rest, Engine!Complete, Engine!LoopDone
  <1> QED
    BY <1>1, <1>2, <1>3
       DEF Next, Connect, Disconnect, HandleMalformed, SettleNewOrder, SettleReplace,
           SettleCancel, FinishOrder, Settle, Engine!Return, Send, set_global_kill_switch,
           Crash, Restart, ReplayRecord, ReplayReturns, ReplayMisframed, FinishRecovery, vars,
           engineVars

\* An order whose session is gone, or that was recovered, leaves the book by trading
\* only, whoever is given its socket next.
THEOREM OrphansTradeOnly == Spec => OrphansOnlyTrade
  <1>1. [Next]_vars =>
           \A id \in Booked(book) :
              /\ phase = "running" /\ phase' = "running"
              /\ status # "matching"
              /\ \A s \in Socket : id \in DOMAIN order_owners =>
                                       client_risk_ids[s] # order_owners[id].risk_client_id
              => id \in Booked(book)'
    BY OrphansStay
  <1> QED
    BY <1>1, PTL DEF Spec, OrphansOnlyTrade

\* Outside a command the risk engine's working orders and counters are those of the
\* owned orders in the book: what the handlers report of trades, rests, cancels and
\* replaces is neither too much nor too little, whoever owns the other order.
THEOREM ServerRiskMatchesBook == Spec => []RiskMatchesBook
  <1>1. RiskKept => RiskMatchesBook
    <2> SUFFICES ASSUME RiskKept, command = NoCommand
                 PROVE  Risk!CountersMatchBook
      BY DEF RiskMatchesBook
    <2>1. Calls!Counted(risk, OwnedOrders)
      BY BetweenCommands DEF Calls!RiskInv
    <2>2. \A c, s, side : /\ Risk!RestingOf(c) = Calls!OrdersOf(OwnedOrders, c)
                          /\ Risk!RestingSide(c, s, side)
                                = Calls!OrdersOnSide(OwnedOrders, c, s, side)
      BY DEF Risk!RestingOf, Risk!RestingSide, Calls!OrdersOf, Calls!OrdersOnSide
    <2>3. \A keys : Risk!OpenQuantity(keys) = Calls!Quantity(OwnedOrders, keys)
      BY DEF Risk!OpenQuantity, Calls!Quantity, Calls!Remaining, Risk!SumOver, Calls!SumOver,
             Risk!Units, Calls!Units, Risk!Cardinality, Calls!Cardinality
    <2>4. \A S : Risk!Cardinality(S) = Calls!Cardinality(S)
      BY DEF Risk!Cardinality, Calls!Cardinality
    <2> QED
      BY <2>1, <2>2, <2>3, <2>4 DEF Calls!Counted, Risk!CountersMatchBook
  <1> QED
    BY <1>1, RiskInvariant, PTL

\* Whatever clients send, and whatever orders they trade with, recovered ones too, no
\* session's position can come to pass its limit, nor its open orders and quantity theirs.
THEOREM ServerLimitsHold == Spec => []LimitsHold
  <1>1. RiskKept => LimitsHold
    <2> SUFFICES ASSUME RiskKept, command = NoCommand
                 PROVE  Risk!PositionStaysWithinLimit /\ Risk!OpenOrdersWithinLimits
      BY DEF LimitsHold
    <2>1. /\ Calls!PositionStaysWithinLimit /\ Calls!OpenOrdersWithinLimits
          /\ RiskNow = risk /\ CommandNow = NoCommand
      BY BetweenCommands DEF Calls!RiskInv
    <2>2. \A c, s, d : Risk!Pending(c, s, d) = 0 /\ Calls!Pending(c, s, d) = 0
      BY <2>1 DEF Risk!Pending, Calls!Pending
    <2>3. Risk!PositionStaysWithinLimit
      BY <2>1, <2>2 DEF Risk!PositionStaysWithinLimit, Calls!PositionStaysWithinLimit,
                        Risk!WorstLong, Calls!WorstLong, Risk!WorstShort, Calls!WorstShort
    <2>4. Risk!OpenOrdersWithinLimits
      BY <2>1 DEF Risk!OpenOrdersWithinLimits, Calls!OpenOrdersWithinLimits
    <2> QED
      BY <2>3, <2>4
  <1> QED
    BY <1>1, RiskInvariant, PTL

\* When nothing is left to send, a TCP listener that has applied every level-3 event has
\* exactly the orders entered since the process started, with what is left of each,
\* and the last book update is the top of the book: through partial and complete
\* fills, replaces that trade, cancels, refusals, crashes and restarts.
THEOREM ServerFeedMatchesBook == Spec => []FeedMatchesBook
  <1>1. Init => FeedUnderWay
    BY InitFeed
  <1>2. ServerInv /\ ServerInv' /\ CommandAtWork /\ RiskKept /\ FeedUnderWay /\ [Next]_vars
           => FeedUnderWay'
    BY NextKeepsFeed
  <1>3. ServerInv /\ FeedUnderWay => FeedMatchesBook
    <2> SUFFICES ASSUME ServerInv, FeedUnderWay, handler = 0
                 PROVE  /\ market.orders = [id \in DOMAIN order_owners |->
                                               Level3(OrderOf(book, id))]
                        /\ market.top \in {Nothing, capture_book_snapshot(book)}
      BY DEF FeedMatchesBook
    <2>1. command = NoCommand /\ outbox = <<>>
      BY DEF ServerInv, TypeOK
    <2>2. PICK top \in {Nothing, capture_book_snapshot(book)} :
             market = Knows(top, Shown(book, DOMAIN order_owners))
      BY <2>1, IdleFeed
    <2> QED
      BY <2>2 DEF Knows, Shown
  <1> QED
    BY <1>1, <1>2, <1>3, RiskInvariant, PTL DEF Spec

\* A process that has recovered has the book that the last command carried through had
\* left behind, after any number of crashes, in a command or in recovery, and whatever
\* is left of a last record: replay does to the records what the handlers did, the
\* matching included, and neither loses nor repeats one. It is not so for a file in which
\* a record follows such a remnant, which ReplayMisframed may pass over.
THEOREM ServerRecoveredBook == Spec => []RecoveredBook
  <1>1. Init => (Framed => OnTheWay)
    BY InitOnTheWay
  <1>2. ServerInv /\ ServerInv' /\ (Framed => OnTheWay) /\ [Next]_vars => (Framed => OnTheWay)'
    BY FramedBefore, NextOnTheWay
  <1>3. (Framed => OnTheWay) => RecoveredBook
    BY DEF Framed, OnTheWay, RecoveredBook
  <1> QED
    BY <1>1, <1>2, <1>3, RiskInvariant, PTL DEF Spec
=============================================================================
