-------------------------- MODULE FixGatewayProofs --------------------------
(***************************************************************************)
(* A FIX session keeps its types, the names of its orders keep leading to  *)
(* them, and what it reports of them is what the exchange has done, for    *)
(* any number of orders and requests.                                      *)
(*                                                                         *)
(* For the last, every order is on a way: the messages on the connection,  *)
(* read one after the other, each fit where the order is then (Fits), and  *)
(* take it (Moved) from what the session has of it (View) to what the      *)
(* exchange has of it (Ends). The session takes the first step of the way  *)
(* when it reads; the exchange adds steps at its end.                      *)
(***************************************************************************)
EXTENDS FixGateway, SumsProofs

-----------------------------------------------------------------------------
(* Maps *)

LEMMA PutIsMap ==
    ASSUME NEW K, NEW V, NEW f, IsMap(f, K, V), NEW k \in K, NEW v \in V
    PROVE  /\ IsMap(Put(f, k, v), K, V)
           /\ DOMAIN Put(f, k, v) = DOMAIN f \cup {k}
           /\ Put(f, k, v)[k] = v
           /\ \A x \in DOMAIN f : x # k => Put(f, k, v)[x] = f[x]
  BY DEF IsMap, Put

LEMMA EraseIsMap ==
    ASSUME NEW K, NEW V, NEW f, IsMap(f, K, V), NEW k
    PROVE  /\ IsMap(Erase(f, k), K, V)
           /\ DOMAIN Erase(f, k) = DOMAIN f \ {k}
           /\ \A x \in DOMAIN f : x # k => Erase(f, k)[x] = f[x]
  BY DEF IsMap, Erase, Restrict

\* A map may be read with more keys and more values.
LEMMA WiderMap ==
    ASSUME NEW K, NEW V, NEW f, IsMap(f, K, V), NEW L, K \subseteq L
    PROVE  IsMap(f, L, V)
  BY DEF IsMap

LEMMA EmptyIsMap ==
    ASSUME NEW K, NEW V
    PROVE  IsMap(EmptyMap, K, V) /\ DOMAIN EmptyMap = {}
  BY DEF IsMap, EmptyMap

-----------------------------------------------------------------------------
(* The inductive invariant *)

Request ==
    [id : OrderId, kind : {"New", "Cancel", "Replace"}, cl_ord_id : ClOrdId, side : Side,
     rests : BOOLEAN, quantity : Nat]

Response == [kind : {"response"}, id : OrderId, success : BOOLEAN]
TradeMessage ==
    [kind : {"trade"},
     trade : [buy : OrderId \cup {Other}, sell : OrderId \cup {Other}, quantity : Nat],
     copies : {1, 2}]
BookUpdate == [kind : {"book_update"}]
CoreMessage == Response \cup TradeMessage \cup BookUpdate

\* The two directions of the connection, and the book at its other end.
ConnectionType ==
    /\ to_core \in Seq(Request)
    /\ from_core \in Seq(CoreMessage)
    /\ IsMap(core, OrderId, [side : Side, left : Nat])

\* A number that has not been given out has no order and no requests.
NumbersFresh ==
    \A id \in OrderId :
        id >= next_numeric_order_id => id \notin DOMAIN orders /\ pending[id] = <<>>

\* The requests under way have names that were used, each its own; that of a cancel or a
\* replacement leads to no order as yet.
NamesUnderWay ==
    \A id \in OrderId : \A i \in DOMAIN pending[id] :
        /\ pending[id][i].cl_ord_id \in used_clord_ids
        /\ pending[id][i].kind # "New" => pending[id][i].cl_ord_id \notin DOMAIN clord_to_order
        /\ \A other \in OrderId : \A j \in DOMAIN pending[other] :
              pending[other][j].cl_ord_id = pending[id][i].cl_ord_id => other = id /\ j = i

\* The entry of an order is the first of its requests, and until it is answered the order
\* has one name.
EntryComesFirst ==
    \A id \in OrderId : \A i \in DOMAIN pending[id] :
        pending[id][i].kind = "New" =>
            /\ i = 1
            /\ id \in DOMAIN orders =>
                  \A name \in DOMAIN clord_to_order :
                      clord_to_order[name] = id => name = orders[id].current_cl_ord_id

SessionInv ==
    TypeOK /\ ConnectionType /\ NumbersFresh /\ NamesUnderWay /\ EntryComesFirst
    /\ CurrentNameWorks

LEMMA InitSessionInv == Init => SessionInv
  <1> SUFFICES ASSUME Init PROVE SessionInv
    OBVIOUS
  <1>1. DOMAIN EmptyMap = {} /\ \A K, V : IsMap(EmptyMap, K, V)
    BY EmptyIsMap
  <1>2. TypeOK /\ ConnectionType
    BY <1>1, FixBoundsAssumption DEF Init, TypeOK, ConnectionType
  <1>3. NumbersFresh /\ NamesUnderWay /\ EntryComesFirst /\ CurrentNameWorks
    BY <1>1 DEF Init, NumbersFresh, NamesUnderWay, EntryComesFirst, CurrentNameWorks, Range
  <1> QED
    BY <1>2, <1>3 DEF SessionInv

-----------------------------------------------------------------------------
(* Requests of the client *)

\* The requests of an order and their places, when one more is under way.
LEMMA Appended ==
    ASSUME NEW S, NEW q \in Seq(S), NEW r \in S
    PROVE  /\ Append(q, r) \in Seq(S)
           /\ DOMAIN q = 1 .. Len(q) /\ Len(q) \in Nat
           /\ DOMAIN Append(q, r) = 1 .. Len(q) + 1
           /\ \A i \in 1 .. Len(q) : Append(q, r)[i] = q[i]
           /\ Append(q, r)[Len(q) + 1] = r
  OBVIOUS

\* A request of a new name joins those under way.
LEMMA RequestJoins ==
    ASSUME TypeOK, NamesUnderWay, NEW id \in OrderId, NEW request \in PendingRequest,
           request.cl_ord_id \notin used_clord_ids,
           used_clord_ids' = used_clord_ids \cup {request.cl_ord_id},
           pending' = [pending EXCEPT ![id] = Append(@, request)],
           \/ UNCHANGED clord_to_order
           \/ /\ request.kind = "New"
              /\ DOMAIN clord_to_order' = DOMAIN clord_to_order \cup {request.cl_ord_id}
    PROVE  pending' \in [OrderId -> Seq(PendingRequest)] /\ NamesUnderWay'
  <1> DEFINE name == request.cl_ord_id
             n == Len(pending[id])
  <1>1. /\ pending \in [OrderId -> Seq(PendingRequest)]
        /\ DOMAIN clord_to_order \subseteq used_clord_ids
    BY DEF TypeOK, IsMap
  <1>2. /\ pending'[id] \in Seq(PendingRequest)
        /\ DOMAIN pending[id] = 1 .. n /\ n \in Nat
        /\ DOMAIN pending'[id] = 1 .. n + 1
        /\ \A i \in 1 .. n : pending'[id][i] = pending[id][i]
        /\ pending'[id][n + 1] = request
    BY <1>1, Appended
  <1>3. \A other \in OrderId : other # id => pending'[other] = pending[other]
    BY <1>1
  <1>4. pending' \in [OrderId -> Seq(PendingRequest)]
    BY <1>1, <1>2
  <1> HIDE DEF n
  \* What was under way keeps its place, and its name is not the new one.
  <1>5. \A other \in OrderId : \A i \in DOMAIN pending[other] :
            pending[other][i].cl_ord_id # name
    BY DEF NamesUnderWay
  <1>6. \A other \in OrderId : \A i \in DOMAIN pending'[other] :
            \/ i \in DOMAIN pending[other] /\ pending'[other][i] = pending[other][i]
            \/ other = id /\ i = n + 1 /\ pending'[other][i] = request
    BY <1>2, <1>3
  <1>7. SUFFICES ASSUME NEW o \in OrderId, NEW i \in DOMAIN pending'[o]
                 PROVE  /\ pending'[o][i].cl_ord_id \in used_clord_ids'
                        /\ pending'[o][i].kind # "New" =>
                              pending'[o][i].cl_ord_id \notin DOMAIN clord_to_order'
                        /\ \A other \in OrderId : \A j \in DOMAIN pending'[other] :
                              pending'[other][j].cl_ord_id = pending'[o][i].cl_ord_id
                                  => other = o /\ j = i
    BY <1>4 DEF NamesUnderWay
  <1>8. CASE i \in DOMAIN pending[o] /\ pending'[o][i] = pending[o][i]
    <2>1. pending[o][i].cl_ord_id \in used_clord_ids /\ pending[o][i].cl_ord_id # name
      BY <1>8, <1>5 DEF NamesUnderWay
    <2>2. pending[o][i].kind # "New" => pending[o][i].cl_ord_id \notin DOMAIN clord_to_order
      BY <1>8 DEF NamesUnderWay
    <2>3. ASSUME NEW other \in OrderId, NEW j \in DOMAIN pending'[other],
                 pending'[other][j].cl_ord_id = pending'[o][i].cl_ord_id
          PROVE  other = o /\ j = i
      <3>1. j \in DOMAIN pending[other] /\ pending'[other][j] = pending[other][j]
        BY <1>6, <1>8, <2>1, <2>3
      <3> QED
        BY <1>8, <2>3, <3>1 DEF NamesUnderWay
    <2> QED
      BY <1>8, <2>1, <2>2, <2>3
  <1>9. CASE o = id /\ i = n + 1 /\ pending'[o][i] = request
    <2>1. ASSUME NEW other \in OrderId, NEW j \in DOMAIN pending'[other],
                 pending'[other][j].cl_ord_id = name
          PROVE  other = o /\ j = i
      BY <1>5, <1>6, <1>9, <2>1
    <2>2. request.kind # "New" => name \notin DOMAIN clord_to_order'
      BY <1>1
    <2> QED
      BY <1>9, <2>1, <2>2
  <1> QED
    BY <1>6, <1>8, <1>9

\* What the gateway writes on the connection is a request.
LEMMA RequestIsSent ==
    ASSUME ConnectionType, NEW id \in OrderId, NEW request \in PendingRequest,
           NEW quantity \in Nat, id \in DOMAIN orders', orders'[id].side \in Side,
           send_core_request(id, request, quantity)
    PROVE  to_core' \in Seq(Request)
  <1>1. Sent(id, request, quantity) \in Request
    BY DEF Sent, Request, PendingRequest, may_rest
  <1> QED
    BY <1>1 DEF send_core_request, ConnectionType

\* A reject on the spot changes nothing that names or numbers depend on.
LEMMA RejectKeepsSession ==
    ASSUME SessionInv, NEW name \in ClOrdId, Named(name), Reject(name),
           next_numeric_order_id' \in {next_numeric_order_id, next_numeric_order_id + 1},
           next_numeric_order_id' \in 1 .. MaxOrders + 1
    PROVE  SessionInv'
  <1>1. IsMap(answer', used_clord_ids', Outcome \cup {"silence"})
    <2>1. IsMap(answer, used_clord_ids', Outcome \cup {"silence"})
      BY WiderMap DEF SessionInv, TypeOK, Named
    <2>2. CASE UNCHANGED answer
      BY <2>1, <2>2
    <2>3. CASE Report(name, "rejected")
      <3>1. name \in used_clord_ids' /\ "rejected" \in Outcome \cup {"silence"}
        BY DEF Named, Outcome
      <3>2. IsMap(Put(answer, name, "rejected"), used_clord_ids', Outcome \cup {"silence"})
        BY <2>1, <3>1, PutIsMap
      <3> QED
        BY <2>3, <3>2 DEF Report
    <2> QED
      BY <2>2, <2>3 DEF Reject
  <1>2. IsMap(clord_to_order', used_clord_ids', OrderId)
    BY WiderMap DEF SessionInv, TypeOK, Named, Reject
  <1>3. TypeOK'
    BY <1>1, <1>2 DEF SessionInv, TypeOK, Named, Reject, trackVars
  <1>4. ConnectionType'
    BY DEF SessionInv, ConnectionType, Named, Reject, coreVars
  <1>5. NumbersFresh'
    BY FixBoundsAssumption DEF SessionInv, NumbersFresh, Reject, OrderId, TypeOK
  <1>6. NamesUnderWay' /\ EntryComesFirst' /\ CurrentNameWorks'
    BY DEF SessionInv, NamesUnderWay, EntryComesFirst, CurrentNameWorks, Reject, Named
  <1> QED
    BY <1>3, <1>4, <1>5, <1>6 DEF SessionInv
\* An order of a new name gets a number of its own.
LEMMA NewOrderKeepsSession ==
    ASSUME SessionInv, NEW name \in ClOrdId, NEW o \in NewOrderSingle,
           handle_new_order(name, o)
    PROVE  SessionInv'
  <1> DEFINE id == next_numeric_order_id
             order == [side |-> o.side, order_type |-> o.order_type,
                       time_in_force |-> translate_new_order_single(o).time_in_force,
                       current_cl_ord_id |-> name, order_quantity |-> o.quantity,
                       cumulative_quantity |-> 0, leaves_quantity |-> o.quantity,
                       ord_status |-> "new"]
             request == [kind |-> "New", cl_ord_id |-> name, total |-> 0, working |-> 0]
  <1>1. /\ Named(name) /\ id \in OrderId
        /\ id' = IF ensure_unique_clordid(name) THEN id + 1 ELSE id
        /\ \/ /\ ensure_unique_clordid(name)
              /\ orders' = Put(orders, id, order)
              /\ clord_to_order' = Put(clord_to_order, name, id)
              /\ send_core_request(id, request, o.quantity)
           \/ Reject(name)
    BY DEF handle_new_order
  <1>2. o \in [side : Side, order_type : OrderType, time_in_force : TimeInForce,
               quantity : Nat \ {0}]
    BY NewOrderAssumption
  <1>3. order \in OrderState
    <2>1. translate_new_order_single(o).time_in_force \in TimeInForce
      BY <1>2 DEF translate_new_order_single, TimeInForce
    <2> QED
      BY <1>2, <2>1 DEF OrderState
  <1>4. request \in PendingRequest
    BY DEF PendingRequest
  <1> HIDE DEF order, request
  <1>5. id' \in {id, id + 1} /\ id' \in 1 .. MaxOrders + 1
    BY <1>1, FixBoundsAssumption DEF OrderId
  <1>6. CASE Reject(name)
    BY <1>1, <1>5, <1>6, RejectKeepsSession
  <1>7. CASE /\ ensure_unique_clordid(name)
             /\ orders' = Put(orders, id, order)
             /\ clord_to_order' = Put(clord_to_order, name, id)
             /\ send_core_request(id, request, o.quantity)
    <2>1. /\ IsMap(orders', OrderId, OrderState)
          /\ DOMAIN orders' = DOMAIN orders \cup {id}
          /\ orders'[id] = order
          /\ \A x \in DOMAIN orders : x # id => orders'[x] = orders[x]
      <3>1. IsMap(orders, OrderId, OrderState) /\ id \in OrderId
        BY <1>1 DEF SessionInv, TypeOK
      <3>2. /\ IsMap(Put(orders, id, order), OrderId, OrderState)
            /\ DOMAIN Put(orders, id, order) = DOMAIN orders \cup {id}
            /\ Put(orders, id, order)[id] = order
            /\ \A x \in DOMAIN orders : x # id => Put(orders, id, order)[x] = orders[x]
        BY <1>3, <3>1 DEF IsMap, Put
      <3> QED
        BY <1>7, <3>2
    <2>2. /\ used_clord_ids' = used_clord_ids \cup {name} /\ name \notin used_clord_ids
          /\ used_clord_ids' \subseteq ClOrdId
      BY <1>1, <1>7 DEF Named, ensure_unique_clordid, SessionInv, TypeOK
    <2>3. /\ IsMap(clord_to_order', used_clord_ids', OrderId)
          /\ DOMAIN clord_to_order' = DOMAIN clord_to_order \cup {name}
          /\ clord_to_order'[name] = id
          /\ \A x \in DOMAIN clord_to_order : x # name => clord_to_order'[x] = clord_to_order[x]
      <3>1. IsMap(clord_to_order, used_clord_ids', OrderId)
        BY <2>2, WiderMap DEF SessionInv, TypeOK
      <3>2. name \in used_clord_ids' /\ id \in OrderId
        BY <1>1, <2>2
      <3> DEFINE names == Put(clord_to_order, name, id)
      <3>3. /\ IsMap(names, used_clord_ids', OrderId)
            /\ DOMAIN names = DOMAIN clord_to_order \cup {name}
            /\ names[name] = id
            /\ \A x \in DOMAIN clord_to_order : x # name => names[x] = clord_to_order[x]
        BY <3>1, <3>2 DEF IsMap, Put
      <3> QED
        BY <1>7, <3>3
    <2>4. order.side \in Side /\ order.current_cl_ord_id = name
      BY <1>3 DEF OrderState, order
    <2>5. request.cl_ord_id = name /\ request.kind = "New"
      BY DEF request
    <2>6. pending' = [pending EXCEPT ![id] = Append(@, request)] /\ UNCHANGED answer
      BY <1>7 DEF send_core_request
    <2>7. pending' \in [OrderId -> Seq(PendingRequest)] /\ NamesUnderWay'
      BY <1>1, <1>4, <2>2, <2>3, <2>5, <2>6, RequestJoins DEF SessionInv
    <2>8. TypeOK'
      <3>1. IsMap(answer', used_clord_ids', Outcome \cup {"silence"})
        BY <2>2, <2>6, WiderMap DEF SessionInv, TypeOK
      <3> QED
        BY <1>1, <1>5, <2>1, <2>2, <2>3, <2>7, <3>1 DEF SessionInv, TypeOK, Named, trackVars
    <2>9. ConnectionType'
      <3>1. to_core' \in Seq(Request)
        BY <1>1, <1>2, <1>4, <1>7, <2>1, <2>4, RequestIsSent DEF SessionInv
      <3> QED
        BY <1>1, <3>1 DEF SessionInv, ConnectionType, Named, coreVars
    <2>10. NumbersFresh'
      <3>1. id' = id + 1
        BY <1>1, <1>7
      <3> SUFFICES ASSUME NEW x \in OrderId, x >= id'
                   PROVE  x \notin DOMAIN orders' /\ pending'[x] = <<>>
        BY DEF NumbersFresh
      <3>2. x >= id /\ x # id
        BY <1>1, <3>1, FixBoundsAssumption DEF OrderId
      <3> QED
        BY <2>1, <2>6, <3>2 DEF SessionInv, NumbersFresh, TypeOK
    \* No name and no request had this number.
    <2>11. id \notin DOMAIN orders /\ pending[id] = <<>>
      BY <1>1 DEF SessionInv, NumbersFresh, OrderId
    <2>12. \A n \in DOMAIN clord_to_order : clord_to_order[n] # id
      BY <2>11 DEF SessionInv, CurrentNameWorks, Range
    <2>13. EntryComesFirst'
      <3> SUFFICES ASSUME NEW x \in OrderId, NEW i \in DOMAIN pending'[x],
                          pending'[x][i].kind = "New"
                   PROVE  /\ i = 1
                          /\ x \in DOMAIN orders' =>
                                \A n \in DOMAIN clord_to_order' :
                                    clord_to_order'[n] = x => n = orders'[x].current_cl_ord_id
        BY DEF EntryComesFirst
      <3>1. CASE x = id
        <4>1. pending'[id] = <<request>>
          BY <1>1, <2>6, <2>11 DEF SessionInv, TypeOK
        <4>2. i = 1
          BY <3>1, <4>1
        <4> QED
          BY <2>1, <2>3, <2>4, <2>12, <3>1, <4>2
      <3>2. CASE x # id
        <4>1. pending'[x] = pending[x]
          BY <2>6, <3>2 DEF SessionInv, TypeOK
        <4>2. /\ i = 1
              /\ x \in DOMAIN orders =>
                    \A n \in DOMAIN clord_to_order :
                        clord_to_order[n] = x => n = orders[x].current_cl_ord_id
          BY <4>1 DEF SessionInv, EntryComesFirst
        <4> QED
          BY <2>1, <2>3, <3>2, <4>2
      <3> QED
        BY <3>1, <3>2
    <2>14. CurrentNameWorks'
      <3>1. name \notin DOMAIN clord_to_order
        BY <2>2 DEF SessionInv, TypeOK, IsMap
      <3>2. ASSUME NEW x \in DOMAIN orders'
            PROVE  /\ orders'[x].current_cl_ord_id \in DOMAIN clord_to_order'
                   /\ clord_to_order'[orders'[x].current_cl_ord_id] = x
        <4>1. CASE x = id
          BY <2>1, <2>3, <2>4, <4>1
        <4>2. CASE x # id
          <5>1. /\ orders[x].current_cl_ord_id \in DOMAIN clord_to_order
                /\ clord_to_order[orders[x].current_cl_ord_id] = x
            BY <2>1, <4>2 DEF SessionInv, CurrentNameWorks
          <5> QED
            BY <2>1, <2>3, <3>1, <4>2, <5>1
        <4> QED
          BY <4>1, <4>2
      <3>3. ASSUME NEW n \in DOMAIN clord_to_order'
            PROVE  clord_to_order'[n] \in DOMAIN orders'
        BY <2>1, <2>3 DEF SessionInv, CurrentNameWorks, Range
      <3> QED
        BY <3>2, <3>3 DEF CurrentNameWorks, Range
    <2> QED
      BY <2>7, <2>8, <2>9, <2>10, <2>13, <2>14 DEF SessionInv
  <1> QED
    BY <1>1, <1>6, <1>7
\* A cancel or a replacement of an order that works joins the order's requests; orders and
\* their names stay.
LEMMA FollowUpKeepsSession ==
    ASSUME SessionInv, NEW name \in ClOrdId, Named(name), NEW orig, Working(name, orig),
           NEW request \in PendingRequest, request.cl_ord_id = name, request.kind # "New",
           NEW quantity \in Nat, send_core_request(clord_to_order[orig], request, quantity),
           UNCHANGED <<next_numeric_order_id, orders, clord_to_order>>
    PROVE  SessionInv'
  <1> DEFINE id == clord_to_order[orig]
  <1>1. id \in OrderId /\ id \in DOMAIN orders /\ orders[id].side \in Side
    BY DEF SessionInv, TypeOK, IsMap, Working, OrderState
  <1>2. /\ used_clord_ids' = used_clord_ids \cup {name} /\ name \notin used_clord_ids
        /\ used_clord_ids' \subseteq ClOrdId
    BY DEF Named, Working, ensure_unique_clordid, SessionInv, TypeOK
  <1>3. pending' = [pending EXCEPT ![id] = Append(@, request)] /\ UNCHANGED answer
    BY DEF send_core_request
  <1> HIDE DEF id
  <1>4. pending' \in [OrderId -> Seq(PendingRequest)] /\ NamesUnderWay'
    BY <1>1, <1>2, <1>3, RequestJoins DEF SessionInv
  <1>5. TypeOK'
    <2>1. /\ IsMap(answer', used_clord_ids', Outcome \cup {"silence"})
          /\ IsMap(clord_to_order', used_clord_ids', OrderId)
      BY <1>2, <1>3, WiderMap DEF SessionInv, TypeOK
    <2> QED
      BY <1>2, <1>4, <2>1 DEF SessionInv, TypeOK, Named, trackVars
  <1>6. ConnectionType'
    <2>1. to_core' \in Seq(Request)
      BY <1>1, RequestIsSent DEF SessionInv, id
    <2> QED
      BY <2>1 DEF SessionInv, ConnectionType, Named, coreVars
  <1>7. NumbersFresh'
    BY <1>1, <1>3 DEF SessionInv, NumbersFresh, TypeOK
  <1>8. EntryComesFirst'
    <2> SUFFICES ASSUME NEW x \in OrderId, NEW i \in DOMAIN pending'[x],
                        pending'[x][i].kind = "New"
                 PROVE  /\ i = 1
                        /\ x \in DOMAIN orders =>
                              \A n \in DOMAIN clord_to_order :
                                  clord_to_order[n] = x => n = orders[x].current_cl_ord_id
      BY DEF EntryComesFirst
    <2>1. i \in DOMAIN pending[x] /\ pending'[x][i] = pending[x][i]
      <3>1. CASE x = id
        <4>1. /\ DOMAIN pending[id] = 1 .. Len(pending[id]) /\ Len(pending[id]) \in Nat
              /\ DOMAIN Append(pending[id], request) = 1 .. Len(pending[id]) + 1
              /\ \A k \in 1 .. Len(pending[id]) : Append(pending[id], request)[k] = pending[id][k]
              /\ Append(pending[id], request)[Len(pending[id]) + 1] = request
          BY <1>1, Appended DEF SessionInv, TypeOK
        <4>2. pending'[id] = Append(pending[id], request)
          BY <1>1, <1>3 DEF SessionInv, TypeOK
        <4> QED
          BY <3>1, <4>1, <4>2
      <3>2. CASE x # id
        BY <1>3, <3>2 DEF SessionInv, TypeOK
      <3> QED
        BY <3>1, <3>2
    <2> QED
      BY <2>1 DEF SessionInv, EntryComesFirst
  <1>9. CurrentNameWorks'
    BY DEF SessionInv, CurrentNameWorks
  <1> QED
    BY <1>4, <1>5, <1>6, <1>7, <1>8, <1>9 DEF SessionInv

LEMMA CancelKeepsSession ==
    ASSUME SessionInv, NEW name \in ClOrdId, NEW orig, handle_cancel(name, orig)
    PROVE  SessionInv'
  <1> DEFINE request == [kind |-> "Cancel", cl_ord_id |-> name, total |-> 0, working |-> 0]
  <1>1. /\ request \in PendingRequest
        /\ request.cl_ord_id = name /\ request.kind # "New"
    BY DEF PendingRequest
  <1>2. Named(name) /\ UNCHANGED next_numeric_order_id
    BY DEF handle_cancel
  <1>3. CASE Reject(name)
    BY <1>2, <1>3, RejectKeepsSession DEF SessionInv, TypeOK
  <1>4. CASE /\ Working(name, orig)
             /\ UNCHANGED <<orders, clord_to_order>>
             /\ send_core_request(clord_to_order[orig], request, 0)
    <2> HIDE DEF request
    <2> QED
      BY <1>1, <1>2, <1>4, FollowUpKeepsSession
  <1> QED
    BY <1>3, <1>4 DEF handle_cancel

\* The rest that a replacement asks for is a quantity: the total is more than the fills.
LEMMA ReplaceKeepsSession ==
    ASSUME SessionInv, NEW name \in ClOrdId, NEW orig, NEW total \in 1 .. MaxQuantity,
           handle_replace(name, orig, total)
    PROVE  SessionInv'
  <1> DEFINE id == clord_to_order[orig]
             working == working_quantity(orders[id], total)
             request == [kind |-> "Replace", cl_ord_id |-> name, total |-> total,
                         working |-> working]
  <1>1. Named(name) /\ UNCHANGED next_numeric_order_id
    BY DEF handle_replace
  <1>2. CASE Reject(name)
    BY <1>1, <1>2, RejectKeepsSession DEF SessionInv, TypeOK
  <1>3. CASE /\ Working(name, orig)
             /\ MayReplace(orders[id], total)
             /\ UNCHANGED <<orders, clord_to_order>>
             /\ send_core_request(id, request, working)
    <2>1. id \in DOMAIN orders
      BY <1>3 DEF Working
    <2>2. orders[id].cumulative_quantity \in Nat
      BY <2>1 DEF SessionInv, TypeOK, IsMap, OrderState
    <2>3. working \in Nat /\ total \in Nat
      BY <1>3, <2>2, FixBoundsAssumption DEF MayReplace, working_quantity
    <2>4. /\ request \in PendingRequest
          /\ request.cl_ord_id = name /\ request.kind # "New"
      BY <2>3 DEF PendingRequest
    <2> HIDE DEF request, working
    <2> QED
      BY <1>1, <1>3, <2>3, <2>4, FollowUpKeepsSession
  <1> QED
    BY <1>2, <1>3 DEF handle_replace

-----------------------------------------------------------------------------
(* Messages of the exchange *)

\* The kinds of message, and what each carries.
LEMMA MessageParts ==
    ASSUME NEW m \in CoreMessage
    PROVE  /\ m.kind \in {"response", "trade", "book_update"}
           /\ m.kind = "response" => m \in Response
           /\ m.kind = "trade" => m \in TradeMessage
  BY DEF CoreMessage, Response, TradeMessage, BookUpdate

\* What is left on the connection is messages.
LEMMA ReceiveKeepsConnection ==
    ASSUME ConnectionType, NEW kind, Receive(kind)
    PROVE  /\ ConnectionType'
           /\ Head(from_core) \in CoreMessage
           /\ Head(from_core).kind = kind
           /\ UNCHANGED <<phase, next_numeric_order_id, used_clord_ids>>
  <1>1. Head(from_core) \in CoreMessage /\ Tail(from_core) \in Seq(CoreMessage)
    BY DEF ConnectionType, Receive, extract_core_message
  <1>2. from_core' \in Seq(CoreMessage)
    <2>1. CASE Head(from_core).kind = "trade" /\ Head(from_core).copies > 1
      <3>1. [Head(from_core) EXCEPT !.copies = @ - 1] \in TradeMessage
        BY <1>1, <2>1, MessageParts DEF TradeMessage
      <3>2. [Head(from_core) EXCEPT !.copies = @ - 1] \in CoreMessage
        BY <3>1 DEF CoreMessage
      <3> QED
        BY <1>1, <2>1, <3>2 DEF Receive, extract_core_message
    <2> QED
      BY <1>1, <2>1 DEF Receive, extract_core_message
  <1> QED
    BY <1>1, <1>2 DEF ConnectionType, Receive, coreVars

\* Orders that keep their names, as fills and cancels leave them.
LEMMA NamesKept ==
    ASSUME SessionInv, DOMAIN orders' = DOMAIN orders,
           \A id \in DOMAIN orders : orders'[id].current_cl_ord_id = orders[id].current_cl_ord_id,
           UNCHANGED <<next_numeric_order_id, used_clord_ids, clord_to_order, pending>>
    PROVE  NumbersFresh' /\ NamesUnderWay' /\ EntryComesFirst' /\ CurrentNameWorks'
  <1>1. NumbersFresh' /\ NamesUnderWay'
    BY DEF SessionInv, NumbersFresh, NamesUnderWay
  <1>2. EntryComesFirst'
    BY DEF SessionInv, EntryComesFirst
  <1>3. CurrentNameWorks'
    BY DEF SessionInv, CurrentNameWorks
  <1> QED
    BY <1>1, <1>2, <1>3

LEMMA SmallerOf ==
    ASSUME NEW m \in Nat, NEW n \in Nat
    PROVE  Min({m, n}) \in Nat /\ Min({m, n}) <= m /\ Min({m, n}) <= n
  <1>1. \E x \in {m, n} : \A y \in {m, n} : x =< y
    <2>1. CASE m <= n
      BY <2>1
    <2>2. CASE ~(m <= n)
      BY <2>2
    <2> QED
      BY <2>1, <2>2
  <1> QED
    BY <1>1 DEF Min

LEMMA TradeKeepsOrder ==
    ASSUME NEW order \in OrderState, NEW traded \in Nat
    PROVE  /\ apply_trade_to_order(order, traded) \in OrderState
           /\ apply_trade_to_order(order, traded).current_cl_ord_id = order.current_cl_ord_id
  <1>1. order.leaves_quantity \in Nat /\ order.cumulative_quantity \in Nat
    BY DEF OrderState
  <1> DEFINE quantity == Min({order.leaves_quantity, traded})
  <1>2. quantity \in Nat /\ quantity <= order.leaves_quantity
    BY <1>1, SmallerOf
  <1> HIDE DEF quantity
  <1>3. /\ order.cumulative_quantity + quantity \in Nat
        /\ order.leaves_quantity - quantity \in Nat
    BY <1>1, <1>2
  <1>4. apply_trade_to_order(order, traded) =
            [order EXCEPT !.cumulative_quantity = order.cumulative_quantity + quantity,
                          !.leaves_quantity = order.leaves_quantity - quantity,
                          !.ord_status = IF order.leaves_quantity = quantity THEN "filled"
                                         ELSE "partially_filled"]
    BY DEF apply_trade_to_order, quantity, OrderState
  <1> QED
    BY <1>3, <1>4 DEF OrderState
LEMMA TradeKeepsSession ==
    ASSUME SessionInv, handle_core_trade
    PROVE  SessionInv'
  <1> DEFINE trade == Head(from_core).trade
             mine == {trade.buy, trade.sell} \cap DOMAIN orders
             filled == [id \in DOMAIN orders |->
                          IF id \in mine THEN apply_trade_to_order(orders[id], trade.quantity)
                          ELSE orders[id]]
  <1>1. /\ ConnectionType'
        /\ Head(from_core) \in CoreMessage /\ Head(from_core).kind = "trade"
        /\ UNCHANGED <<phase, next_numeric_order_id, used_clord_ids, clord_to_order, pending,
                       answer, non_resting_awaiting_boundary>>
    BY ReceiveKeepsConnection DEF SessionInv, handle_core_trade
  <1>2. trade.quantity \in Nat
    BY <1>1, MessageParts DEF TradeMessage
  <1>3. \/ UNCHANGED orders
        \/ orders' = filled
    BY DEF handle_core_trade
  <1>4. ASSUME NEW id \in DOMAIN orders
        PROVE  /\ filled[id] \in OrderState
               /\ filled[id].current_cl_ord_id = orders[id].current_cl_ord_id
    <2>1. orders[id] \in OrderState
      BY DEF SessionInv, TypeOK, IsMap
    <2> HIDE DEF trade, mine
    <2> QED
      BY <1>2, <2>1, TradeKeepsOrder
  <1>5. /\ IsMap(orders', OrderId, OrderState)
        /\ DOMAIN orders' = DOMAIN orders
        /\ \A id \in DOMAIN orders : orders'[id].current_cl_ord_id = orders[id].current_cl_ord_id
    <2> HIDE DEF mine, trade
    <2>1. DOMAIN filled = DOMAIN orders
      OBVIOUS
    <2>2. filled \in [DOMAIN orders -> OrderState]
      BY <1>4
    <2> HIDE DEF filled
    <2> QED
      BY <1>3, <1>4, <2>1, <2>2 DEF SessionInv, TypeOK, IsMap
  <1>6. TypeOK'
    BY <1>1, <1>5 DEF SessionInv, TypeOK
  <1> QED
    BY <1>1, <1>5, <1>6, NamesKept DEF SessionInv

LEMMA BookUpdateKeepsSession ==
    ASSUME SessionInv, finalize_non_resting_orders
    PROVE  SessionInv'
  <1>1. /\ ConnectionType'
        /\ UNCHANGED <<phase, next_numeric_order_id, used_clord_ids, clord_to_order, pending,
                       answer>>
        /\ non_resting_awaiting_boundary' = {}
    BY ReceiveKeepsConnection DEF SessionInv, finalize_non_resting_orders
  <1>2. /\ IsMap(orders', OrderId, OrderState)
        /\ DOMAIN orders' = DOMAIN orders
        /\ \A id \in DOMAIN orders : orders'[id].current_cl_ord_id = orders[id].current_cl_ord_id
    <2>1. \A id \in DOMAIN orders : orders[id] \in OrderState
      BY DEF SessionInv, TypeOK, IsMap
    <2>2. \A id \in DOMAIN orders :
              [orders[id] EXCEPT !.leaves_quantity = 0, !.ord_status = "canceled"] \in OrderState
      BY <2>1 DEF OrderState
    <2>3. \A id \in DOMAIN orders :
              [orders[id] EXCEPT !.leaves_quantity = 0, !.ord_status = "canceled"].current_cl_ord_id
                  = orders[id].current_cl_ord_id
      BY <2>1 DEF OrderState
    <2> QED
      BY <2>1, <2>2, <2>3 DEF finalize_non_resting_orders, SessionInv, TypeOK, IsMap
  <1>3. TypeOK'
    BY <1>1, <1>2 DEF SessionInv, TypeOK
  <1> QED
    BY <1>1, <1>2, <1>3, NamesKept DEF SessionInv

\* The requests of an order when the first of them has been answered.
LEMMA Answered ==
    ASSUME NEW S, NEW q \in Seq(S), q # <<>>
    PROVE  /\ Tail(q) \in Seq(S) /\ Head(q) \in S
           /\ DOMAIN q = 1 .. Len(q) /\ Len(q) \in Nat /\ Len(q) >= 1
           /\ q[1] = Head(q)
           /\ DOMAIN Tail(q) = 1 .. Len(q) - 1
           /\ \A i \in 1 .. Len(q) - 1 : Tail(q)[i] = q[i + 1]
  OBVIOUS
\* The requests that are left, and their names: none has the name of the one answered, and
\* no entry of that order is left.
LEMMA RequestLeaves ==
    ASSUME TypeOK, NamesUnderWay, EntryComesFirst, NEW id \in OrderId, pending[id] # <<>>,
           pending' = [pending EXCEPT ![id] = Tail(@)], UNCHANGED used_clord_ids,
           DOMAIN clord_to_order' \subseteq DOMAIN clord_to_order \cup {Head(pending[id]).cl_ord_id}
    PROVE  /\ pending' \in [OrderId -> Seq(PendingRequest)]
           /\ Head(pending[id]) \in PendingRequest
           /\ Head(pending[id]).cl_ord_id \in used_clord_ids
           /\ \A x \in OrderId : x # id => pending'[x] = pending[x]
           /\ \A i \in DOMAIN pending'[id] : pending'[id][i].kind # "New"
           /\ NamesUnderWay'
  <1> DEFINE n == Len(pending[id])
             Was(x, i) == IF x = id THEN i + 1 ELSE i
  <1>1. pending \in [OrderId -> Seq(PendingRequest)]
    BY DEF TypeOK
  <1>2. /\ Tail(pending[id]) \in Seq(PendingRequest) /\ Head(pending[id]) \in PendingRequest
        /\ DOMAIN pending[id] = 1 .. n /\ n \in Nat /\ n >= 1
        /\ pending[id][1] = Head(pending[id])
        /\ DOMAIN Tail(pending[id]) = 1 .. n - 1
        /\ \A i \in 1 .. n - 1 : Tail(pending[id])[i] = pending[id][i + 1]
    BY <1>1, Answered
  <1>3. /\ pending'[id] = Tail(pending[id])
        /\ \A x \in OrderId : x # id => pending'[x] = pending[x]
        /\ pending' \in [OrderId -> Seq(PendingRequest)]
    BY <1>1, <1>2
  <1> HIDE DEF n
  <1>4. ASSUME NEW x \in OrderId, NEW i \in DOMAIN pending'[x]
        PROVE  /\ Was(x, i) \in DOMAIN pending[x]
               /\ pending'[x][i] = pending[x][Was(x, i)]
               /\ x = id => i \in Nat /\ Was(x, i) # 1
    <2>1. CASE x = id
      BY <1>2, <1>3, <2>1
    <2>2. CASE x # id
      BY <1>3, <2>2
    <2> QED
      BY <2>1, <2>2
  <1>5. 1 \in DOMAIN pending[id]
    BY <1>2
  <1>6. Head(pending[id]).cl_ord_id \in used_clord_ids
    BY <1>2, <1>5 DEF NamesUnderWay
  <1>7. ASSUME NEW i \in DOMAIN pending'[id]
        PROVE  pending'[id][i].kind # "New"
    BY <1>4 DEF EntryComesFirst
  <1>8. NamesUnderWay'
    <2> SUFFICES ASSUME NEW x \in OrderId, NEW i \in DOMAIN pending'[x]
                 PROVE  /\ pending'[x][i].cl_ord_id \in used_clord_ids'
                        /\ pending'[x][i].kind # "New" =>
                              pending'[x][i].cl_ord_id \notin DOMAIN clord_to_order'
                        /\ \A other \in OrderId : \A j \in DOMAIN pending'[other] :
                              pending'[other][j].cl_ord_id = pending'[x][i].cl_ord_id
                                  => other = x /\ j = i
      BY DEF NamesUnderWay
    <2>1. /\ Was(x, i) \in DOMAIN pending[x]
          /\ pending'[x][i] = pending[x][Was(x, i)]
          /\ x = id => i \in Nat /\ Was(x, i) # 1
      BY <1>4
    <2>2. pending[x][Was(x, i)].cl_ord_id # Head(pending[id]).cl_ord_id
      BY <1>2, <1>5, <2>1 DEF NamesUnderWay
    <2>3. /\ pending[x][Was(x, i)].cl_ord_id \in used_clord_ids
          /\ pending[x][Was(x, i)].kind # "New" =>
                pending[x][Was(x, i)].cl_ord_id \notin DOMAIN clord_to_order
      BY <2>1 DEF NamesUnderWay
    <2>4. ASSUME NEW other \in OrderId, NEW j \in DOMAIN pending'[other],
                 pending'[other][j].cl_ord_id = pending'[x][i].cl_ord_id
          PROVE  other = x /\ j = i
      <3>1. /\ Was(other, j) \in DOMAIN pending[other]
            /\ pending'[other][j] = pending[other][Was(other, j)]
            /\ other = id => j \in Nat
        BY <1>4
      <3>2. other = x /\ Was(other, j) = Was(x, i)
        <4> HIDE DEF Was
        <4> QED
          BY <2>1, <2>4, <3>1 DEF NamesUnderWay
      <3> QED
        BY <2>1, <3>1, <3>2
    <2> QED
      BY <2>1, <2>2, <2>3, <2>4
  <1> QED
    BY <1>2, <1>3, <1>6, <1>7, <1>8

\* A response to the oldest request of an order that is known.
KnownResponse(id, success) ==
    LET request == Head(pending[id])
    IN  /\ id \in DOMAIN orders /\ pending[id] # <<>> /\ success \in BOOLEAN
        /\ UNCHANGED <<phase, next_numeric_order_id, used_clord_ids>>
        /\ pending' = [pending EXCEPT ![id] = Tail(@)]
        /\ Report(request.cl_ord_id, IF success THEN "accepted" ELSE "rejected")
        /\ clord_to_order' = NewNames(id, request, success)
        /\ orders' = IF request.kind = "New" /\ ~success THEN Erase(orders, id)
                     ELSE Put(orders, id, Respond(orders[id], request, success))
        /\ non_resting_awaiting_boundary' \subseteq OrderId

LEMMA KnownResponseKeepsSession ==
    ASSUME SessionInv, ConnectionType', NEW id, NEW success, KnownResponse(id, success)
    PROVE  SessionInv'
  <1> DEFINE request == Head(pending[id])
             name == request.cl_ord_id
             old == orders[id].current_cl_ord_id
             outcome == IF success THEN "accepted" ELSE "rejected"
  <1>1. id \in OrderId /\ id \in DOMAIN orders /\ orders[id] \in OrderState
    BY DEF SessionInv, TypeOK, IsMap, KnownResponse
  <1>2. pending \in [OrderId -> Seq(PendingRequest)]
    BY DEF SessionInv, TypeOK
  <1>3. /\ request \in PendingRequest /\ 1 \in DOMAIN pending[id] /\ pending[id][1] = request
    BY <1>1, <1>2, Answered DEF KnownResponse
  <1>4. name \in used_clord_ids
    BY <1>1, <1>3 DEF SessionInv, NamesUnderWay
  <1>5. /\ IsMap(orders, OrderId, OrderState)
        /\ IsMap(clord_to_order, used_clord_ids, OrderId)
        /\ IsMap(answer, used_clord_ids, Outcome \cup {"silence"})
    BY DEF SessionInv, TypeOK
  <1>6. IsMap(answer', used_clord_ids', Outcome \cup {"silence"})
    <2>1. outcome \in Outcome \cup {"silence"}
      BY DEF Outcome
    <2> HIDE DEF outcome, name
    <2>2. IsMap(Put(answer, name, outcome), used_clord_ids, Outcome \cup {"silence"})
      BY <1>4, <1>5, <2>1, PutIsMap
    <2> QED
      BY <2>2 DEF outcome, name, KnownResponse, Report
  <1> HIDE DEF request
  <1>7. /\ old \in DOMAIN clord_to_order /\ clord_to_order[old] = id
        /\ \A x \in DOMAIN orders : /\ orders[x].current_cl_ord_id \in DOMAIN clord_to_order
                                    /\ clord_to_order[orders[x].current_cl_ord_id] = x
        /\ \A n \in DOMAIN clord_to_order : clord_to_order[n] \in DOMAIN orders
    BY <1>1 DEF SessionInv, CurrentNameWorks, Range
  \* What becomes of names and orders, whichever the response.
  <1>8. /\ IsMap(orders', OrderId, OrderState)
        /\ IsMap(clord_to_order', used_clord_ids, OrderId)
        /\ DOMAIN orders' \subseteq DOMAIN orders
        /\ DOMAIN clord_to_order' \subseteq DOMAIN clord_to_order \cup {name}
        /\ \A x \in DOMAIN orders' : x # id => orders'[x] = orders[x]
        /\ \A n \in DOMAIN clord_to_order' :
              clord_to_order'[n] # id => n \in DOMAIN clord_to_order
                                         /\ clord_to_order'[n] = clord_to_order[n]
        /\ CurrentNameWorks'
    <2>1. CASE request.kind = "New" /\ ~success
      <3>1. orders' = Erase(orders, id) /\ clord_to_order' = Erase(clord_to_order, old)
        BY <2>1 DEF NewNames, request, KnownResponse
      <3>2. /\ IsMap(orders', OrderId, OrderState)
            /\ DOMAIN orders' = DOMAIN orders \ {id}
            /\ \A x \in DOMAIN orders : x # id => orders'[x] = orders[x]
        <4> DEFINE rest == Erase(orders, id)
        <4>1. IsMap(orders, OrderId, OrderState)
          BY <1>5
        <4>2. /\ IsMap(rest, OrderId, OrderState)
              /\ DOMAIN rest = DOMAIN orders \ {id}
              /\ \A x \in DOMAIN orders : x # id => rest[x] = orders[x]
          BY <4>1 DEF IsMap, Erase, Restrict
        <4> QED
          BY <3>1, <4>2
      <3>3. /\ IsMap(clord_to_order', used_clord_ids, OrderId)
            /\ DOMAIN clord_to_order' = DOMAIN clord_to_order \ {old}
            /\ \A n \in DOMAIN clord_to_order : n # old => clord_to_order'[n] = clord_to_order[n]
        <4> DEFINE rest == Erase(clord_to_order, old)
        <4>1. IsMap(clord_to_order, used_clord_ids, OrderId)
          BY <1>5
        <4>2. /\ IsMap(rest, used_clord_ids, OrderId)
              /\ DOMAIN rest = DOMAIN clord_to_order \ {old}
              /\ \A n \in DOMAIN clord_to_order : n # old => rest[n] = clord_to_order[n]
          BY <4>1 DEF IsMap, Erase, Restrict
        <4> QED
          BY <3>1, <4>2
      \* It had no other name.
      <3>4. \A n \in DOMAIN clord_to_order : clord_to_order[n] = id => n = old
        BY <1>1, <1>3, <2>1 DEF SessionInv, EntryComesFirst
      <3>5. CurrentNameWorks'
        <4>1. ASSUME NEW x \in DOMAIN orders'
              PROVE  /\ orders'[x].current_cl_ord_id \in DOMAIN clord_to_order'
                     /\ clord_to_order'[orders'[x].current_cl_ord_id] = x
          BY <1>7, <3>2, <3>3
        <4>2. ASSUME NEW n \in DOMAIN clord_to_order'
              PROVE  clord_to_order'[n] \in DOMAIN orders'
          BY <1>7, <3>2, <3>3, <3>4
        <4> QED
          BY <4>1, <4>2 DEF CurrentNameWorks, Range
      <3> QED
        BY <3>2, <3>3, <3>5
    <2>2. CASE request.kind = "Replace" /\ success
      <3>1. /\ orders' = Put(orders, id, Respond(orders[id], request, success))
            /\ clord_to_order' = Put(clord_to_order, name, id)
        BY <2>2 DEF NewNames, request, KnownResponse
      <3> DEFINE order == Respond(orders[id], request, success)
      <3>2. order \in OrderState /\ order.current_cl_ord_id = name
        BY <1>1, <1>3, <2>2 DEF Respond, OrderState, PendingRequest
      <3> HIDE DEF order, name
      <3>3. /\ IsMap(Put(orders, id, order), OrderId, OrderState)
            /\ DOMAIN Put(orders, id, order) = DOMAIN orders \cup {id}
            /\ Put(orders, id, order)[id] = order
            /\ \A x \in DOMAIN orders : x # id => Put(orders, id, order)[x] = orders[x]
        <4>1. IsMap(orders, OrderId, OrderState)
          BY <1>5
        <4> QED
          BY <1>1, <3>2, <4>1 DEF IsMap, Put
      <3>4. /\ IsMap(orders', OrderId, OrderState)
            /\ DOMAIN orders' = DOMAIN orders
            /\ orders'[id] = order
            /\ \A x \in DOMAIN orders : x # id => orders'[x] = orders[x]
        BY <1>1, <3>1, <3>3 DEF order
      <3> DEFINE names == Put(clord_to_order, name, id)
      <3>5. /\ IsMap(names, used_clord_ids, OrderId)
            /\ DOMAIN names = DOMAIN clord_to_order \cup {name}
            /\ names[name] = id
            /\ \A n \in DOMAIN clord_to_order : n # name => names[n] = clord_to_order[n]
        <4>1. IsMap(clord_to_order, used_clord_ids, OrderId) /\ name \in used_clord_ids
          BY <1>4, <1>5 DEF name
        <4> QED
          BY <1>1, <4>1 DEF IsMap, Put
      <3>6. clord_to_order' = names
        BY <3>1
      <3> HIDE DEF names
      \* The name was nobody's.
      <3>7. name \notin DOMAIN clord_to_order
        BY <1>1, <1>3, <2>2 DEF SessionInv, NamesUnderWay, name
      <3>8. CurrentNameWorks'
        <4>1. ASSUME NEW x \in DOMAIN orders'
              PROVE  /\ orders'[x].current_cl_ord_id \in DOMAIN clord_to_order'
                     /\ clord_to_order'[orders'[x].current_cl_ord_id] = x
          <5>1. CASE x = id
            BY <3>2, <3>4, <3>5, <3>6, <5>1
          <5>2. CASE x # id
            BY <1>7, <3>4, <3>5, <3>6, <3>7, <5>2
          <5> QED
            BY <5>1, <5>2
        <4>2. ASSUME NEW n \in DOMAIN clord_to_order'
              PROVE  clord_to_order'[n] \in DOMAIN orders'
          BY <1>7, <3>4, <3>5, <3>6
        <4> QED
          BY <4>1, <4>2 DEF CurrentNameWorks, Range
      <3> QED
        BY <3>4, <3>5, <3>6, <3>8
    <2>3. CASE ~(request.kind = "New" /\ ~success) /\ ~(request.kind = "Replace" /\ success)
      <3>1. /\ orders' = Put(orders, id, Respond(orders[id], request, success))
            /\ clord_to_order' = clord_to_order
        BY <2>3 DEF NewNames, request, KnownResponse
      <3> DEFINE order == Respond(orders[id], request, success)
      <3>2. order \in OrderState /\ order.current_cl_ord_id = old
        BY <1>1, <1>3, <2>3 DEF Respond, OrderState, PendingRequest
      <3> HIDE DEF order
      <3>3. /\ IsMap(Put(orders, id, order), OrderId, OrderState)
            /\ DOMAIN Put(orders, id, order) = DOMAIN orders \cup {id}
            /\ Put(orders, id, order)[id] = order
            /\ \A x \in DOMAIN orders : x # id => Put(orders, id, order)[x] = orders[x]
        <4>1. IsMap(orders, OrderId, OrderState)
          BY <1>5
        <4> QED
          BY <1>1, <3>2, <4>1 DEF IsMap, Put
      <3>4. /\ IsMap(orders', OrderId, OrderState)
            /\ DOMAIN orders' = DOMAIN orders
            /\ orders'[id] = order
            /\ \A x \in DOMAIN orders : x # id => orders'[x] = orders[x]
        BY <1>1, <3>1, <3>3 DEF order
      <3>5. CurrentNameWorks'
        <4>1. ASSUME NEW x \in DOMAIN orders'
              PROVE  orders'[x].current_cl_ord_id = orders[x].current_cl_ord_id
          BY <3>2, <3>4
        <4> QED
          BY <1>7, <3>1, <3>4, <4>1 DEF CurrentNameWorks, Range
      <3> QED
        BY <1>5, <3>1, <3>4, <3>5
    <2> QED
      BY <2>1, <2>2, <2>3
  <1>9. /\ pending' \in [OrderId -> Seq(PendingRequest)]
        /\ \A x \in OrderId : x # id => pending'[x] = pending[x]
        /\ \A i \in DOMAIN pending'[id] : pending'[id][i].kind # "New"
        /\ NamesUnderWay'
    BY <1>1, <1>8, RequestLeaves DEF SessionInv, request, KnownResponse
  <1>10. TypeOK'
    BY <1>6, <1>8, <1>9 DEF SessionInv, TypeOK, KnownResponse
  <1>11. NumbersFresh'
    BY <1>1, <1>8, <1>9 DEF SessionInv, NumbersFresh, KnownResponse
  <1>12. EntryComesFirst'
    <2> SUFFICES ASSUME NEW x \in OrderId, NEW i \in DOMAIN pending'[x],
                        pending'[x][i].kind = "New"
                 PROVE  /\ i = 1
                        /\ x \in DOMAIN orders' =>
                              \A n \in DOMAIN clord_to_order' :
                                  clord_to_order'[n] = x => n = orders'[x].current_cl_ord_id
      BY DEF EntryComesFirst
    <2>1. x # id /\ pending'[x] = pending[x]
      BY <1>9
    <2>2. /\ i = 1
          /\ x \in DOMAIN orders =>
                \A n \in DOMAIN clord_to_order :
                    clord_to_order[n] = x => n = orders[x].current_cl_ord_id
      BY <2>1 DEF SessionInv, EntryComesFirst
    <2> QED
      BY <1>8, <2>1, <2>2
  <1> QED
    BY <1>8, <1>9, <1>10, <1>11, <1>12 DEF SessionInv
LEMMA ResponseKeepsSession ==
    ASSUME SessionInv, handle_core_order_response
    PROVE  SessionInv'
  <1> DEFINE id == Head(from_core).id
             success == Head(from_core).success
             request == Head(pending[id])
  <1>1. /\ ConnectionType'
        /\ Head(from_core) \in CoreMessage /\ Head(from_core).kind = "response"
        /\ UNCHANGED <<phase, next_numeric_order_id, used_clord_ids>>
    BY ReceiveKeepsConnection DEF SessionInv, handle_core_order_response
  <1>2. id \in OrderId /\ success \in BOOLEAN
    BY <1>1, MessageParts DEF Response
  <1>3. pending' = [pending EXCEPT ![id] = IF @ = <<>> THEN <<>> ELSE Tail(@)]
    BY DEF handle_core_order_response
  <1>4. pending \in [OrderId -> Seq(PendingRequest)]
    BY DEF SessionInv, TypeOK
  <1>5. CASE pending[id] = <<>>
    <2>1. /\ pending' = pending
          /\ UNCHANGED <<orders, clord_to_order, answer, non_resting_awaiting_boundary>>
      BY <1>2, <1>3, <1>4, <1>5 DEF handle_core_order_response
    <2>2. TypeOK'
      BY <1>1, <2>1 DEF SessionInv, TypeOK
    <2> QED
      BY <1>1, <2>1, <2>2, NamesKept DEF SessionInv
  <1>6. CASE pending[id] # <<>> /\ id \notin DOMAIN orders
    <2>1. /\ pending' = [pending EXCEPT ![id] = Tail(@)]
          /\ Report(request.cl_ord_id, "silence")
          /\ UNCHANGED <<orders, clord_to_order, non_resting_awaiting_boundary>>
      BY <1>3, <1>6 DEF handle_core_order_response
    <2> HIDE DEF id
    <2>2. /\ pending' \in [OrderId -> Seq(PendingRequest)]
          /\ request.cl_ord_id \in used_clord_ids
          /\ \A x \in OrderId : x # id => pending'[x] = pending[x]
          /\ \A i \in DOMAIN pending'[id] : pending'[id][i].kind # "New"
          /\ NamesUnderWay'
      BY <1>1, <1>2, <1>6, <2>1, RequestLeaves DEF SessionInv
    <2>3. IsMap(answer', used_clord_ids', Outcome \cup {"silence"})
      <3>1. /\ IsMap(answer, used_clord_ids, Outcome \cup {"silence"})
            /\ "silence" \in Outcome \cup {"silence"}
        BY DEF SessionInv, TypeOK
      <3> QED
        BY <1>1, <2>1, <2>2, <3>1 DEF Report, IsMap, Put
    <2>4. TypeOK'
      BY <1>1, <2>1, <2>2, <2>3 DEF SessionInv, TypeOK
    <2>5. NumbersFresh'
      <3>1. ~(id >= next_numeric_order_id)
        BY <1>2, <1>6 DEF SessionInv, NumbersFresh
      <3> QED
        BY <1>1, <2>1, <2>2, <3>1 DEF SessionInv, NumbersFresh
    <2>6. EntryComesFirst'
      <3> SUFFICES ASSUME NEW x \in OrderId, NEW i \in DOMAIN pending'[x],
                          pending'[x][i].kind = "New"
                   PROVE  /\ i = 1
                          /\ x \in DOMAIN orders =>
                                \A n \in DOMAIN clord_to_order :
                                    clord_to_order[n] = x => n = orders[x].current_cl_ord_id
        BY <2>1 DEF EntryComesFirst
      <3>1. pending'[x] = pending[x]
        BY <2>2
      <3> QED
        BY <3>1 DEF SessionInv, EntryComesFirst
    <2>7. CurrentNameWorks'
      BY <2>1 DEF SessionInv, CurrentNameWorks
    <2> QED
      BY <1>1, <2>2, <2>4, <2>5, <2>6, <2>7 DEF SessionInv
  <1>7. CASE pending[id] # <<>> /\ id \in DOMAIN orders
    <2>1. /\ Report(request.cl_ord_id, IF success THEN "accepted" ELSE "rejected")
          /\ clord_to_order' = NewNames(id, request, success)
          /\ orders' = IF request.kind = "New" /\ ~success THEN Erase(orders, id)
                       ELSE Put(orders, id, Respond(orders[id], request, success))
          /\ non_resting_awaiting_boundary' =
                non_resting_awaiting_boundary \cup
                    {i \in {id} : request.kind = "New" /\ success /\ ~may_rest(orders[i])}
      BY <1>7 DEF handle_core_order_response
    <2>2. non_resting_awaiting_boundary' \subseteq OrderId
      BY <1>2, <2>1 DEF SessionInv, TypeOK
    <2>3. pending' = [pending EXCEPT ![id] = Tail(@)]
      BY <1>3, <1>7
    <2>4. KnownResponse(id, success)
      BY <1>1, <1>2, <1>7, <2>1, <2>2, <2>3 DEF KnownResponse
    <2> QED
      BY <1>1, <2>4, KnownResponseKeepsSession
  <1> QED
    BY <1>5, <1>6, <1>7

-----------------------------------------------------------------------------
(* The end of a session, and the exchange *)

LEMMA CloseKeepsSession ==
    ASSUME SessionInv, Close
    PROVE  SessionInv'
  <1>1. DOMAIN EmptyMap = {} /\ \A K, V : IsMap(EmptyMap, K, V)
    BY EmptyIsMap
  <1>2. TypeOK' /\ ConnectionType'
    BY <1>1 DEF Close, SessionInv, TypeOK, ConnectionType
  <1>3. NumbersFresh' /\ NamesUnderWay' /\ EntryComesFirst' /\ CurrentNameWorks'
    BY <1>1 DEF Close, NumbersFresh, NamesUnderWay, EntryComesFirst, CurrentNameWorks, Range
  <1> QED
    BY <1>2, <1>3 DEF SessionInv

\* Steps of the exchange leave the session alone.
LEMMA SessionLeftAlone ==
    ASSUME SessionInv, UNCHANGED <<next_numeric_order_id, orders, requestVars, trackVars>>,
           phase' \in {"connected", "logged_on", "closed"}, ConnectionType'
    PROVE  SessionInv'
  <1>1. UNCHANGED <<clord_to_order, used_clord_ids, pending, answer,
                    non_resting_awaiting_boundary>>
    BY DEF requestVars, trackVars
  <1>2. TypeOK'
    BY <1>1 DEF SessionInv, TypeOK
  <1> QED
    BY <1>1, <1>2, NamesKept DEF SessionInv

\* What fills come to is a quantity.
LEMMA TradedIsNat ==
    ASSUME NEW n \in Nat, NEW fills, DOMAIN fills = 1 .. n,
           \A i \in 1 .. n : fills[i].quantity \in Nat, NEW places, places \subseteq 1 .. n
    PROVE  Traded(fills, places) \in Nat
  <1>1. IsFiniteSet(places)
    <2>1. IsFiniteSet(1 .. n)
      BY FS_Interval
    <2> QED
      BY <2>1, FS_Subset
  <1>2. Summable([i \in DOMAIN fills |-> fills[i].quantity], places)
    BY <1>1 DEF Summable
  <1> QED
    BY <1>2, SumIsNat DEF Traded

\* The book keeps its type when fills are taken off it.
LEMMA LessFilledIsBook ==
    ASSUME NEW n \in Nat, NEW fills, DOMAIN fills = 1 .. n,
           \A i \in 1 .. n : fills[i].quantity \in Nat,
           NEW book, IsMap(book, OrderId, [side : Side, left : Nat])
    PROVE  IsMap(LessFilled(book, fills), OrderId, [side : Side, left : Nat])
  <1>1. ASSUME NEW r \in DOMAIN book, book[r].left > TradedWith(fills, r)
        PROVE  [book[r] EXCEPT !.left = @ - TradedWith(fills, r)] \in [side : Side, left : Nat]
    <2>1. TradedWith(fills, r) \in Nat
      BY TradedIsNat DEF TradedWith
    <2>2. book[r] \in [side : Side, left : Nat]
      BY DEF IsMap
    <2>3. book[r].left - TradedWith(fills, r) \in Nat
      BY <1>1, <2>1, <2>2
    <2> QED
      BY <2>2, <2>3
  <1> QED
    BY <1>1 DEF LessFilled, IsMap
\* What the exchange sends for a request.
LEMMA CoreSendsMessages ==
    ASSUME ConnectionType, NEW id \in OrderId, NEW success \in BOOLEAN,
           NEW trades \in Seq(TradeMessage), CoreSends(id, success, trades)
    PROVE  from_core' \in Seq(CoreMessage)
  <1> DEFINE response == <<[kind |-> "response", id |-> id, success |-> success]>>
             update == IF success THEN <<[kind |-> "book_update"]>> ELSE <<>>
  <1>1. response \in Seq(CoreMessage)
    <2>1. [kind |-> "response", id |-> id, success |-> success] \in CoreMessage
      BY DEF CoreMessage, Response
    <2> QED
      BY <2>1
  <1>2. update \in Seq(CoreMessage)
    <2>1. [kind |-> "book_update"] \in CoreMessage
      BY DEF CoreMessage, BookUpdate
    <2>2. <<[kind |-> "book_update"]>> \in Seq(CoreMessage) /\ <<>> \in Seq(CoreMessage)
      BY <2>1
    <2> QED
      BY <2>2
  <1>3. trades \in Seq(CoreMessage)
    BY DEF CoreMessage
  <1>4. from_core \in Seq(CoreMessage)
    BY DEF ConnectionType
  <1>5. from_core' = from_core \o response \o trades \o update
    BY DEF CoreSends
  <1> HIDE DEF response, update
  <1> QED
    BY <1>1, <1>2, <1>3, <1>4, <1>5

LEMMA TradeOfIsTrade ==
    ASSUME NEW id \in OrderId, NEW side, NEW fill,
           fill.with \in OrderId \cup {Other}, fill.quantity \in Nat
    PROVE  TradeOf(id, side, fill) \in TradeMessage
  BY DEF TradeOf, TradeMessage

\* The fills that an order may make, one by one.
LEMMA FillsAre ==
    ASSUME ConnectionType, NEW id \in OrderId, NEW side, NEW quantity \in Nat,
           NEW fills \in PossibleFills(id, side, quantity)
    PROVE  \E n \in Nat :
               /\ DOMAIN fills = 1 .. n
               /\ \A i \in 1 .. n : /\ fills[i].quantity \in Nat
                                    /\ fills[i].with \in OrderId \cup {Other}
               /\ Total(fills) \in Nat /\ Total(fills) <= quantity
  <1> DEFINE own == {r \in DOMAIN core \ {id} : core[r].side = Opposite(side)}
             Fill == [with : own \cup {Other}, quantity : 1 .. quantity]
  <1>1. /\ fills \in UNION {[1 .. n -> Fill] : n \in 0 .. quantity}
        /\ Total(fills) <= quantity
    BY DEF PossibleFills
  <1>2. PICK n \in 0 .. quantity : fills \in [1 .. n -> Fill]
    BY <1>1
  <1>3. \A f \in Fill : f.quantity \in Nat /\ f.with \in OrderId \cup {Other}
    BY DEF ConnectionType, IsMap
  <1> HIDE DEF Fill
  <1>4. /\ n \in Nat /\ DOMAIN fills = 1 .. n
        /\ \A i \in 1 .. n : /\ fills[i].quantity \in Nat
                             /\ fills[i].with \in OrderId \cup {Other}
    BY <1>2, <1>3
  <1>5. Total(fills) \in Nat
    BY <1>4, TradedIsNat DEF Total
  <1> QED
    BY <1>1, <1>4, <1>5

LEMMA CoreMatchesKeepsConnection ==
    ASSUME ConnectionType, NEW id \in OrderId, NEW side \in Side, NEW rests \in BOOLEAN,
           NEW quantity \in Nat, CoreMatches(id, side, rests, quantity)
    PROVE  /\ from_core' \in Seq(CoreMessage)
           /\ IsMap(core', OrderId, [side : Side, left : Nat])
  <1>1. PICK fills \in PossibleFills(id, side, quantity) :
            /\ CoreSends(id, TRUE, Deliveries(id, side, fills))
            /\ core' = IF rests /\ quantity - Total(fills) > 0
                       THEN Put(LessFilled(Erase(core, id), fills), id,
                                [side |-> side, left |-> quantity - Total(fills)])
                       ELSE LessFilled(Erase(core, id), fills)
    BY DEF CoreMatches
  <1>2. PICK n \in Nat :
            /\ DOMAIN fills = 1 .. n
            /\ \A i \in 1 .. n : /\ fills[i].quantity \in Nat
                                 /\ fills[i].with \in OrderId \cup {Other}
            /\ Total(fills) \in Nat /\ Total(fills) <= quantity
    BY FillsAre
  <1>3. Deliveries(id, side, fills) \in Seq(TradeMessage)
    <2>1. \A i \in 1 .. n : TradeOf(id, side, fills[i]) \in TradeMessage
      BY <1>2, TradeOfIsTrade
    <2> QED
      BY <1>2, <2>1 DEF Deliveries
  <1>4. from_core' \in Seq(CoreMessage)
    BY <1>1, <1>3, CoreSendsMessages
  <1> DEFINE others == LessFilled(Erase(core, id), fills)
             rest == [side |-> side, left |-> quantity - Total(fills)]
  <1>5. IsMap(Erase(core, id), OrderId, [side : Side, left : Nat])
    BY DEF ConnectionType, IsMap, Erase, Restrict
  <1>6. IsMap(others, OrderId, [side : Side, left : Nat])
    BY <1>2, <1>5, LessFilledIsBook
  <1>7. rest \in [side : Side, left : Nat]
    BY <1>2
  <1>8. core' = IF rests /\ quantity - Total(fills) > 0 THEN Put(others, id, rest) ELSE others
    BY <1>1
  <1> HIDE DEF others, rest
  <1>9. IsMap(Put(others, id, rest), OrderId, [side : Side, left : Nat])
    BY <1>6, <1>7 DEF IsMap, Put
  <1> QED
    BY <1>4, <1>6, <1>8, <1>9

\* A request that the exchange takes, and what it leaves of the session.
LEMMA CoreTakesRequest ==
    ASSUME ConnectionType, NEW kind, NEW success, CoreTakes(kind, success)
    PROVE  /\ Head(to_core) \in Request
           /\ to_core' \in Seq(Request)
           /\ UNCHANGED <<phase, next_numeric_order_id, orders, requestVars, trackVars>>
  <1>1. to_core \in Seq(Request) /\ to_core # <<>> /\ to_core' = Tail(to_core)
    BY DEF ConnectionType, CoreTakes
  <1> QED
    BY <1>1 DEF CoreTakes

\* A step of the exchange is one of these.
LEMMA CoreKeepsSession ==
    ASSUME SessionInv, Core
    PROVE  SessionInv'
  <1> DEFINE request == Head(to_core)
             Entry == [side : Side, left : Nat]
  <1>1. ConnectionType /\ phase \in {"connected", "logged_on", "closed"}
        /\ IsMap(core, OrderId, Entry)
    BY DEF SessionInv, TypeOK, ConnectionType
  <1>2. ASSUME NEW kind, CoreRejects(kind)
        PROVE  SessionInv'
    <2>1. /\ CoreTakes(kind, FALSE) /\ CoreSends(request.id, FALSE, <<>>)
          /\ UNCHANGED core
      BY <1>2 DEF CoreRejects
    <2>2. /\ request \in Request /\ to_core' \in Seq(Request)
          /\ UNCHANGED <<phase, next_numeric_order_id, orders, requestVars, trackVars>>
      BY <1>1, <2>1, CoreTakesRequest
    <2>3. from_core' \in Seq(CoreMessage)
      <3>1. request.id \in OrderId /\ <<>> \in Seq(TradeMessage)
        BY <2>2 DEF Request
      <3> QED
        BY <1>1, <2>1, <3>1, CoreSendsMessages
    <2>4. ConnectionType'
      BY <1>1, <2>1, <2>2, <2>3 DEF ConnectionType
    <2> QED
      BY <1>1, <2>2, <2>4, SessionLeftAlone
  <1>3. ASSUME NEW kind, CoreTakes(kind, TRUE), NEW side \in Side, NEW rests \in BOOLEAN,
               CoreMatches(request.id, side, rests, request.quantity)
        PROVE  SessionInv'
    <2>1. /\ request \in Request /\ to_core' \in Seq(Request)
          /\ UNCHANGED <<phase, next_numeric_order_id, orders, requestVars, trackVars>>
      BY <1>1, <1>3, CoreTakesRequest
    <2>2. request.id \in OrderId /\ request.quantity \in Nat
      BY <2>1 DEF Request
    <2> HIDE DEF request
    <2>3. ConnectionType'
      BY <1>1, <1>3, <2>1, <2>2, CoreMatchesKeepsConnection DEF ConnectionType
    <2> QED
      BY <1>1, <2>1, <2>3, SessionLeftAlone
  <1>4. CASE CoreNewOrder
    <2>1. CASE /\ CoreTakes("New", TRUE)
               /\ CoreMatches(request.id, request.side, request.rests, request.quantity)
      <3>1. request \in Request
        BY <1>1, <2>1, CoreTakesRequest
      <3>2. request.side \in Side /\ request.rests \in BOOLEAN
        BY <3>1 DEF Request
      <3> HIDE DEF request
      <3> QED
        BY <1>3, <2>1, <3>2
    <2> QED
      BY <1>2, <1>4, <2>1 DEF CoreNewOrder
  <1>5. CASE CoreCancel
    <2>1. CASE /\ CoreTakes("Cancel", TRUE)
               /\ core' = Erase(core, request.id)
               /\ CoreSends(request.id, TRUE, <<>>)
      <3>1. /\ request \in Request /\ to_core' \in Seq(Request)
            /\ UNCHANGED <<phase, next_numeric_order_id, orders, requestVars, trackVars>>
        BY <1>1, <2>1, CoreTakesRequest
      <3>2. request.id \in OrderId /\ <<>> \in Seq(TradeMessage)
        BY <3>1 DEF Request
      <3> HIDE DEF request
      <3>3. from_core' \in Seq(CoreMessage)
        BY <1>1, <2>1, <3>2, CoreSendsMessages
      <3>4. IsMap(core', OrderId, Entry)
        BY <1>1, <2>1 DEF IsMap, Erase, Restrict
      <3>5. ConnectionType'
        BY <3>1, <3>3, <3>4 DEF ConnectionType
      <3> QED
        BY <1>1, <3>1, <3>5, SessionLeftAlone
    <2> QED
      BY <1>2, <1>5, <2>1 DEF CoreCancel
  <1>6. CASE CoreReplace
    <2>1. CASE /\ CoreTakes("Replace", TRUE)
               /\ request.id \in DOMAIN core
               /\ CoreMatches(request.id, core[request.id].side, TRUE, request.quantity)
      <3>1. core[request.id].side \in Side
        BY <1>1, <2>1 DEF IsMap
      <3> HIDE DEF request
      <3> QED
        BY <1>3, <2>1, <3>1
    <2> QED
      BY <1>2, <1>6, <2>1 DEF CoreReplace
  <1> QED
    BY <1>4, <1>5, <1>6 DEF Core

LEMMA OtherOrderKeepsSession ==
    ASSUME SessionInv, CoreOtherOrder
    PROVE  SessionInv'
  <1>1. /\ UNCHANGED <<phase, next_numeric_order_id, orders, requestVars, trackVars, to_core>>
        /\ phase \in {"connected", "logged_on", "closed"}
    BY DEF CoreOtherOrder, SessionInv, TypeOK
  <1>2. /\ to_core \in Seq(Request) /\ from_core \in Seq(CoreMessage)
        /\ IsMap(core, OrderId, [side : Side, left : Nat])
    BY DEF SessionInv, ConnectionType
  <1>3. [kind |-> "book_update"] \in CoreMessage
    BY DEF CoreMessage, BookUpdate
  <1>4. CASE from_core' = <<[kind |-> "book_update"]>> /\ UNCHANGED core
    <2>1. ConnectionType'
      BY <1>1, <1>2, <1>3, <1>4 DEF ConnectionType
    <2> QED
      BY <1>1, <2>1, SessionLeftAlone
  <1>5. ASSUME NEW id \in DOMAIN core, NEW quantity \in 1 .. core[id].left,
               from_core' = from_core \o <<TradeOf(id, core[id].side,
                                                   [with |-> Other, quantity |-> quantity]),
                                           [kind |-> "book_update"]>>,
               core' = LessFilled(core, <<[with |-> id, quantity |-> quantity]>>)
        PROVE  SessionInv'
    <2>1. id \in OrderId /\ core[id].left \in Nat
      BY <1>2 DEF IsMap
    <2>2. quantity \in Nat
      BY <2>1
    <2>3. TradeOf(id, core[id].side, [with |-> Other, quantity |-> quantity]) \in CoreMessage
      BY <2>1, <2>2, TradeOfIsTrade DEF CoreMessage
    <2>4. from_core' \in Seq(CoreMessage)
      BY <1>2, <1>3, <1>5, <2>3
    <2> DEFINE fills == <<[with |-> id, quantity |-> quantity]>>
    <2>5. /\ 1 \in Nat /\ DOMAIN fills = 1 .. 1
          /\ \A i \in 1 .. 1 : fills[i].quantity \in Nat
      BY <2>2
    <2>6. core' = LessFilled(core, fills)
      BY <1>5
    <2> HIDE DEF fills
    <2>7. IsMap(core', OrderId, [side : Side, left : Nat])
      BY <1>2, <2>5, <2>6, LessFilledIsBook
    <2>8. ConnectionType'
      BY <1>1, <1>2, <2>4, <2>7 DEF ConnectionType
    <2> QED
      BY <1>1, <2>8, SessionLeftAlone
  <1> QED
    BY <1>4, <1>5 DEF CoreOtherOrder

-----------------------------------------------------------------------------
(* Every step *)

LEMMA NextSessionInv == SessionInv /\ [Next]_vars => SessionInv'
  <1> SUFFICES ASSUME SessionInv, [Next]_vars PROVE SessionInv'
    OBVIOUS
  <1>1. CASE Logon
    <2>1. phase' \in {"connected", "logged_on", "closed"} /\ ConnectionType'
      BY <1>1 DEF Logon, SessionInv, ConnectionType, coreVars
    <2> QED
      BY <1>1, <2>1, SessionLeftAlone DEF Logon
  <1>2. CASE \E name \in ClOrdId : \E o \in NewOrderSingle : handle_new_order(name, o)
    BY <1>2, NewOrderKeepsSession
  <1>3. CASE \E name \in ClOrdId : \E orig \in OrigClOrdId(name) : handle_cancel(name, orig)
    BY <1>3, CancelKeepsSession
  <1>4. CASE \E name \in ClOrdId :
                 \E orig \in OrigClOrdId(name), total \in 1 .. MaxQuantity :
                     handle_replace(name, orig, total)
    BY <1>4, ReplaceKeepsSession
  <1>5. CASE process_core_message
    BY <1>5, ResponseKeepsSession, TradeKeepsSession, BookUpdateKeepsSession
       DEF process_core_message
  <1>6. CASE ClientGone \/ CoreGone
    BY <1>6, CloseKeepsSession DEF ClientGone, CoreGone
  <1>7. CASE CoreStops
    <2>1. /\ ConnectionType' /\ phase' = phase
          /\ UNCHANGED <<next_numeric_order_id, orders, requestVars, trackVars>>
      BY <1>7 DEF CoreStops, SessionInv, ConnectionType
    <2> QED
      BY <2>1, SessionLeftAlone DEF SessionInv, TypeOK
  <1>8. CASE Core
    BY <1>8, CoreKeepsSession
  <1>9. CASE CoreOtherOrder
    BY <1>9, OtherOrderKeepsSession
  <1>10. CASE UNCHANGED vars
    <2>1. /\ ConnectionType' /\ phase' = phase
          /\ UNCHANGED <<next_numeric_order_id, orders, requestVars, trackVars>>
      BY <1>10 DEF vars, SessionInv, ConnectionType, coreVars
    <2> QED
      BY <2>1, SessionLeftAlone DEF SessionInv, TypeOK
  <1> QED
    BY <1>1, <1>2, <1>3, <1>4, <1>5, <1>6, <1>7, <1>8, <1>9, <1>10 DEF Next

LEMMA SpecSessionInv == Spec => []SessionInv
  BY InitSessionInv, NextSessionInv, PTL DEF Spec

\* The session of fix_gateway.cpp keeps its types: no quantity that it computes from fills
\* and totals is negative, and no request or answer has a name that was not used.
THEOREM SessionTypeCorrect == Spec => []TypeOK
  <1>1. SessionInv => TypeOK
    BY DEF SessionInv
  <1> QED
    BY <1>1, SpecSessionInv, PTL

\* The name under which an order was last reported leads to it and no name to an order
\* that is gone, however requests, refusals, replacements and reused names cross.
THEOREM SessionCurrentNameWorks == Spec => []CurrentNameWorks
  <1>1. SessionInv => CurrentNameWorks
    BY DEF SessionInv
  <1> QED
    BY <1>1, SpecSessionInv, PTL

-----------------------------------------------------------------------------
(* One order on its way between the exchange and the session *)

\* What the session has of an order: what is left, what has been filled, the requests
\* under way, and whether the next book update ends it. For a number without an order
\* there is nothing but requests that will be refused.
View(id) ==
    [left |-> IF id \in DOMAIN orders THEN orders[id].leaves_quantity ELSE 0,
     cum |-> IF id \in DOMAIN orders THEN orders[id].cumulative_quantity ELSE 0,
     asks |-> pending[id],
     waits |-> id \in non_resting_awaiting_boundary,
     rests |-> id \in DOMAIN orders /\ may_rest(orders[id])]

Views ==
    [left : Nat, cum : Nat, asks : Seq(PendingRequest), waits : BOOLEAN, rests : BOOLEAN]

\* The order has been entered, and the exchange's answer to that is to come.
Entering(x) == x.asks # <<>> /\ Head(x.asks).kind = "New"

\* The second message of a trade of two own orders, which is a copy.
IsCopy(m) == m.copies = 1 /\ m.trade.buy # Other /\ m.trade.sell # Other

\* A message about order id.
Answers(m, id) == m.kind = "response" /\ m.id = id
Fills(m, id) == m.kind = "trade" /\ id \in {m.trade.buy, m.trade.sell} /\ ~IsCopy(m)

\* A message that makes sense where the order is: an answer to something that was
\* asked, and that has not been overtaken by the end of the order, or a fill of no more
\* than what is left.
Fits(id, m, x) ==
    /\ Answers(m, id) =>
          /\ x.asks # <<>>
          /\ m.success \/ Entering(x) => x.left > 0
          /\ Entering(x) => x.cum = 0 /\ ~x.waits
    /\ Fills(m, id) => m.trade.quantity \in 1 .. x.left

AfterAnswer(x, success) ==
    LET kind == Head(x.asks).kind
    IN  [left |-> IF kind = "New" THEN IF success THEN x.left ELSE 0
                  ELSE IF ~success THEN x.left
                  ELSE IF kind = "Cancel" THEN 0 ELSE Head(x.asks).working,
         cum |-> x.cum,
         asks |-> Tail(x.asks),
         waits |-> x.waits \/ (success /\ kind = "New" /\ ~x.rests),
         rests |-> x.rests /\ (success \/ kind # "New")]

AfterFill(x, quantity) == [x EXCEPT !.left = x.left - quantity, !.cum = x.cum + quantity]

\* Where the order is after a message.
Moved(id, m, x) ==
    IF Answers(m, id) THEN AfterAnswer(x, m.success)
    ELSE IF Fills(m, id) THEN AfterFill(x, m.trade.quantity)
    ELSE IF m.kind = "book_update" /\ x.waits THEN [x EXCEPT !.left = 0, !.waits = FALSE]
    ELSE x

\* A message that fits takes an order from one place to another.
LEMMA MovedIsView ==
    ASSUME NEW id, NEW m \in CoreMessage, NEW x \in Views, Fits(id, m, x)
    PROVE  Moved(id, m, x) \in Views
  <1>1. CASE Answers(m, id)
    <2>1. x.asks \in Seq(PendingRequest) /\ x.asks # <<>> /\ m.success \in BOOLEAN
      BY <1>1, MessageParts DEF Fits, Views, Answers, Response
    <2>2. Tail(x.asks) \in Seq(PendingRequest) /\ Head(x.asks) \in PendingRequest
      BY <2>1
    <2>3. Head(x.asks).working \in Nat
      BY <2>2 DEF PendingRequest
    <2>4. AfterAnswer(x, m.success) \in Views
      BY <2>1, <2>2, <2>3 DEF AfterAnswer, Views
    <2> QED
      BY <1>1, <2>4 DEF Moved
  <1>2. CASE ~Answers(m, id) /\ Fills(m, id)
    <2>1. m.trade.quantity \in 1 .. x.left /\ x.left \in Nat /\ x.cum \in Nat
      BY <1>2 DEF Fits, Views
    <2>2. x.left - m.trade.quantity \in Nat /\ x.cum + m.trade.quantity \in Nat
      BY <2>1
    <2>3. AfterFill(x, m.trade.quantity) \in Views
      BY <2>2 DEF AfterFill, Views
    <2> QED
      BY <1>2, <2>3 DEF Moved
  <1>3. CASE ~Answers(m, id) /\ ~Fills(m, id)
    <2>1. [x EXCEPT !.left = 0, !.waits = FALSE] \in Views
      BY DEF Views
    <2> QED
      BY <1>3, <2>1 DEF Moved
  <1> QED
    BY <1>1, <1>2, <1>3

\* The messages s take order id from x to z.
Takes(id, x, s, z) ==
    \E h \in [0 .. Len(s) -> Views] :
        /\ h[0] = x /\ h[Len(s)] = z
        /\ \A i \in 1 .. Len(s) : Fits(id, s[i], h[i - 1]) /\ h[i] = Moved(id, s[i], h[i - 1])

\* No messages take an order nowhere.
LEMMA TakesNone ==
    ASSUME NEW id, NEW x \in Views
    PROVE  Takes(id, x, <<>>, x)
  <1> DEFINE h == [i \in 0 .. 0 |-> x]
  <1>1. h \in [0 .. 0 -> Views] /\ h[0] = x /\ \A i \in 1 .. 0 : FALSE
    OBVIOUS
  <1>2. Len(<<>>) = 0
    OBVIOUS
  <1> HIDE DEF h
  <1> QED
    BY <1>1, <1>2 DEF Takes

\* Both ends of a way are places.
LEMMA TakesViews ==
    ASSUME NEW id, NEW x, NEW s \in Seq(CoreMessage), NEW z, Takes(id, x, s, z)
    PROVE  x \in Views /\ z \in Views
  <1>1. PICK h \in [0 .. Len(s) -> Views] : h[0] = x /\ h[Len(s)] = z
    BY DEF Takes
  <1>2. Len(s) \in Nat
    OBVIOUS
  <1> QED
    BY <1>1, <1>2

\* Messages of which none changes anything.
LEMMA TakesNowhere ==
    ASSUME NEW id, NEW x \in Views, NEW s \in Seq(CoreMessage),
           \A i \in 1 .. Len(s) : Fits(id, s[i], x) /\ Moved(id, s[i], x) = x
    PROVE  Takes(id, x, s, x)
  <1> DEFINE h == [i \in 0 .. Len(s) |-> x]
  <1>1. Len(s) \in Nat
    OBVIOUS
  <1>2. h \in [0 .. Len(s) -> Views] /\ \A i \in 0 .. Len(s) : h[i] = x
    OBVIOUS
  <1> HIDE DEF h
  <1>3. ASSUME NEW i \in 1 .. Len(s)
        PROVE  Fits(id, s[i], h[i - 1]) /\ h[i] = Moved(id, s[i], h[i - 1])
    <2>1. h[i - 1] = x /\ h[i] = x
      BY <1>1, <1>2
    <2> QED
      BY <2>1
  <1> QED
    BY <1>1, <1>2, <1>3 DEF Takes

\* One message that fits.
LEMMA TakesOne ==
    ASSUME NEW id, NEW x \in Views, NEW m \in CoreMessage, Fits(id, m, x)
    PROVE  Takes(id, x, <<m>>, Moved(id, m, x))
  <1> DEFINE y == Moved(id, m, x)
  <1>1. y \in Views
    BY MovedIsView
  <1>2. Fits(id, m, x) /\ y = Moved(id, m, x)
    OBVIOUS
  <1> HIDE DEF y
  <1> DEFINE h == [i \in 0 .. 1 |-> IF i = 0 THEN x ELSE y]
  <1>3. h \in [0 .. 1 -> Views] /\ h[0] = x /\ h[1] = y
    BY <1>1
  <1>4. Len(<<m>>) = 1 /\ <<m>>[1] = m
    OBVIOUS
  <1> HIDE DEF h
  <1>5. ASSUME NEW i \in 1 .. 1
        PROVE  Fits(id, <<m>>[i], h[i - 1]) /\ h[i] = Moved(id, <<m>>[i], h[i - 1])
    <2>1. i = 1 /\ i - 1 = 0
      OBVIOUS
    <2> QED
      BY <1>2, <1>3, <1>4, <2>1
  <1> QED
    BY <1>3, <1>4, <1>5 DEF Takes, y

\* Messages after messages.
LEMMA TakesThen ==
    ASSUME NEW id, NEW x, NEW y, NEW z, NEW s \in Seq(CoreMessage), NEW t \in Seq(CoreMessage),
           Takes(id, x, s, y), Takes(id, y, t, z)
    PROVE  Takes(id, x, s \o t, z)
  <1> DEFINE m == Len(s)
             n == Len(t)
             all == s \o t
  <1>1. PICK g \in [0 .. m -> Views] :
            /\ g[0] = x /\ g[m] = y
            /\ \A i \in 1 .. m : Fits(id, s[i], g[i - 1]) /\ g[i] = Moved(id, s[i], g[i - 1])
    BY DEF Takes
  <1>2. PICK k \in [0 .. n -> Views] :
            /\ k[0] = y /\ k[n] = z
            /\ \A i \in 1 .. n : Fits(id, t[i], k[i - 1]) /\ k[i] = Moved(id, t[i], k[i - 1])
    BY DEF Takes
  <1>3. /\ m \in Nat /\ n \in Nat /\ Len(all) = m + n
        /\ \A i \in 1 .. m : all[i] = s[i]
        /\ \A i \in 1 .. n : all[m + i] = t[i]
    OBVIOUS
  <1> HIDE DEF m, n, all
  <1> DEFINE h == [i \in 0 .. m + n |-> IF i <= m THEN g[i] ELSE k[i - m]]
  <1>4. ASSUME NEW i \in 0 .. m + n PROVE (IF i <= m THEN g[i] ELSE k[i - m]) \in Views
    <2>1. CASE i <= m
      BY <1>1, <1>3, <2>1
    <2>2. CASE ~(i <= m)
      <3>1. i - m \in 0 .. n
        BY <1>3, <2>2
      <3> QED
        BY <1>2, <2>2, <3>1
    <2> QED
      BY <2>1, <2>2
  <1>5. /\ h \in [0 .. m + n -> Views]
        /\ \A i \in 0 .. m : h[i] = g[i]
        /\ \A i \in 1 .. n : h[m + i] = k[i]
    <2>1. h \in [0 .. m + n -> Views]
      BY <1>4
    <2>2. \A i \in 0 .. m : h[i] = g[i]
      BY <1>3
    <2>3. ASSUME NEW i \in 1 .. n PROVE h[m + i] = k[i]
      <3>1. m + i \in 0 .. m + n /\ ~(m + i <= m) /\ (m + i) - m = i
        BY <1>3
      <3> QED
        BY <3>1
    <2> QED
      BY <2>1, <2>2, <2>3
  <1> HIDE DEF h
  <1>6. ASSUME NEW i \in 1 .. n PROVE h[(m + i) - 1] = k[i - 1]
    <2>1. CASE i = 1
      <3>1. (m + i) - 1 = m /\ i - 1 = 0 /\ m \in 0 .. m
        BY <1>3, <2>1
      <3> QED
        BY <1>1, <1>2, <1>5, <3>1
    <2>2. CASE i # 1
      <3>1. i - 1 \in 1 .. n /\ (m + i) - 1 = m + (i - 1)
        BY <1>3, <2>2
      <3> QED
        BY <1>5, <3>1
    <2> QED
      BY <2>1, <2>2
  <1>7. ASSUME NEW i \in 1 .. m + n
        PROVE  Fits(id, all[i], h[i - 1]) /\ h[i] = Moved(id, all[i], h[i - 1])
    <2>1. CASE i <= m
      <3>1. i \in 1 .. m /\ i \in 0 .. m /\ i - 1 \in 0 .. m
        BY <1>3, <2>1
      <3>2. h[i] = g[i] /\ h[i - 1] = g[i - 1] /\ all[i] = s[i]
        BY <1>3, <1>5, <3>1
      <3> QED
        BY <1>1, <3>1, <3>2
    <2>2. CASE ~(i <= m)
      <3> DEFINE j == i - m
      <3>1. j \in 1 .. n /\ i = m + j
        BY <1>3, <2>2
      <3> HIDE DEF j
      <3>2. h[i] = k[j] /\ h[i - 1] = k[j - 1] /\ all[i] = t[j]
        BY <1>3, <1>5, <1>6, <3>1
      <3> QED
        BY <1>2, <3>1, <3>2
    <2> QED
      BY <2>1, <2>2
  <1>8. h[0] = x /\ h[m + n] = z
    <2>1. h[0] = x
      BY <1>1, <1>3, <1>5
    <2>2. CASE n = 0
      BY <1>1, <1>2, <1>3, <1>5, <2>2
    <2>3. CASE n # 0
      <3>1. n \in 1 .. n
        BY <1>3, <2>3
      <3> QED
        BY <1>2, <1>5, <2>1, <3>1
    <2> QED
      BY <2>1, <2>2, <2>3
  <1> QED
    BY <1>3, <1>5, <1>7, <1>8 DEF Takes, all

\* The first message.
LEMMA TakesFirst ==
    ASSUME NEW id, NEW x, NEW s \in Seq(CoreMessage), s # <<>>, NEW z, Takes(id, x, s, z)
    PROVE  Fits(id, Head(s), x) /\ Takes(id, Moved(id, Head(s), x), Tail(s), z)
  <1> DEFINE n == Len(s)
             t == Tail(s)
  <1>1. PICK h \in [0 .. n -> Views] :
            /\ h[0] = x /\ h[n] = z
            /\ \A i \in 1 .. n : Fits(id, s[i], h[i - 1]) /\ h[i] = Moved(id, s[i], h[i - 1])
    BY DEF Takes
  <1>2. /\ n \in Nat /\ n >= 1 /\ s[1] = Head(s) /\ Len(t) = n - 1
        /\ \A i \in 1 .. n - 1 : t[i] = s[i + 1]
    OBVIOUS
  <1> HIDE DEF n, t
  <1>3. Fits(id, Head(s), x) /\ h[1] = Moved(id, Head(s), x)
    <2>1. 1 \in 1 .. n /\ 1 - 1 = 0
      BY <1>2
    <2> QED
      BY <1>1, <1>2, <2>1
  <1> DEFINE g == [i \in 0 .. n - 1 |-> h[i + 1]]
  <1>4. g \in [0 .. n - 1 -> Views] /\ \A i \in 0 .. n - 1 : g[i] = h[i + 1]
    <2>1. \A i \in 0 .. n - 1 : i + 1 \in 0 .. n
      BY <1>2
    <2> QED
      BY <1>1, <2>1
  <1> HIDE DEF g
  <1>5. ASSUME NEW i \in 1 .. n - 1
        PROVE  Fits(id, t[i], g[i - 1]) /\ g[i] = Moved(id, t[i], g[i - 1])
    <2>1. /\ g[i] = h[i + 1] /\ g[i - 1] = h[(i + 1) - 1] /\ i + 1 \in 1 .. n
          /\ t[i] = s[i + 1]
      BY <1>2, <1>4
    <2> QED
      BY <1>1, <2>1
  <1>6. g[0] = Moved(id, Head(s), x) /\ g[n - 1] = z
    BY <1>1, <1>2, <1>3, <1>4
  <1> QED
    BY <1>2, <1>3, <1>4, <1>5, <1>6 DEF Takes, t

\* With one more request under way, the same messages are answers to the same requests.
Asking(x, r) == [x EXCEPT !.asks = Append(x.asks, r)]

\* A message does the same to an order with one more request behind the others.
LEMMA AskingMore ==
    ASSUME NEW id, NEW m, NEW x \in Views, NEW r \in PendingRequest, Fits(id, m, x)
    PROVE  /\ Fits(id, m, Asking(x, r))
           /\ Moved(id, m, Asking(x, r)) = Asking(Moved(id, m, x), r)
  <1> DEFINE y == Asking(x, r)
  <1>1. /\ y.left = x.left /\ y.cum = x.cum /\ y.waits = x.waits /\ y.rests = x.rests
        /\ y.asks = Append(x.asks, r)
    BY DEF Asking, Views
  <1>2. y \in [left : Nat, cum : Nat, asks : Seq(PendingRequest), waits : BOOLEAN,
               rests : BOOLEAN]
    BY DEF Asking, Views
  <1>3. CASE Answers(m, id)
    <2>1. x.asks # <<>> /\ x.asks \in Seq(PendingRequest)
      BY <1>3 DEF Fits, Views
    <2>2. /\ y.asks # <<>> /\ Head(y.asks) = Head(x.asks)
          /\ Tail(y.asks) = Append(Tail(x.asks), r)
      BY <1>1, <2>1
    <2>3. Entering(y) <=> Entering(x)
      BY <2>1, <2>2 DEF Entering
    <2>4. ~Fills(m, id)
      BY <1>3 DEF Answers, Fills
    <2>5. Fits(id, m, y)
      BY <1>1, <1>3, <2>2, <2>3, <2>4 DEF Fits
    <2>6. AfterAnswer(y, m.success) = Asking(AfterAnswer(x, m.success), r)
      <3> HIDE DEF y
      <3> DEFINE kind == Head(x.asks).kind
                 l == IF kind = "New" THEN IF m.success THEN x.left ELSE 0
                      ELSE IF ~m.success THEN x.left
                      ELSE IF kind = "Cancel" THEN 0 ELSE Head(x.asks).working
                 w == x.waits \/ (m.success /\ kind = "New" /\ ~x.rests)
                 b == x.rests /\ (m.success \/ kind # "New")
      <3>1. /\ AfterAnswer(x, m.success)
                  = [left |-> l, cum |-> x.cum, asks |-> Tail(x.asks), waits |-> w, rests |-> b]
            /\ AfterAnswer(y, m.success)
                  = [left |-> l, cum |-> x.cum, asks |-> Tail(y.asks), waits |-> w, rests |-> b]
        BY <1>1, <2>2, Zenon DEF AfterAnswer
      <3> HIDE DEF l, w, b
      <3>2. Asking([left |-> l, cum |-> x.cum, asks |-> Tail(x.asks), waits |-> w,
                    rests |-> b], r)
               = [left |-> l, cum |-> x.cum, asks |-> Append(Tail(x.asks), r), waits |-> w,
                  rests |-> b]
        BY DEF Asking
      <3> QED
        BY <2>2, <3>1, <3>2, Zenon
    <2> QED
      BY <1>3, <2>5, <2>6 DEF Moved
  <1>4. CASE ~Answers(m, id) /\ Fills(m, id)
    <2>1. Fits(id, m, y)
      BY <1>1, <1>4 DEF Fits
    <2>2. AfterFill(y, m.trade.quantity) = Asking(AfterFill(x, m.trade.quantity), r)
      BY DEF AfterFill, Asking, Views
    <2> QED
      BY <1>4, <2>1, <2>2 DEF Moved
  <1>5. CASE ~Answers(m, id) /\ ~Fills(m, id)
    <2>1. Fits(id, m, y)
      BY <1>5 DEF Fits
    <2>2. [y EXCEPT !.left = 0, !.waits = FALSE]
             = Asking([x EXCEPT !.left = 0, !.waits = FALSE], r)
      BY DEF Asking, Views
    <2> QED
      BY <1>1, <1>5, <2>1, <2>2 DEF Moved
  <1> QED
    BY <1>3, <1>4, <1>5

\* So do all the messages of a way.
LEMMA TakesAsking ==
    ASSUME NEW id, NEW x, NEW s \in Seq(CoreMessage), NEW z, Takes(id, x, s, z),
           NEW r \in PendingRequest
    PROVE  Takes(id, Asking(x, r), s, Asking(z, r))
  <1> DEFINE n == Len(s)
  <1>1. PICK h \in [0 .. n -> Views] :
            /\ h[0] = x /\ h[n] = z
            /\ \A i \in 1 .. n : Fits(id, s[i], h[i - 1]) /\ h[i] = Moved(id, s[i], h[i - 1])
    BY DEF Takes
  <1>2. n \in Nat
    OBVIOUS
  <1> HIDE DEF n
  <1> DEFINE g == [i \in 0 .. n |-> Asking(h[i], r)]
  <1>3. ASSUME NEW y \in Views PROVE Asking(y, r) \in Views
    <2>1. Append(y.asks, r) \in Seq(PendingRequest)
      BY DEF Views
    <2> QED
      BY <2>1 DEF Asking, Views
  <1>4. g \in [0 .. n -> Views] /\ \A i \in 0 .. n : g[i] = Asking(h[i], r)
    BY <1>1, <1>3
  <1> HIDE DEF g
  <1>5. ASSUME NEW i \in 1 .. n
        PROVE  Fits(id, s[i], g[i - 1]) /\ g[i] = Moved(id, s[i], g[i - 1])
    <2>1. /\ g[i] = Asking(h[i], r) /\ g[i - 1] = Asking(h[i - 1], r) /\ h[i - 1] \in Views
      BY <1>1, <1>2, <1>4
    <2> QED
      BY <1>1, <2>1, AskingMore
  <1>6. g[0] = Asking(x, r) /\ g[n] = Asking(z, r)
    BY <1>1, <1>2, <1>4
  <1> QED
    BY <1>4, <1>5, <1>6 DEF Takes, n

-----------------------------------------------------------------------------
(* The requests that the exchange has not read yet *)

\* Request s is what was sent for a, about an order that is at z.
IsFor(s, id, a, z) ==
    /\ s.id = id /\ s.kind = a.kind
    /\ a.kind = "Replace" => s.quantity = a.working
    /\ a.kind = "New" => s.quantity = z.left /\ s.rests = z.rests

\* What is under way of order id when all answers have been read is on the connection to
\* the exchange, in the same order, and nothing else of that order is.
Awaits(q, id, z) ==
    \E g \in [1 .. Len(z.asks) -> 1 .. Len(q)] :
        /\ \A k \in 1 .. Len(z.asks) : /\ IsFor(q[g[k]], id, z.asks[k], z)
                                       /\ z.asks[k].kind = "New" => k = 1
        /\ \A k, l \in 1 .. Len(z.asks) : k < l => g[k] < g[l]
        /\ \A j \in 1 .. Len(q) : q[j].id = id => \E k \in 1 .. Len(z.asks) : g[k] = j

\* It does not depend on what has become of the order, once it is entered.
LEMMA AwaitsSame ==
    ASSUME NEW q, NEW id, NEW z \in Views, NEW y \in Views, Awaits(q, id, z),
           y.asks = z.asks, Entering(z) => y.left = z.left /\ y.rests = z.rests
    PROVE  Awaits(q, id, y)
  <1> DEFINE n == Len(z.asks)
  <1>1. PICK g \in [1 .. n -> 1 .. Len(q)] :
            /\ \A k \in 1 .. n : /\ IsFor(q[g[k]], id, z.asks[k], z)
                                 /\ z.asks[k].kind = "New" => k = 1
            /\ \A k, l \in 1 .. n : k < l => g[k] < g[l]
            /\ \A j \in 1 .. Len(q) : q[j].id = id => \E k \in 1 .. n : g[k] = j
    BY DEF Awaits
  <1>2. ASSUME NEW k \in 1 .. n PROVE IsFor(q[g[k]], id, z.asks[k], y)
    <2>1. CASE z.asks[k].kind = "New"
      <3>1. k = 1
        BY <1>1, <2>1
      <3>2. z.asks \in Seq(PendingRequest)
        BY DEF Views
      <3>3. Entering(z)
        BY <2>1, <3>1, <3>2 DEF Entering
      <3> QED
        BY <1>1, <3>3 DEF IsFor
    <2>2. CASE z.asks[k].kind # "New"
      BY <1>1, <2>2 DEF IsFor
    <2> QED
      BY <2>1, <2>2
  <1> QED
    BY <1>1, <1>2 DEF Awaits

\* The exchange takes a request: of another order, or the oldest of this one.
LEMMA AwaitsNext ==
    ASSUME NEW q \in Seq(Request), q # <<>>, NEW id, NEW z \in Views, Awaits(q, id, z)
    PROVE  /\ Head(q).id # id => Awaits(Tail(q), id, z)
           /\ Head(q).id = id =>
                 /\ z.asks # <<>> /\ IsFor(Head(q), id, Head(z.asks), z)
                 /\ \A y \in Views : y.asks = Tail(z.asks) => Awaits(Tail(q), id, y)
  <1> DEFINE n == Len(z.asks)
             m == Len(q)
  <1>1. PICK g \in [1 .. n -> 1 .. m] :
            /\ \A k \in 1 .. n : /\ IsFor(q[g[k]], id, z.asks[k], z)
                                 /\ z.asks[k].kind = "New" => k = 1
            /\ \A k, l \in 1 .. n : k < l => g[k] < g[l]
            /\ \A j \in 1 .. m : q[j].id = id => \E k \in 1 .. n : g[k] = j
    BY DEF Awaits
  <1>2. /\ m \in Nat /\ m >= 1 /\ q[1] = Head(q) /\ Len(Tail(q)) = m - 1
        /\ \A j \in 1 .. m - 1 : Tail(q)[j] = q[j + 1]
    OBVIOUS
  <1>3. n \in Nat /\ z.asks \in Seq(PendingRequest)
    BY DEF Views
  <1>4. \A k \in 1 .. n : q[g[k]].id = id /\ g[k] \in 1 .. m
    BY <1>1 DEF IsFor
  <1> HIDE DEF m
  <1>5. ASSUME Head(q).id # id PROVE Awaits(Tail(q), id, z)
    <2> DEFINE f == [k \in 1 .. n |-> g[k] - 1]
    <2>1. \A k \in 1 .. n : g[k] - 1 \in 1 .. m - 1 /\ Tail(q)[g[k] - 1] = q[g[k]]
      <3> SUFFICES ASSUME NEW k \in 1 .. n
                   PROVE  g[k] - 1 \in 1 .. m - 1 /\ Tail(q)[g[k] - 1] = q[g[k]]
        OBVIOUS
      <3>1. g[k] # 1
        BY <1>2, <1>4, <1>5
      <3>2. g[k] - 1 \in 1 .. m - 1 /\ (g[k] - 1) + 1 = g[k]
        BY <1>2, <1>4, <3>1
      <3> QED
        BY <1>2, <3>2
    <2>2. f \in [1 .. n -> 1 .. m - 1] /\ \A k \in 1 .. n : f[k] = g[k] - 1
      BY <2>1
    <2> HIDE DEF f
    <2>3. \A k \in 1 .. n : /\ IsFor(Tail(q)[f[k]], id, z.asks[k], z)
                            /\ z.asks[k].kind = "New" => k = 1
      BY <1>1, <2>1, <2>2
    <2>4. \A k, l \in 1 .. n : k < l => f[k] < f[l]
      BY <1>1, <1>4, <2>2
    <2>5. ASSUME NEW j \in 1 .. m - 1, Tail(q)[j].id = id PROVE \E k \in 1 .. n : f[k] = j
      <3>1. j + 1 \in 1 .. m /\ q[j + 1].id = id
        BY <1>2, <2>5
      <3>2. PICK k \in 1 .. n : g[k] = j + 1
        BY <1>1, <3>1
      <3>3. f[k] = j
        BY <2>2, <3>2
      <3> QED
        BY <3>3
    <2> QED
      BY <1>2, <2>2, <2>3, <2>4, <2>5 DEF Awaits
  <1>6. ASSUME Head(q).id = id
        PROVE  /\ z.asks # <<>> /\ IsFor(Head(q), id, Head(z.asks), z)
               /\ \A y \in Views : y.asks = Tail(z.asks) => Awaits(Tail(q), id, y)
    <2>1. PICK k0 \in 1 .. n : g[k0] = 1
      <3>1. 1 \in 1 .. m
        BY <1>2
      <3> QED
        BY <1>1, <1>2, <1>6, <3>1
    <2>2. n >= 1 /\ 1 \in 1 .. n
      BY <1>3, <2>1
    <2>3. g[1] = 1
      <3>1. CASE k0 = 1
        BY <2>1, <3>1
      <3>2. CASE k0 # 1
        <4>1. 1 < k0
          BY <1>3, <3>2
        <4>2. g[1] < g[k0] /\ g[1] \in 1 .. m
          BY <1>1, <1>4, <2>2, <4>1
        <4> QED
          BY <1>2, <2>1, <4>2
      <3> QED
        BY <3>1, <3>2
    <2>4. /\ z.asks # <<>> /\ z.asks[1] = Head(z.asks) /\ Len(Tail(z.asks)) = n - 1
          /\ \A k \in 1 .. n - 1 : Tail(z.asks)[k] = z.asks[k + 1]
      BY <1>3, <2>2
    <2>5. IsFor(Head(q), id, Head(z.asks), z)
      BY <1>1, <1>2, <2>2, <2>3, <2>4
    <2>6. ASSUME NEW y \in Views, y.asks = Tail(z.asks) PROVE Awaits(Tail(q), id, y)
      <3> DEFINE f == [k \in 1 .. n - 1 |-> g[k + 1] - 1]
      <3>1. ASSUME NEW k \in 1 .. n - 1
            PROVE  /\ k + 1 \in 1 .. n /\ g[k + 1] - 1 \in 1 .. m - 1
                   /\ Tail(q)[g[k + 1] - 1] = q[g[k + 1]]
        <4>1. k + 1 \in 1 .. n /\ 1 < k + 1
          BY <1>3
        <4>2. g[1] < g[k + 1] /\ g[k + 1] \in 1 .. m
          BY <1>1, <1>4, <2>2, <4>1
        <4>3. g[k + 1] - 1 \in 1 .. m - 1 /\ (g[k + 1] - 1) + 1 = g[k + 1]
          BY <1>2, <2>3, <4>2
        <4> QED
          BY <1>2, <4>1, <4>3
      <3>2. f \in [1 .. n - 1 -> 1 .. m - 1] /\ \A k \in 1 .. n - 1 : f[k] = g[k + 1] - 1
        BY <3>1
      <3> HIDE DEF f
      <3>3. ASSUME NEW k \in 1 .. n - 1
            PROVE  /\ IsFor(Tail(q)[f[k]], id, y.asks[k], y)
                   /\ y.asks[k].kind # "New"
        <4>1. k + 1 \in 1 .. n /\ k + 1 # 1 /\ y.asks[k] = z.asks[k + 1]
          BY <1>3, <2>4, <2>6, <3>1
        <4>2. IsFor(q[g[k + 1]], id, z.asks[k + 1], z) /\ z.asks[k + 1].kind # "New"
          BY <1>1, <4>1
        <4> QED
          BY <3>1, <3>2, <4>1, <4>2 DEF IsFor
      <3>4. ASSUME NEW k \in 1 .. n - 1, NEW l \in 1 .. n - 1, k < l PROVE f[k] < f[l]
        <4>1. k + 1 \in 1 .. n /\ l + 1 \in 1 .. n /\ k + 1 < l + 1
          BY <1>3, <3>4
        <4>2. g[k + 1] < g[l + 1] /\ g[k + 1] \in 1 .. m /\ g[l + 1] \in 1 .. m
          BY <1>1, <1>4, <4>1
        <4> QED
          BY <1>2, <3>2, <4>2
      <3>5. ASSUME NEW j \in 1 .. m - 1, Tail(q)[j].id = id
            PROVE  \E k \in 1 .. n - 1 : f[k] = j
        <4>1. j + 1 \in 1 .. m /\ q[j + 1].id = id /\ j + 1 # 1
          BY <1>2, <3>5
        <4>2. PICK k \in 1 .. n : g[k] = j + 1
          BY <1>1, <4>1
        <4>3. k # 1
          BY <2>3, <4>1, <4>2
        <4>4. k - 1 \in 1 .. n - 1 /\ (k - 1) + 1 = k
          BY <1>3, <4>3
        <4>5. f[k - 1] = j
          BY <3>2, <4>2, <4>4
        <4> QED
          BY <4>4, <4>5
      <3>6. Len(y.asks) = n - 1
        BY <2>4, <2>6
      <3> QED
        <4>1. f \in [1 .. Len(y.asks) -> 1 .. Len(Tail(q))]
          BY <1>2, <3>2, <3>3, <3>4, <3>5, <3>6
        <4>2. \A k \in 1 .. Len(y.asks) : /\ IsFor(Tail(q)[f[k]], id, y.asks[k], y)
                                          /\ y.asks[k].kind = "New" => k = 1
          BY <1>2, <3>2, <3>3, <3>4, <3>5, <3>6
        <4>3. \A k, l \in 1 .. Len(y.asks) : k < l => f[k] < f[l]
          BY <1>2, <3>2, <3>3, <3>4, <3>5, <3>6
        <4>4. \A j \in 1 .. Len(Tail(q)) : Tail(q)[j].id = id => \E k \in 1 .. Len(y.asks) : f[k] = j
          BY <1>2, <3>2, <3>3, <3>4, <3>5, <3>6
        <4> QED
          BY <4>1, <4>2, <4>3, <4>4 DEF Awaits
    <2> QED
      BY <2>4, <2>5, <2>6
  <1> QED
    BY <1>5, <1>6

\* The session sends a request: of another order, or one more of this one.
LEMMA AwaitsOther ==
    ASSUME NEW q \in Seq(Request), NEW id, NEW z \in Views, Awaits(q, id, z),
           NEW s \in Request, s.id # id
    PROVE  Awaits(Append(q, s), id, z)
  <1> DEFINE n == Len(z.asks)
             m == Len(q)
             r == Append(q, s)
  <1>1. PICK g \in [1 .. n -> 1 .. m] :
            /\ \A k \in 1 .. n : /\ IsFor(q[g[k]], id, z.asks[k], z)
                                 /\ z.asks[k].kind = "New" => k = 1
            /\ \A k, l \in 1 .. n : k < l => g[k] < g[l]
            /\ \A j \in 1 .. m : q[j].id = id => \E k \in 1 .. n : g[k] = j
    BY DEF Awaits
  <1>2. /\ m \in Nat /\ Len(r) = m + 1 /\ r[m + 1] = s
        /\ \A j \in 1 .. m : r[j] = q[j]
    OBVIOUS
  <1> HIDE DEF m, r, n
  <1>3. g \in [1 .. n -> 1 .. m + 1] /\ \A k \in 1 .. n : g[k] \in 1 .. m
    <2>1. 1 .. m \subseteq 1 .. m + 1
      BY <1>2
    <2> QED
      BY <1>1, <2>1
  <1>4. \A k \in 1 .. n : IsFor(r[g[k]], id, z.asks[k], z)
    BY <1>1, <1>2, <1>3
  <1>5. ASSUME NEW j \in 1 .. m + 1, r[j].id = id PROVE \E k \in 1 .. n : g[k] = j
    <2>1. j \in 1 .. m
      BY <1>2, <1>5
    <2> QED
      BY <1>1, <1>2, <1>5, <2>1
  <1> QED
    <2> USE DEF n
    <2>1. g \in [1 .. Len(z.asks) -> 1 .. Len(r)]
      BY <1>1, <1>2, <1>3, <1>4, <1>5
    <2>2. \A k \in 1 .. Len(z.asks) : /\ IsFor(r[g[k]], id, z.asks[k], z)
                                      /\ z.asks[k].kind = "New" => k = 1
      BY <1>1, <1>2, <1>3, <1>4, <1>5
    <2>3. \A k, l \in 1 .. Len(z.asks) : k < l => g[k] < g[l]
      BY <1>1, <1>2, <1>3, <1>4, <1>5
    <2>4. \A j \in 1 .. Len(r) : r[j].id = id => \E k \in 1 .. Len(z.asks) : g[k] = j
      BY <1>1, <1>2, <1>3, <1>4, <1>5
    <2> QED
      BY <2>1, <2>2, <2>3, <2>4 DEF Awaits, r

\* One more request of this order.
LEMMA AwaitsMore ==
    ASSUME NEW q \in Seq(Request), NEW id, NEW z \in Views, Awaits(q, id, z),
           NEW s \in Request, NEW a \in PendingRequest, NEW y \in Views,
           y.asks = Append(z.asks, a), y.left = z.left, y.rests = z.rests,
           IsFor(s, id, a, y), a.kind = "New" => z.asks = <<>>
    PROVE  Awaits(Append(q, s), id, y)
  <1> DEFINE n == Len(z.asks)
             m == Len(q)
             r == Append(q, s)
  <1>1. PICK g \in [1 .. n -> 1 .. m] :
            /\ \A k \in 1 .. n : /\ IsFor(q[g[k]], id, z.asks[k], z)
                                 /\ z.asks[k].kind = "New" => k = 1
            /\ \A k, l \in 1 .. n : k < l => g[k] < g[l]
            /\ \A j \in 1 .. m : q[j].id = id => \E k \in 1 .. n : g[k] = j
    BY DEF Awaits
  <1>2. /\ m \in Nat /\ Len(r) = m + 1 /\ r[m + 1] = s
        /\ \A j \in 1 .. m : r[j] = q[j]
    OBVIOUS
  <1>3. /\ n \in Nat /\ Len(y.asks) = n + 1 /\ y.asks[n + 1] = a
        /\ \A k \in 1 .. n : y.asks[k] = z.asks[k]
        /\ a.kind = "New" => n + 1 = 1
    <2>1. z.asks \in Seq(PendingRequest)
      BY DEF Views
    <2> QED
      BY <2>1
  <1>4. \A k \in 1 .. n : g[k] \in 1 .. m
    BY <1>1
  <1> HIDE DEF m, r, n
  <1> DEFINE f == [k \in 1 .. n + 1 |-> IF k = n + 1 THEN m + 1 ELSE g[k]]
  <1>5. /\ f \in [1 .. n + 1 -> 1 .. m + 1] /\ f[n + 1] = m + 1
        /\ \A k \in 1 .. n : f[k] = g[k]
    <2>1. ASSUME NEW k \in 1 .. n + 1
          PROVE  (IF k = n + 1 THEN m + 1 ELSE g[k]) \in 1 .. m + 1
      <3>1. CASE k = n + 1
        BY <1>2, <3>1
      <3>2. CASE k # n + 1
        <4>1. k \in 1 .. n
          BY <1>3, <3>2
        <4> QED
          BY <1>2, <1>4, <3>2, <4>1
      <3> QED
        BY <3>1, <3>2
    <2>2. f \in [1 .. n + 1 -> 1 .. m + 1]
      BY <2>1
    <2>3. f[n + 1] = m + 1
      BY <1>3
    <2>4. \A k \in 1 .. n : f[k] = g[k]
      BY <1>3
    <2> QED
      BY <2>2, <2>3, <2>4
  <1> HIDE DEF f
  <1>6. ASSUME NEW k \in 1 .. n + 1
        PROVE  IsFor(r[f[k]], id, y.asks[k], y) /\ (y.asks[k].kind = "New" => k = 1)
    <2>1. CASE k = n + 1
      BY <1>2, <1>3, <1>5, <2>1
    <2>2. CASE k # n + 1
      <3>1. k \in 1 .. n
        BY <1>3, <2>2
      <3>2. /\ IsFor(q[g[k]], id, z.asks[k], z) /\ (z.asks[k].kind = "New" => k = 1)
            /\ r[f[k]] = q[g[k]] /\ y.asks[k] = z.asks[k]
        BY <1>1, <1>2, <1>3, <1>4, <1>5, <3>1
      <3> QED
        BY <3>2 DEF IsFor
    <2> QED
      BY <2>1, <2>2
  <1>7. ASSUME NEW k \in 1 .. n + 1, NEW l \in 1 .. n + 1, k < l PROVE f[k] < f[l]
    <2>1. k \in 1 .. n
      BY <1>3, <1>7
    <2>2. CASE l = n + 1
      BY <1>2, <1>4, <1>5, <2>1, <2>2
    <2>3. CASE l # n + 1
      <3>1. l \in 1 .. n
        BY <1>3, <2>3
      <3> QED
        BY <1>1, <1>5, <1>7, <2>1, <3>1
    <2> QED
      BY <2>2, <2>3
  <1>8. ASSUME NEW j \in 1 .. m + 1, r[j].id = id PROVE \E k \in 1 .. n + 1 : f[k] = j
    <2>1. CASE j = m + 1
      <3>1. n + 1 \in 1 .. n + 1
        BY <1>3
      <3> QED
        BY <1>5, <2>1, <3>1
    <2>2. CASE j # m + 1
      <3>1. j \in 1 .. m
        BY <1>2, <2>2
      <3>2. PICK k \in 1 .. n : g[k] = j
        BY <1>1, <1>2, <1>8, <3>1
      <3>3. k \in 1 .. n + 1 /\ f[k] = j
        BY <1>3, <1>5, <3>2
      <3> QED
        BY <3>3
    <2> QED
      BY <2>1, <2>2
  <1> QED
    <2>1. f \in [1 .. Len(y.asks) -> 1 .. Len(r)]
      BY <1>2, <1>3, <1>5, <1>6, <1>7, <1>8
    <2>2. \A k \in 1 .. Len(y.asks) : /\ IsFor(r[f[k]], id, y.asks[k], y)
                                      /\ y.asks[k].kind = "New" => k = 1
      BY <1>2, <1>3, <1>5, <1>6, <1>7, <1>8
    <2>3. \A k, l \in 1 .. Len(y.asks) : k < l => f[k] < f[l]
      BY <1>2, <1>3, <1>5, <1>6, <1>7, <1>8
    <2>4. \A j \in 1 .. Len(r) : r[j].id = id => \E k \in 1 .. Len(y.asks) : f[k] = j
      BY <1>2, <1>3, <1>5, <1>6, <1>7, <1>8
    <2> QED
      BY <2>1, <2>2, <2>3, <2>4 DEF Awaits, r

\* Nothing is under way of an order that no request names.
LEMMA AwaitsNothing ==
    ASSUME NEW q, NEW id, NEW z, z.asks = <<>>, \A j \in 1 .. Len(q) : q[j].id # id
    PROVE  Awaits(q, id, z)
  <1>1. 1 .. Len(z.asks) = {}
    OBVIOUS
  <1> DEFINE g == [k \in {} |-> 1]
  <1>2. g \in [1 .. Len(z.asks) -> 1 .. Len(q)]
    BY <1>1
  <1> HIDE DEF g
  <1> QED
    BY <1>1, <1>2 DEF Awaits

-----------------------------------------------------------------------------
(* The invariant of quantities *)

\* Where an order is when everything the exchange has sent is read: what is left of it
\* is what is left in the book, and what has been filled is what has been traded.
Ends(id, z) ==
    /\ ~z.waits
    /\ z.cum = executed[id]
    /\ id \in DOMAIN core => z.left = core[id].left /\ z.left > 0
    /\ id \notin DOMAIN core /\ ~Entering(z) => z.left = 0
    /\ Entering(z) => id \notin DOMAIN core /\ z.left > 0 /\ z.cum = 0
    /\ core_up => Awaits(to_core, id, z)

Tracked(id) == \E z : Takes(id, View(id), from_core, z) /\ Ends(id, z)

\* The copy of a trade is read right after the trade, by a session that expects it.
CopiesExpected ==
    /\ \A i \in DOMAIN from_core :
          from_core[i].kind = "trade" =>
             /\ from_core[i].trade.buy # from_core[i].trade.sell
             /\ from_core[i].copies = 2 => /\ from_core[i].trade.buy # Other
                                           /\ from_core[i].trade.sell # Other
             /\ IsCopy(from_core[i]) =>
                   /\ i = 1
                   /\ self_trade = [trade |-> from_core[i].trade, ignore |-> TRUE]
                   /\ {from_core[i].trade.buy, from_core[i].trade.sell} \subseteq DOMAIN orders
    /\ self_trade.ignore =>
          /\ from_core # <<>>
          /\ Head(from_core).kind = "trade" /\ IsCopy(Head(from_core))

\* A message that names only numbers that have been given out.
Known(m) ==
    /\ m.kind = "response" => m.id < next_numeric_order_id
    /\ m.kind = "trade" => /\ m.trade.buy < next_numeric_order_id
                           /\ m.trade.sell < next_numeric_order_id

NumbersKnown ==
    /\ executed \in [OrderId -> Nat]
    /\ \A i \in DOMAIN from_core : Known(from_core[i])
    /\ \A i \in DOMAIN to_core : to_core[i].id < next_numeric_order_id
    /\ \A id \in DOMAIN core : id < next_numeric_order_id
    /\ \A id \in OrderId : id >= next_numeric_order_id =>
          executed[id] = 0 /\ id \notin non_resting_awaiting_boundary

\* What an order that is done has left; and the quantity of an order that works, which a
\* replacement under way will not put out of order unless it is overtaken by a trade.
SumsUp ==
    \A id \in DOMAIN orders :
        /\ orders[id].ord_status \in {"filled", "canceled"} => orders[id].leaves_quantity = 0
        /\ id \notin overtaken =>
              /\ orders[id].leaves_quantity > 0 =>
                    orders[id].order_quantity
                       = orders[id].cumulative_quantity + orders[id].leaves_quantity
              /\ \A i \in DOMAIN pending[id] :
                    pending[id][i].kind = "Replace" =>
                       pending[id][i].total
                          = orders[id].cumulative_quantity + pending[id][i].working

QuantityInv ==
    /\ SessionInv
    /\ CopiesExpected
    /\ NumbersKnown
    /\ SumsUp
    /\ phase # "closed" => \A id \in OrderId : Tracked(id)

\* What the session has of an order is a place.
LEMMA ViewIsView ==
    ASSUME SessionInv, NEW id \in OrderId
    PROVE  View(id) \in Views
  <1>1. pending[id] \in Seq(PendingRequest)
    BY DEF SessionInv, TypeOK
  <1>2. id \in DOMAIN orders => /\ orders[id].leaves_quantity \in Nat
                                /\ orders[id].cumulative_quantity \in Nat
    BY DEF SessionInv, TypeOK, IsMap, OrderState
  <1>3. (id \in DOMAIN orders /\ may_rest(orders[id])) \in BOOLEAN
    BY DEF may_rest
  <1> QED
    BY <1>1, <1>2, <1>3 DEF View, Views

\* What a view consists of.
LEMMA ViewFields ==
    ASSUME NEW id
    PROVE  /\ View(id).left = IF id \in DOMAIN orders THEN orders[id].leaves_quantity ELSE 0
           /\ View(id).cum = IF id \in DOMAIN orders THEN orders[id].cumulative_quantity ELSE 0
           /\ View(id).asks = pending[id]
           /\ View(id).waits = (id \in non_resting_awaiting_boundary)
           /\ View(id).rests = (id \in DOMAIN orders /\ may_rest(orders[id]))
  BY DEF View

\* Nothing is under way in the beginning.
LEMMA InitQuantityInv == Init => QuantityInv
  <1> SUFFICES ASSUME Init PROVE QuantityInv
    OBVIOUS
  <1>1. SessionInv
    BY InitSessionInv
  <1>2. /\ from_core = <<>> /\ to_core = <<>> /\ DOMAIN orders = {} /\ DOMAIN core = {}
        /\ self_trade.ignore = FALSE /\ non_resting_awaiting_boundary = {}
        /\ executed = [id \in OrderId |-> 0] /\ pending = [id \in OrderId |-> <<>>]
    BY DEF Init, EmptyMap
  <1>3. CopiesExpected /\ NumbersKnown /\ SumsUp
    BY <1>2 DEF CopiesExpected, NumbersKnown, SumsUp
  <1>4. ASSUME NEW id \in OrderId PROVE Tracked(id)
    <2>1. Takes(id, View(id), from_core, View(id))
      BY <1>1, <1>2, ViewIsView, TakesNone
    <2>2. /\ View(id).left = 0 /\ View(id).cum = 0 /\ View(id).asks = <<>> /\ ~View(id).waits
      BY <1>2, ViewFields
    <2>3. Awaits(to_core, id, View(id))
      BY <1>2, <2>2, AwaitsNothing
    <2>4. Ends(id, View(id))
      BY <1>2, <2>2, <2>3 DEF Ends, Entering
    <2> QED
      BY <2>1, <2>4 DEF Tracked
  <1> QED
    BY <1>1, <1>3, <1>4 DEF QuantityInv

-----------------------------------------------------------------------------
(* The session reads a message *)

\* Reading a message moves every order as the message does: then every order stays on
\* its way. Of a trade that comes twice the copy is left.
LEMMA ReadingTracks ==
    ASSUME SessionInv, CopiesExpected, NEW kind, Receive(kind),
           NEW id \in OrderId, Tracked(id),
           Fits(id, Head(from_core), View(id)) => View(id)' = Moved(id, Head(from_core), View(id))
    PROVE  Tracked(id)'
  <1> DEFINE m == Head(from_core)
             copy == [m EXCEPT !.copies = @ - 1]
  <1>1. PICK z : Takes(id, View(id), from_core, z) /\ Ends(id, z)
    BY DEF Tracked
  <1>2. from_core \in Seq(CoreMessage) /\ from_core # <<>>
    BY DEF SessionInv, ConnectionType, Receive, extract_core_message
  <1>3. Takes(id, View(id)', Tail(from_core), z)
    BY <1>1, <1>2, TakesFirst
  <1>4. m \in CoreMessage /\ Tail(from_core) \in Seq(CoreMessage) /\ from_core[1] = m
    BY <1>2
  <1>5. Takes(id, View(id)', from_core', z)
    <2>1. CASE m.kind = "trade" /\ m.copies > 1
      <3>1. from_core' = <<copy>> \o Tail(from_core)
        BY <2>1 DEF Receive, extract_core_message
      <3>2. m \in TradeMessage
        BY <1>4, <2>1, MessageParts
      <3>3. /\ copy \in TradeMessage /\ copy.copies = 1 /\ copy.trade = m.trade
            /\ copy.kind = "trade" /\ m.copies = 2
        BY <2>1, <3>2 DEF TradeMessage
      <3>4. IsCopy(copy)
        <4>1. 1 \in DOMAIN from_core
          BY <1>2
        <4> QED
          BY <1>4, <2>1, <3>3, <4>1 DEF CopiesExpected, IsCopy
      <3> HIDE DEF copy, m
      <3>5. \A y : Fits(id, copy, y) /\ Moved(id, copy, y) = y
        BY <3>3, <3>4 DEF Fits, Moved, Answers, Fills
      <3>6. View(id)' \in Views
        BY <1>3, <1>4, TakesViews
      <3>7. copy \in CoreMessage /\ <<copy>> \in Seq(CoreMessage)
        BY <3>3 DEF CoreMessage
      <3>8. Takes(id, View(id)', <<copy>>, View(id)')
        BY <3>5, <3>6, <3>7, TakesOne
      <3> QED
        BY <1>3, <1>4, <3>1, <3>7, <3>8, TakesThen
    <2>2. CASE ~(m.kind = "trade" /\ m.copies > 1)
      <3>1. from_core' = Tail(from_core)
        BY <2>2 DEF Receive, extract_core_message
      <3> QED
        BY <1>3, <3>1
    <2> QED
      BY <2>1, <2>2
  <1>6. Ends(id, z)'
    BY <1>1 DEF Ends, Receive, coreVars
  <1> QED
    BY <1>5, <1>6 DEF Tracked

\* The view of an order after a step, by its parts.
LEMMA NextView ==
    ASSUME NEW id, NEW y \in Views,
           y.left = (IF id \in DOMAIN orders' THEN orders'[id].leaves_quantity ELSE 0),
           y.cum = (IF id \in DOMAIN orders' THEN orders'[id].cumulative_quantity ELSE 0),
           y.asks = pending'[id],
           y.waits <=> id \in non_resting_awaiting_boundary',
           y.rests <=> id \in DOMAIN orders' /\ may_rest(orders'[id])
    PROVE  View(id)' = y
  <1> DEFINE l == IF id \in DOMAIN orders' THEN orders'[id].leaves_quantity ELSE 0
             c == IF id \in DOMAIN orders' THEN orders'[id].cumulative_quantity ELSE 0
             w == id \in non_resting_awaiting_boundary'
             r == id \in DOMAIN orders' /\ may_rest(orders'[id])
  <1>1. View(id)' = [left |-> l, cum |-> c, asks |-> pending'[id], waits |-> w, rests |-> r]
    BY DEF View
  <1>2. y.waits \in BOOLEAN /\ y.rests \in BOOLEAN /\ w \in BOOLEAN /\ r \in BOOLEAN
    BY DEF Views, may_rest
  <1>3. y.left = l /\ y.cum = c /\ (y.waits <=> w) /\ (y.rests <=> r)
    OBVIOUS
  <1> HIDE DEF l, c, w, r
  <1>4. y.waits = w /\ y.rests = r
    BY <1>2, <1>3
  <1>5. y = [left |-> y.left, cum |-> y.cum, asks |-> y.asks, waits |-> y.waits,
             rests |-> y.rests]
    BY DEF Views
  <1> QED
    BY <1>1, <1>3, <1>4, <1>5

\* The messages that are left, and those that the exchange sees, when one is read.
LEMMA ReadingKnows ==
    ASSUME SessionInv, NumbersKnown, NEW kind, Receive(kind),
           \A id \in non_resting_awaiting_boundary' : id < next_numeric_order_id
                                                       \/ id \in non_resting_awaiting_boundary
    PROVE  NumbersKnown'
  <1>1. from_core \in Seq(CoreMessage) /\ from_core # <<>>
    BY DEF SessionInv, ConnectionType, Receive, extract_core_message
  <1>2. /\ UNCHANGED <<next_numeric_order_id, to_core, core, executed>>
    BY DEF Receive, coreVars
  <1> DEFINE m == Head(from_core)
             t == Tail(from_core)
             copy == [m EXCEPT !.copies = @ - 1]
  <1>3. /\ t \in Seq(CoreMessage) /\ m \in CoreMessage /\ DOMAIN from_core = 1 .. Len(from_core)
        /\ Len(t) = Len(from_core) - 1 /\ DOMAIN t = 1 .. Len(t) /\ from_core[1] = m
        /\ \A i \in 1 .. Len(t) : t[i] = from_core[i + 1]
        /\ Len(from_core) \in Nat /\ Len(from_core) >= 1
    BY <1>1
  <1>4. Known(m) /\ \A i \in DOMAIN t : Known(t[i])
    BY <1>3 DEF NumbersKnown
  <1>5. \A i \in DOMAIN from_core' : Known(from_core'[i])
    <2>1. CASE m.kind = "trade" /\ m.copies > 1
      <3>1. from_core' = <<copy>> \o t
        BY <2>1 DEF Receive, extract_core_message
      <3>2. m \in TradeMessage
        BY <1>3, <2>1, MessageParts
      <3>3. copy.kind = "trade" /\ copy.trade = m.trade /\ copy \in CoreMessage
        BY <3>2, <2>1 DEF TradeMessage, CoreMessage
      <3>4. Known(copy)
        BY <1>4, <2>1, <3>3 DEF Known
      <3> HIDE DEF copy, t, m
      <3>5. ASSUME NEW i \in DOMAIN from_core' PROVE Known(from_core'[i])
        <4>1. \/ i = 1 /\ from_core'[i] = copy
              \/ i - 1 \in DOMAIN t /\ from_core'[i] = t[i - 1]
          BY <1>3, <3>1, <3>3
        <4> QED
          BY <1>4, <3>4, <4>1
      <3> QED
        BY <3>5
    <2>2. CASE ~(m.kind = "trade" /\ m.copies > 1)
      <3>1. from_core' = t
        BY <2>2 DEF Receive, extract_core_message
      <3> QED
        BY <1>4, <3>1
    <2> QED
      BY <2>1, <2>2
  <1>6. (\A i \in DOMAIN from_core : Known(from_core[i]))'
    BY <1>2, <1>5 DEF Known
  <1>7. next_numeric_order_id \in Nat
    BY FixBoundsAssumption DEF SessionInv, TypeOK
  <1>8. ASSUME NEW id \in OrderId, id >= next_numeric_order_id
        PROVE  executed[id] = 0 /\ id \notin non_resting_awaiting_boundary'
    <2>1. ~(id < next_numeric_order_id)
      BY <1>7, <1>8 DEF OrderId
    <2> QED
      BY <1>8, <2>1 DEF NumbersKnown
  <1> QED
    BY <1>2, <1>6, <1>8 DEF NumbersKnown

\* When no trade is read, no copy is to come.
LEMMA ReadingKeepsCopies ==
    ASSUME SessionInv, CopiesExpected, NEW kind, Receive(kind), kind # "trade",
           UNCHANGED self_trade
    PROVE  CopiesExpected'
  <1>1. from_core \in Seq(CoreMessage) /\ from_core # <<>> /\ from_core' = Tail(from_core)
        /\ Head(from_core).kind # "trade"
    BY DEF SessionInv, ConnectionType, Receive, extract_core_message
  <1>2. ~self_trade.ignore
    BY <1>1 DEF CopiesExpected
  <1>3. \A i \in DOMAIN from_core' :
            i + 1 \in DOMAIN from_core /\ i + 1 # 1 /\ from_core'[i] = from_core[i + 1]
    BY <1>1
  <1>4. ASSUME NEW i \in DOMAIN from_core', from_core'[i].kind = "trade"
        PROVE  /\ from_core'[i].trade.buy # from_core'[i].trade.sell
               /\ from_core'[i].copies = 2 => /\ from_core'[i].trade.buy # Other
                                              /\ from_core'[i].trade.sell # Other
               /\ ~IsCopy(from_core'[i])
    BY <1>3, <1>4 DEF CopiesExpected
  <1> QED
    BY <1>2, <1>4 DEF CopiesExpected, IsCopy

-----------------------------------------------------------------------------
(* Book updates *)

\* A book update: finalize_non_resting_orders.
LEMMA BookUpdateKeepsQuantities ==
    ASSUME QuantityInv, finalize_non_resting_orders
    PROVE  QuantityInv'
  <1> DEFINE ended(id) == [orders[id] EXCEPT !.leaves_quantity = 0, !.ord_status = "canceled"]
             m == Head(from_core)
  <1>1. /\ SessionInv /\ Receive("book_update") /\ m.kind = "book_update"
        /\ non_resting_awaiting_boundary' = {}
        /\ UNCHANGED <<pending, self_trade, overtaken>> /\ phase # "closed"
        /\ DOMAIN orders' = DOMAIN orders
    BY DEF QuantityInv, finalize_non_resting_orders, Receive
  <1>2. SessionInv'
    BY <1>1, BookUpdateKeepsSession
  <1>3. ASSUME NEW id \in DOMAIN orders
        PROVE  /\ orders'[id].cumulative_quantity = orders[id].cumulative_quantity
               /\ orders'[id].order_quantity = orders[id].order_quantity
               /\ may_rest(orders'[id]) <=> may_rest(orders[id])
               /\ orders[id].leaves_quantity \in Nat
               /\ \/ /\ id \in non_resting_awaiting_boundary
                     /\ orders'[id].leaves_quantity = 0
                  \/ orders'[id] = orders[id] /\ id \notin non_resting_awaiting_boundary
               /\ orders'[id] = orders[id] \/ orders'[id].leaves_quantity = 0
    <2>1. orders[id] \in OrderState
      BY <1>1 DEF SessionInv, TypeOK, IsMap
    <2>2. /\ ended(id).cumulative_quantity = orders[id].cumulative_quantity
          /\ ended(id).order_quantity = orders[id].order_quantity
          /\ ended(id).order_type = orders[id].order_type
          /\ ended(id).time_in_force = orders[id].time_in_force
          /\ ended(id).leaves_quantity = 0
          /\ orders[id].leaves_quantity \in Nat
      BY <2>1 DEF OrderState
    <2>3. orders'[id] = IF id \in non_resting_awaiting_boundary /\ orders[id].leaves_quantity > 0
                        THEN ended(id) ELSE orders[id]
      BY DEF finalize_non_resting_orders
    <2> HIDE DEF ended
    <2> QED
      BY <2>2, <2>3 DEF may_rest
  <1>4. ASSUME NEW id \in OrderId PROVE Tracked(id)'
    <2>1. Tracked(id)
      BY <1>1 DEF QuantityInv
    <2> DEFINE x == View(id)
               y == Moved(id, m, x)
    <2>2. x \in Views
      BY <1>1, ViewIsView
    <2>3. y = IF x.waits THEN [x EXCEPT !.left = 0, !.waits = FALSE] ELSE x
      BY <1>1 DEF Moved, Answers, Fills
    <2>4. /\ x.left = IF id \in DOMAIN orders THEN orders[id].leaves_quantity ELSE 0
          /\ x.cum = IF id \in DOMAIN orders THEN orders[id].cumulative_quantity ELSE 0
          /\ x.asks = pending[id]
          /\ x.waits <=> (id \in non_resting_awaiting_boundary)
          /\ x.rests <=> (id \in DOMAIN orders /\ may_rest(orders[id]))
      BY ViewFields
    <2> HIDE DEF x, y
    <2>5. /\ y \in Views /\ y.left = (IF x.waits THEN 0 ELSE x.left)
          /\ y.cum = x.cum /\ y.asks = x.asks /\ ~y.waits /\ (y.rests <=> x.rests)
      BY <2>2, <2>3 DEF Views
    <2>6. y.left = IF id \in DOMAIN orders' THEN orders'[id].leaves_quantity ELSE 0
      BY <1>1, <1>3, <2>4, <2>5
    <2>7. y.cum = IF id \in DOMAIN orders' THEN orders'[id].cumulative_quantity ELSE 0
      BY <1>1, <1>3, <2>4, <2>5
    <2>8. y.rests <=> id \in DOMAIN orders' /\ may_rest(orders'[id])
      BY <1>1, <1>3, <2>4, <2>5
    <2>9. View(id)' = y
      BY <1>1, <2>4, <2>5, <2>6, <2>7, <2>8, NextView
    <2> QED
      BY <1>1, <2>1, <2>9, ReadingTracks DEF QuantityInv, x, y
  <1>5. CopiesExpected'
    BY <1>1, ReadingKeepsCopies DEF QuantityInv
  <1>6. NumbersKnown'
    BY <1>1, ReadingKnows DEF QuantityInv
  <1>7. SumsUp'
    <2>1. ASSUME NEW id \in DOMAIN orders'
          PROVE  /\ orders'[id].ord_status \in {"filled", "canceled"} => orders'[id].leaves_quantity = 0
                 /\ id \notin overtaken' =>
                       /\ orders'[id].leaves_quantity > 0 =>
                             orders'[id].order_quantity
                                = orders'[id].cumulative_quantity + orders'[id].leaves_quantity
                       /\ \A i \in DOMAIN pending'[id] :
                             pending'[id][i].kind = "Replace" =>
                                pending'[id][i].total
                                   = orders'[id].cumulative_quantity + pending'[id][i].working
      BY <1>1, <1>3 DEF QuantityInv, SumsUp
    <2> QED
      BY <2>1 DEF SumsUp
  <1> QED
    BY <1>2, <1>4, <1>5, <1>6, <1>7 DEF QuantityInv

-----------------------------------------------------------------------------
(* Trades *)

\* Two things or one.
LEMMA TwoOf ==
    ASSUME NEW a, NEW b
    PROVE  Cardinality({a, b}) = 2 <=> a # b
  <1>1. CASE a = b
    <2>1. {a, b} = {a}
      BY <1>1
    <2> QED
      BY <1>1, <2>1, FS_Singleton
  <1>2. CASE a # b
    <2>1. IsFiniteSet({a}) /\ Cardinality({a}) = 1 /\ b \notin {a} /\ {a, b} = {a} \cup {b}
      BY <1>2, FS_Singleton
    <2> QED
      BY <1>2, <2>1, FS_AddElement
  <1> QED
    BY <1>1, <1>2

\* A trade that fits takes off what it says; one way or another the sum stays.
LEMMA TradeTakesOff ==
    ASSUME NEW order \in OrderState, NEW traded \in Nat
    PROVE  LET after == apply_trade_to_order(order, traded)
           IN  /\ after.leaves_quantity \in Nat /\ after.leaves_quantity <= order.leaves_quantity
               /\ after.cumulative_quantity + after.leaves_quantity
                     = order.cumulative_quantity + order.leaves_quantity
               /\ traded <= order.leaves_quantity =>
                     /\ after.leaves_quantity = order.leaves_quantity - traded
                     /\ after.cumulative_quantity = order.cumulative_quantity + traded
               /\ after.ord_status \in {"filled", "canceled"} => after.leaves_quantity = 0
               /\ after.order_quantity = order.order_quantity
               /\ after.order_type = order.order_type
               /\ after.time_in_force = order.time_in_force
  <1>1. order.leaves_quantity \in Nat /\ order.cumulative_quantity \in Nat
    BY DEF OrderState
  <1> DEFINE quantity == Min({order.leaves_quantity, traded})
             status == IF order.leaves_quantity = quantity THEN "filled" ELSE "partially_filled"
             after == apply_trade_to_order(order, traded)
  <1>2. quantity \in Nat /\ quantity <= order.leaves_quantity /\ quantity <= traded
    BY <1>1, SmallerOf
  <1>3. quantity \in {order.leaves_quantity, traded}
    <2>1. \E x \in {order.leaves_quantity, traded} :
              \A y \in {order.leaves_quantity, traded} : x =< y
      <3>1. CASE order.leaves_quantity <= traded
        BY <1>1, <3>1
      <3>2. CASE ~(order.leaves_quantity <= traded)
        BY <1>1, <3>2
      <3> QED
        BY <3>1, <3>2
    <2> QED
      BY <2>1 DEF Min
  <1> HIDE DEF quantity
  <1>4. apply_trade_to_order(order, traded) =
            [order EXCEPT !.cumulative_quantity = order.cumulative_quantity + quantity,
                          !.leaves_quantity = order.leaves_quantity - quantity,
                          !.ord_status = status]
    BY DEF apply_trade_to_order, quantity, OrderState
  <1>5. /\ after.leaves_quantity = order.leaves_quantity - quantity
        /\ after.cumulative_quantity = order.cumulative_quantity + quantity
        /\ after.ord_status = status
        /\ after.order_quantity = order.order_quantity
        /\ after.order_type = order.order_type
        /\ after.time_in_force = order.time_in_force
    BY <1>4 DEF OrderState
  <1> HIDE DEF after
  <1>6. after.ord_status \in {"filled", "canceled"} => order.leaves_quantity = quantity
    BY <1>5
  <1>7. traded <= order.leaves_quantity => quantity = traded
    BY <1>1, <1>2, <1>3
  <1>8. after.leaves_quantity \in Nat /\ after.leaves_quantity <= order.leaves_quantity
        /\ after.cumulative_quantity + after.leaves_quantity
              = order.cumulative_quantity + order.leaves_quantity
    BY <1>1, <1>2, <1>5
  <1> QED
    BY <1>1, <1>2, <1>5, <1>6, <1>7, <1>8 DEF after

\* The copy of a trade is told from a trade.
LEMMA CopyIsTold ==
    ASSUME QuantityInv, handle_core_trade
    PROVE  LET m == Head(from_core)
               named == {m.trade.buy, m.trade.sell}
               both == Cardinality(named \cap DOMAIN orders) = 2
           IN  /\ both <=> named \subseteq DOMAIN orders
               /\ both /\ self_trade.ignore /\ self_trade.trade = m.trade <=> IsCopy(m)
  <1> DEFINE m == Head(from_core)
             trade == m.trade
             named == {trade.buy, trade.sell}
             mine == named \cap DOMAIN orders
             both == Cardinality(mine) = 2
             copy == both /\ self_trade.ignore /\ self_trade.trade = trade
  <1>1. /\ SessionInv /\ Receive("trade") /\ m.kind = "trade" /\ phase # "closed"
        /\ UNCHANGED <<pending, non_resting_awaiting_boundary>>
        /\ from_core \in Seq(CoreMessage) /\ from_core # <<>>
    BY DEF QuantityInv, handle_core_trade, Receive, extract_core_message, SessionInv,
           ConnectionType
  <1>3. /\ m \in TradeMessage /\ m = from_core[1] /\ 1 \in DOMAIN from_core
        /\ DOMAIN orders \subseteq OrderId
    BY <1>1, MessageParts DEF SessionInv, TypeOK, IsMap
  <1>4. /\ trade.quantity \in Nat /\ m.copies \in {1, 2}
        /\ trade.buy \in OrderId \cup {Other} /\ trade.sell \in OrderId \cup {Other}
        /\ Other \notin OrderId
    BY <1>3 DEF TradeMessage, OrderId, Other
  <1>5. /\ trade.buy # trade.sell
        /\ m.copies = 2 => trade.buy # Other /\ trade.sell # Other
        /\ IsCopy(m) => /\ self_trade = [trade |-> trade, ignore |-> TRUE]
                        /\ named \subseteq DOMAIN orders
        /\ self_trade.ignore => IsCopy(m)
    BY <1>1, <1>3 DEF QuantityInv, CopiesExpected
  <1>6. both <=> named \subseteq DOMAIN orders
    <2>1. ASSUME named \subseteq DOMAIN orders PROVE Cardinality(mine) = 2
      <3>1. mine = {trade.buy, trade.sell}
        BY <2>1
      <3> HIDE DEF mine, trade
      <3>2. Cardinality({trade.buy, trade.sell}) = 2
        BY <1>5, TwoOf
      <3> QED
        BY <3>1, <3>2
    <2>2. ASSUME ~(named \subseteq DOMAIN orders) PROVE Cardinality(mine) # 2
      <3>1. \/ mine = {} \/ mine = {trade.buy} \/ mine = {trade.sell}
        BY <2>2
      <3>2. \A x : Cardinality({x}) = 1
        BY FS_Singleton
      <3>3. Cardinality({}) = 0
        BY FS_EmptySet
      <3> HIDE DEF mine, trade
      <3>4. Cardinality(mine) \in {0, 1}
        BY <3>1, <3>2, <3>3
      <3> QED
        BY <3>4
    <2> QED
      BY <2>1, <2>2
  <1>7. copy <=> IsCopy(m)
    <2>1. ASSUME IsCopy(m) PROVE copy
      BY <1>5, <1>6, <2>1
    <2>2. ASSUME copy PROVE IsCopy(m)
      BY <1>5, <2>2
    <2> QED
      BY <2>1, <2>2
  <1> QED
    BY <1>6, <1>7

\* A trade: handle_core_trade.
LEMMA TradeKeepsQuantities ==
    ASSUME QuantityInv, handle_core_trade
    PROVE  QuantityInv'
  <1> DEFINE m == Head(from_core)
             trade == m.trade
             named == {trade.buy, trade.sell}
             mine == named \cap DOMAIN orders
             both == Cardinality(mine) = 2
             copy == both /\ self_trade.ignore /\ self_trade.trade = trade
  <1>1. /\ SessionInv /\ Receive("trade") /\ m.kind = "trade" /\ phase # "closed"
        /\ UNCHANGED <<pending, non_resting_awaiting_boundary>>
        /\ from_core \in Seq(CoreMessage) /\ from_core # <<>>
    BY DEF QuantityInv, handle_core_trade, Receive, extract_core_message, SessionInv,
           ConnectionType
  <1>2. SessionInv'
    BY <1>1, TradeKeepsSession
  <1>3. /\ m \in TradeMessage /\ m = from_core[1] /\ 1 \in DOMAIN from_core
        /\ DOMAIN orders \subseteq OrderId
    BY <1>1, MessageParts DEF SessionInv, TypeOK, IsMap
  <1>4. /\ trade.quantity \in Nat /\ m.copies \in {1, 2}
        /\ trade.buy \in OrderId \cup {Other} /\ trade.sell \in OrderId \cup {Other}
        /\ Other \notin OrderId
    BY <1>3 DEF TradeMessage, OrderId, Other
  <1>5. /\ trade.buy # trade.sell
        /\ m.copies = 2 => trade.buy # Other /\ trade.sell # Other
        /\ IsCopy(m) => /\ self_trade = [trade |-> trade, ignore |-> TRUE]
                        /\ named \subseteq DOMAIN orders
        /\ self_trade.ignore => IsCopy(m)
    BY <1>1, <1>3 DEF QuantityInv, CopiesExpected
  <1>6. both <=> named \subseteq DOMAIN orders
    BY CopyIsTold, Zenon
  <1>7. copy <=> IsCopy(m)
    BY CopyIsTold, Zenon
  <1>8. ASSUME copy
        PROVE  UNCHANGED <<orders, overtaken>> /\ self_trade' = [self_trade EXCEPT !.ignore = FALSE]
    BY <1>8 DEF handle_core_trade
  <1>9. ASSUME ~copy
        PROVE  /\ orders' = [id \in DOMAIN orders |->
                                IF id \in mine
                                THEN apply_trade_to_order(orders[id], trade.quantity)
                                ELSE orders[id]]
               /\ self_trade' = IF both THEN [trade |-> trade, ignore |-> TRUE] ELSE self_trade
               /\ overtaken' = overtaken \cup
                      {id \in mine : \E i \in DOMAIN pending[id] :
                                         pending[id][i].kind = "Replace"}
    BY <1>9 DEF handle_core_trade
  <1>10. \A id \in OrderId : Tracked(id)
    BY <1>1 DEF QuantityInv
  <1>11. ASSUME NEW id \in OrderId
         PROVE  Fits(id, m, View(id)) /\ View(id) \in Views
    <2>1. PICK z : Takes(id, View(id), from_core, z)
      BY <1>10 DEF Tracked
    <2> QED
      BY <1>1, <2>1, TakesFirst, ViewIsView
  \* An order that is filled is known.
  <1>12. ASSUME NEW id \in OrderId, Fills(m, id)
         PROVE  /\ id \in DOMAIN orders
                /\ trade.quantity \in 1 .. orders[id].leaves_quantity
    <2>1. trade.quantity \in 1 .. View(id).left
      BY <1>11, <1>12 DEF Fits
    <2>2. View(id).left = IF id \in DOMAIN orders THEN orders[id].leaves_quantity ELSE 0
      BY ViewFields
    <2> HIDE DEF trade
    <2> QED
      BY <2>1, <2>2
  <1> HIDE DEF trade, m, mine, both, copy, named
  <1>13. DOMAIN orders' = DOMAIN orders
    BY <1>8, <1>9
  <1>14. ASSUME NEW id \in DOMAIN orders
         PROVE  /\ Fills(m, id) =>
                      orders'[id] = apply_trade_to_order(orders[id], trade.quantity)
                /\ ~Fills(m, id) => orders'[id] = orders[id]
    <2>1. Fills(m, id) <=> id \in mine /\ ~copy
      BY <1>1, <1>7 DEF Fills, mine, named, trade
    <2> QED
      BY <1>8, <1>9, <2>1
  <1>15. ASSUME NEW id \in OrderId PROVE Tracked(id)'
    <2> DEFINE x == View(id)
               y == Moved(id, m, x)
    <2>1. /\ x.left = IF id \in DOMAIN orders THEN orders[id].leaves_quantity ELSE 0
          /\ x.cum = IF id \in DOMAIN orders THEN orders[id].cumulative_quantity ELSE 0
          /\ x.asks = pending[id]
          /\ x.waits <=> (id \in non_resting_awaiting_boundary)
          /\ x.rests <=> (id \in DOMAIN orders /\ may_rest(orders[id]))
      BY ViewFields
    <2>2. y = IF Fills(m, id) THEN AfterFill(x, trade.quantity) ELSE x
      BY <1>1 DEF Moved, Answers, trade, m
    <2>3. x \in Views
      BY <1>11
    <2> HIDE DEF x
    <2>4. y \in Views
      BY <1>1, <1>11, MovedIsView DEF x, m
    <2> HIDE DEF y
    <2>5. View(id)' = y
      <3>1. CASE Fills(m, id)
        <4>1. id \in DOMAIN orders /\ trade.quantity \in 1 .. orders[id].leaves_quantity
          BY <1>12, <3>1
        <4> DEFINE after == apply_trade_to_order(orders[id], trade.quantity)
        <4>2. orders[id] \in OrderState
          BY <1>1, <4>1 DEF SessionInv, TypeOK, IsMap
        <4>3. trade.quantity <= orders[id].leaves_quantity
          BY <4>1, <4>2 DEF OrderState
        <4>4. /\ after.leaves_quantity = orders[id].leaves_quantity - trade.quantity
              /\ after.cumulative_quantity = orders[id].cumulative_quantity + trade.quantity
              /\ after.order_type = orders[id].order_type
              /\ after.time_in_force = orders[id].time_in_force
          BY <1>4, <4>2, <4>3, TradeTakesOff
        <4>5. orders'[id] = after
          BY <1>14, <3>1, <4>1
        <4> HIDE DEF after
        <4>6. /\ y.left = x.left - trade.quantity /\ y.cum = x.cum + trade.quantity
              /\ y.asks = x.asks /\ y.waits = x.waits /\ y.rests = x.rests
          BY <2>2, <2>3, <3>1 DEF AfterFill, Views
        <4>7. y.left = orders'[id].leaves_quantity /\ y.cum = orders'[id].cumulative_quantity
          BY <2>1, <4>1, <4>4, <4>5, <4>6
        <4>8. y.rests <=> may_rest(orders'[id])
          BY <2>1, <4>1, <4>4, <4>5, <4>6 DEF may_rest
        <4> QED
          BY <1>1, <1>13, <2>1, <2>4, <4>1, <4>6, <4>7, <4>8, NextView
      <3>2. CASE ~Fills(m, id)
        <4>1. id \in DOMAIN orders => orders'[id] = orders[id]
          BY <1>14, <3>2
        <4>2. y = x
          BY <2>2, <3>2
        <4> QED
          BY <1>1, <1>13, <2>1, <2>4, <4>1, <4>2, NextView
      <3> QED
        BY <3>1, <3>2
    <2> QED
      BY <1>1, <1>10, <2>5, ReadingTracks DEF QuantityInv, x, y, m
  <1>16. CopiesExpected'
    <2> DEFINE t == Tail(from_core)
               rest == [m EXCEPT !.copies = @ - 1]
               Good(q) == /\ q.trade.buy # q.trade.sell
                          /\ q.copies = 2 => q.trade.buy # Other /\ q.trade.sell # Other
    <2>1. \A i \in DOMAIN t :
              i + 1 \in DOMAIN from_core /\ i + 1 # 1 /\ t[i] = from_core[i + 1]
      BY <1>1
    <2>2. \A i \in DOMAIN t : t[i].kind = "trade" => Good(t[i]) /\ ~IsCopy(t[i])
      BY <2>1 DEF QuantityInv, CopiesExpected
    <2>3. t \in Seq(CoreMessage)
      BY <1>1
    <2>4. CASE m.copies = 2
      <3>1. rest.copies = 1 /\ rest.trade = trade /\ rest.kind = "trade" /\ rest \in CoreMessage
        BY <1>3, <2>4 DEF TradeMessage, trade, CoreMessage
      <3>2. from_core' = <<rest>> \o t
        BY <1>1, <2>4 DEF Receive, extract_core_message, m
      <3>3. ~IsCopy(m) /\ trade.buy # Other /\ trade.sell # Other
        BY <1>5, <2>4 DEF IsCopy
      <3>4. trade.buy \in OrderId /\ trade.sell \in OrderId
        BY <1>4, <3>3
      <3>5. Fills(m, trade.buy) /\ Fills(m, trade.sell)
        BY <1>1, <3>3 DEF Fills, trade
      <3>6. named \subseteq DOMAIN orders
        BY <1>12, <3>4, <3>5 DEF named
      <3>7. self_trade' = [trade |-> trade, ignore |-> TRUE]
        BY <1>6, <1>7, <1>9, <3>3, <3>6
      <3> HIDE DEF rest, t
      <3>8. IsCopy(rest) /\ Good(rest)
        BY <1>5, <3>1, <3>3 DEF IsCopy
      <3>9. /\ from_core' # <<>> /\ Head(from_core') = rest /\ from_core'[1] = rest
            /\ \A i \in DOMAIN from_core' :
                  i = 1 \/ (i - 1 \in DOMAIN t /\ from_core'[i] = t[i - 1])
        BY <2>3, <3>1, <3>2
      <3>10. ASSUME NEW i \in DOMAIN from_core', from_core'[i].kind = "trade"
             PROVE  /\ Good(from_core'[i])
                    /\ IsCopy(from_core'[i]) => i = 1 /\ from_core'[i] = rest
        BY <2>2, <3>8, <3>9, <3>10
      <3>11. /\ {rest.trade.buy, rest.trade.sell} \subseteq DOMAIN orders'
             /\ self_trade' = [trade |-> rest.trade, ignore |-> TRUE]
        BY <1>13, <3>1, <3>6, <3>7 DEF named
      <3> QED
        BY <3>1, <3>8, <3>9, <3>10, <3>11 DEF CopiesExpected, IsCopy
    <2>5. CASE m.copies = 1
      <3>1. from_core' = t
        BY <1>1, <2>5 DEF Receive, extract_core_message, m
      <3>2. ~self_trade'.ignore
        <4>1. CASE copy
          <5>1. self_trade = [trade |-> trade, ignore |-> TRUE]
            BY <1>5, <1>7, <4>1
          <5> QED
            BY <1>8, <4>1, <5>1
        <4>2. CASE ~copy
          <5>1. ~IsCopy(m) /\ ~self_trade.ignore
            BY <1>5, <1>7, <4>2
          <5>2. trade.buy = Other \/ trade.sell = Other
            BY <2>5, <5>1 DEF IsCopy, trade
          <5>3. ~both
            BY <1>3, <1>4, <1>6, <5>2 DEF named
          <5> QED
            BY <1>9, <4>2, <5>1, <5>3
        <4> QED
          BY <4>1, <4>2
      <3> HIDE DEF t
      <3> QED
        BY <2>2, <3>1, <3>2 DEF CopiesExpected, IsCopy
    <2> QED
      BY <1>4, <2>4, <2>5
  <1>17. NumbersKnown'
    BY <1>1, ReadingKnows DEF QuantityInv
  <1>18. SumsUp'
    <2> SUFFICES ASSUME NEW id \in DOMAIN orders'
                 PROVE  (/\ orders[id].ord_status \in {"filled", "canceled"} =>
                               orders[id].leaves_quantity = 0
                         /\ id \notin overtaken =>
                              /\ orders[id].leaves_quantity > 0 =>
                                    orders[id].order_quantity
                                       = orders[id].cumulative_quantity + orders[id].leaves_quantity
                              /\ \A i \in DOMAIN pending[id] :
                                    pending[id][i].kind = "Replace" =>
                                       pending[id][i].total
                                          = orders[id].cumulative_quantity + pending[id][i].working)'
      BY DEF SumsUp
    <2>1. id \in DOMAIN orders /\ orders[id] \in OrderState
      BY <1>1, <1>13 DEF SessionInv, TypeOK, IsMap
    <2>2. /\ orders[id].ord_status \in {"filled", "canceled"} => orders[id].leaves_quantity = 0
          /\ id \notin overtaken =>
               /\ orders[id].leaves_quantity > 0 =>
                     orders[id].order_quantity
                        = orders[id].cumulative_quantity + orders[id].leaves_quantity
               /\ \A i \in DOMAIN pending[id] :
                     pending[id][i].kind = "Replace" =>
                        pending[id][i].total
                           = orders[id].cumulative_quantity + pending[id][i].working
      BY <2>1 DEF QuantityInv, SumsUp
    <2>3. overtaken \subseteq overtaken'
      BY <1>8, <1>9
    <2>4. CASE Fills(m, id)
      <3> DEFINE after == apply_trade_to_order(orders[id], trade.quantity)
      <3>1. /\ after.leaves_quantity \in Nat /\ after.leaves_quantity <= orders[id].leaves_quantity
            /\ after.cumulative_quantity + after.leaves_quantity
                  = orders[id].cumulative_quantity + orders[id].leaves_quantity
            /\ after.ord_status \in {"filled", "canceled"} => after.leaves_quantity = 0
            /\ after.order_quantity = orders[id].order_quantity
        BY <1>4, <2>1, TradeTakesOff
      <3>2. orders'[id] = after
        BY <1>14, <2>1, <2>4
      <3> HIDE DEF after
      <3>3. id \in mine /\ ~copy
        BY <1>7, <2>1, <2>4 DEF Fills, mine, named, trade
      <3>4. id \notin overtaken' => \A i \in DOMAIN pending[id] : pending[id][i].kind # "Replace"
        BY <1>9, <3>3
      <3>5. orders[id].leaves_quantity \in Nat
        BY <2>1 DEF OrderState
      <3>6. after.leaves_quantity > 0 => orders[id].leaves_quantity > 0
        BY <3>1, <3>5
      <3> QED
        BY <1>1, <2>2, <2>3, <3>1, <3>2, <3>4, <3>6
    <2>5. CASE ~Fills(m, id)
      <3>1. orders'[id] = orders[id]
        BY <1>14, <2>1, <2>5
      <3> QED
        BY <1>1, <2>2, <2>3, <3>1
    <2> QED
      BY <2>4, <2>5
  <1> QED
    BY <1>2, <1>15, <1>16, <1>17, <1>18 DEF QuantityInv

-----------------------------------------------------------------------------
(* Responses *)

\* What a response leaves of the order that it is about.
LEMMA RespondTo ==
    ASSUME NEW order \in OrderState, NEW request \in PendingRequest, NEW success \in BOOLEAN
    PROVE  LET after == Respond(order, request, success)
           IN  /\ after.cumulative_quantity = order.cumulative_quantity
               /\ after.order_type = order.order_type
               /\ after.time_in_force = order.time_in_force
               /\ ~success => after = order
               /\ success /\ request.kind = "New" =>
                     /\ after.leaves_quantity = order.leaves_quantity
                     /\ after.order_quantity = order.order_quantity
                     /\ after.ord_status = "new"
               /\ success /\ request.kind = "Cancel" => after.leaves_quantity = 0
               /\ success /\ request.kind = "Replace" =>
                     /\ after.leaves_quantity = request.working
                     /\ after.order_quantity = request.total
                     /\ after.ord_status \in {"new", "partially_filled"}
  <1>1. request.kind \in {"New", "Cancel", "Replace"}
    BY DEF PendingRequest
  <1>2. CASE ~success
    BY <1>2 DEF Respond
  <1>3. CASE success /\ request.kind = "New"
    BY <1>3 DEF Respond, OrderState
  <1>4. CASE success /\ request.kind = "Cancel"
    BY <1>4 DEF Respond, OrderState
  <1>5. CASE success /\ request.kind = "Replace"
    BY <1>5 DEF Respond, OrderState
  <1> QED
    BY <1>1, <1>2, <1>3, <1>4, <1>5

\* A response: handle_core_order_response.
LEMMA ResponseKeepsQuantities ==
    ASSUME QuantityInv, handle_core_order_response
    PROVE  QuantityInv'
  <1> DEFINE m == Head(from_core)
             success == m.success
  <1>1. /\ SessionInv /\ Receive("response") /\ m.kind = "response" /\ phase # "closed"
        /\ UNCHANGED <<self_trade, overtaken, next_numeric_order_id>>
        /\ from_core \in Seq(CoreMessage) /\ from_core # <<>>
        /\ pending \in [OrderId -> Seq(PendingRequest)]
        /\ IsMap(orders, OrderId, OrderState)
    BY DEF QuantityInv, handle_core_order_response, Receive, extract_core_message, SessionInv,
           ConnectionType, TypeOK
  <1>2. SessionInv'
    BY <1>1, ResponseKeepsSession
  <1>3. m \in CoreMessage /\ m \in Response /\ m = from_core[1] /\ 1 \in DOMAIN from_core
    BY <1>1, MessageParts
  <1>4. PICK id \in OrderId : id = m.id
    BY <1>3 DEF Response
  <1> DEFINE request == Head(pending[id])
             refused == request.kind = "New" /\ ~success
             after == Respond(orders[id], request, success)
             x == View(id)
             y == AfterAnswer(x, success)
  <1>0. success \in BOOLEAN
    BY <1>3 DEF Response
  <1>5. \A r \in OrderId : Tracked(r)
    BY <1>1 DEF QuantityInv
  <1>6. Fits(id, m, x) /\ x \in Views
    <2>1. PICK z : Takes(id, x, from_core, z)
      BY <1>4, <1>5 DEF Tracked
    <2>2. x \in Views
      BY <1>1, <1>4, ViewIsView
    <2> HIDE DEF x, m
    <2> QED
      BY <1>1, <2>1, <2>2, TakesFirst DEF m
  <1>7. Answers(m, id)
    BY <1>1, <1>4 DEF Answers
  <1>8. /\ x.left = IF id \in DOMAIN orders THEN orders[id].leaves_quantity ELSE 0
        /\ x.cum = IF id \in DOMAIN orders THEN orders[id].cumulative_quantity ELSE 0
        /\ x.asks = pending[id]
        /\ x.waits <=> (id \in non_resting_awaiting_boundary)
        /\ x.rests <=> (id \in DOMAIN orders /\ may_rest(orders[id]))
    BY ViewFields
  <1>9. /\ pending' = [pending EXCEPT ![id] = IF @ = <<>> THEN <<>> ELSE Tail(@)]
        /\ pending[id] # <<>> =>
             IF id \notin DOMAIN orders
             THEN UNCHANGED <<orders, non_resting_awaiting_boundary>>
             ELSE /\ orders' = IF refused THEN Erase(orders, id) ELSE Put(orders, id, after)
                  /\ non_resting_awaiting_boundary' =
                       non_resting_awaiting_boundary \cup
                         {i \in {id} : request.kind = "New" /\ success /\ ~may_rest(orders[i])}
    BY <1>4 DEF handle_core_order_response
  <1>10. Moved(id, m, x) = y /\ y \in Views
    BY <1>3, <1>6, <1>7, MovedIsView DEF Moved
  <1> HIDE DEF x, success
  <1>11. /\ pending[id] # <<>>
         /\ success \/ request.kind = "New" => x.left > 0
         /\ request.kind = "New" => x.cum = 0 /\ ~x.waits
    BY <1>6, <1>7, <1>8 DEF Fits, Entering, success
  <1>12. /\ request \in PendingRequest /\ pending'[id] = Tail(pending[id])
         /\ \A r \in OrderId : r # id => pending'[r] = pending[r]
         /\ \A i \in DOMAIN pending'[id] : i + 1 \in DOMAIN pending[id]
                                           /\ pending'[id][i] = pending[id][i + 1]
         /\ 1 \in DOMAIN pending[id] /\ pending[id][1] = request
    <2>1. pending[id] \in Seq(PendingRequest) /\ pending[id] # <<>>
      BY <1>1, <1>4, <1>11
    <2>2. pending'[id] = Tail(pending[id]) /\ \A r \in OrderId : r # id => pending'[r] = pending[r]
      BY <1>1, <1>4, <1>9, <1>11
    <2> QED
      BY <2>1, <2>2
  <1>13. request.kind \in {"New", "Cancel", "Replace"}
    BY <1>12 DEF PendingRequest
  <1> HIDE DEF request
  <1>14. id \notin DOMAIN orders => ~success /\ request.kind # "New"
    BY <1>8, <1>11
  <1>15. /\ DOMAIN orders' = IF refused THEN DOMAIN orders \ {id} ELSE DOMAIN orders
         /\ \A r \in DOMAIN orders : r # id => orders'[r] = orders[r]
         /\ id \in DOMAIN orders /\ ~refused => orders'[id] = after
    <2>1. CASE id \notin DOMAIN orders
      BY <1>9, <1>11, <1>14, <2>1
    <2>2. CASE id \in DOMAIN orders /\ refused
      <3>1. orders' = Erase(orders, id)
        BY <1>9, <1>11, <2>2
      <3>2. /\ DOMAIN Erase(orders, id) = DOMAIN orders \ {id}
            /\ \A r \in DOMAIN orders : r # id => Erase(orders, id)[r] = orders[r]
        BY DEF Erase, Restrict
      <3> QED
        BY <2>2, <3>1, <3>2
    <2>3. CASE id \in DOMAIN orders /\ ~refused
      <3> HIDE DEF after, refused
      <3>1. orders' = Put(orders, id, after)
        BY <1>9, <1>11, <2>3
      <3>2. /\ DOMAIN Put(orders, id, after) = DOMAIN orders \cup {id}
            /\ Put(orders, id, after)[id] = after
            /\ \A r \in DOMAIN orders : r # id => Put(orders, id, after)[r] = orders[r]
        BY DEF Put
      <3> QED
        BY <2>3, <3>1, <3>2
    <2> QED
      BY <2>1, <2>2, <2>3
  <1>16. /\ id \in non_resting_awaiting_boundary' <=>
               \/ id \in non_resting_awaiting_boundary
               \/ request.kind = "New" /\ success /\ ~may_rest(orders[id])
         /\ \A r : r # id => (r \in non_resting_awaiting_boundary' <=>
                              r \in non_resting_awaiting_boundary)
    <2>1. CASE id \notin DOMAIN orders
      BY <1>9, <1>11, <1>14, <2>1
    <2>2. CASE id \in DOMAIN orders
      BY <1>9, <1>11, <2>2
    <2> QED
      BY <2>1, <2>2
  <1>17. id \in DOMAIN orders =>
            /\ orders[id] \in OrderState
            /\ after.cumulative_quantity = orders[id].cumulative_quantity
            /\ after.order_type = orders[id].order_type
            /\ after.time_in_force = orders[id].time_in_force
            /\ ~success => after = orders[id]
            /\ success /\ request.kind = "New" =>
                  /\ after.leaves_quantity = orders[id].leaves_quantity
                  /\ after.order_quantity = orders[id].order_quantity
                  /\ after.ord_status = "new"
            /\ success /\ request.kind = "Cancel" => after.leaves_quantity = 0
            /\ success /\ request.kind = "Replace" =>
                  /\ after.leaves_quantity = request.working
                  /\ after.order_quantity = request.total
                  /\ after.ord_status \in {"new", "partially_filled"}
    BY <1>0, <1>1, <1>4, <1>12, RespondTo DEF IsMap
  <1> HIDE DEF after
  <1>18. View(id)' = y
    <2>1. /\ y.left = (IF request.kind = "New" THEN IF success THEN x.left ELSE 0
                       ELSE IF ~success THEN x.left
                       ELSE IF request.kind = "Cancel" THEN 0 ELSE request.working)
          /\ y.cum = x.cum /\ y.asks = Tail(pending[id])
          /\ y.waits <=> x.waits \/ (success /\ request.kind = "New" /\ ~x.rests)
          /\ y.rests <=> x.rests /\ (success \/ request.kind # "New")
      BY <1>8 DEF AfterAnswer, request
    <2> HIDE DEF y
    <2>2. CASE id \notin DOMAIN orders
      <3>1. y.left = 0 /\ y.cum = 0 /\ ~y.rests /\ id \notin DOMAIN orders'
        BY <1>8, <1>14, <1>15, <2>1, <2>2
      <3>2. y.waits <=> id \in non_resting_awaiting_boundary'
        BY <1>8, <1>14, <1>16, <2>1, <2>2
      <3> QED
        BY <1>10, <1>12, <2>1, <3>1, <3>2, NextView
    <2>3. CASE id \in DOMAIN orders /\ refused
      <3>1. y.left = 0 /\ y.cum = 0 /\ ~y.rests /\ id \notin DOMAIN orders'
        BY <1>8, <1>11, <1>15, <2>1, <2>3
      <3>2. y.waits <=> id \in non_resting_awaiting_boundary'
        BY <1>8, <1>16, <2>1, <2>3
      <3> QED
        BY <1>10, <1>12, <2>1, <3>1, <3>2, NextView
    <2>4. CASE id \in DOMAIN orders /\ ~refused
      <3>1. /\ id \in DOMAIN orders' /\ orders'[id] = after
        BY <1>15, <2>4
      <3>2. y.left = after.leaves_quantity
        <4>1. CASE ~success
          BY <1>8, <1>17, <2>1, <2>4, <4>1
        <4>2. CASE success
          BY <1>8, <1>13, <1>17, <2>1, <2>4, <4>2
        <4> QED
          BY <4>1, <4>2
      <3>3. y.cum = after.cumulative_quantity
        BY <1>8, <1>17, <2>1, <2>4
      <3>4. y.rests <=> may_rest(after)
        BY <1>8, <1>17, <2>1, <2>4 DEF may_rest
      <3>5. y.waits <=> id \in non_resting_awaiting_boundary'
        BY <1>8, <1>16, <2>1, <2>4
      <3> QED
        BY <1>10, <1>12, <2>1, <3>1, <3>2, <3>3, <3>4, <3>5, NextView
    <2> QED
      BY <2>2, <2>3, <2>4
  <1>19. ASSUME NEW r \in OrderId PROVE Tracked(r)'
    <2>1. CASE r = id
      BY <1>1, <1>4, <1>5, <1>10, <1>18, <2>1, ReadingTracks DEF QuantityInv, x, m
    <2>2. CASE r # id
      <3>1. Moved(r, m, View(r)) = View(r)
        BY <1>1, <1>4, <2>2 DEF Moved, Answers, Fills
      <3>2. View(r) \in Views
        BY <1>1, ViewIsView
      <3>3. /\ r \in DOMAIN orders' <=> r \in DOMAIN orders
            /\ r \in DOMAIN orders => orders'[r] = orders[r]
            /\ pending'[r] = pending[r]
            /\ r \in non_resting_awaiting_boundary' <=> r \in non_resting_awaiting_boundary
        BY <1>12, <1>15, <1>16, <2>2
      <3> DEFINE v == View(r)
      <3>4. /\ v.left = IF r \in DOMAIN orders THEN orders[r].leaves_quantity ELSE 0
            /\ v.cum = IF r \in DOMAIN orders THEN orders[r].cumulative_quantity ELSE 0
            /\ v.asks = pending[r]
            /\ v.waits <=> (r \in non_resting_awaiting_boundary)
            /\ v.rests <=> (r \in DOMAIN orders /\ may_rest(orders[r]))
        BY ViewFields
      <3> HIDE DEF v
      <3>5. View(r)' = v
        BY <3>2, <3>3, <3>4, NextView DEF v
      <3> QED
        BY <1>1, <1>5, <3>1, <3>5, ReadingTracks DEF QuantityInv, v, m
    <2> QED
      BY <2>1, <2>2
  <1>20. CopiesExpected'
    BY <1>1, ReadingKeepsCopies DEF QuantityInv
  <1>21. NumbersKnown'
    <2>1. id < next_numeric_order_id
      BY <1>1, <1>3, <1>4 DEF QuantityInv, NumbersKnown, Known
    <2>2. \A r \in non_resting_awaiting_boundary' :
              r < next_numeric_order_id \/ r \in non_resting_awaiting_boundary
      BY <1>16, <2>1
    <2> QED
      BY <1>1, <2>2, ReadingKnows DEF QuantityInv
  <1>22. SumsUp'
    <2> SUFFICES ASSUME NEW r \in DOMAIN orders'
                 PROVE  (/\ orders[r].ord_status \in {"filled", "canceled"} =>
                               orders[r].leaves_quantity = 0
                         /\ r \notin overtaken =>
                              /\ orders[r].leaves_quantity > 0 =>
                                    orders[r].order_quantity
                                       = orders[r].cumulative_quantity + orders[r].leaves_quantity
                              /\ \A i \in DOMAIN pending[r] :
                                    pending[r][i].kind = "Replace" =>
                                       pending[r][i].total
                                          = orders[r].cumulative_quantity + pending[r][i].working)'
      BY DEF SumsUp
    <2>1. r \in DOMAIN orders /\ r \in OrderId
      BY <1>1, <1>15 DEF IsMap
    <2>2. /\ orders[r].ord_status \in {"filled", "canceled"} => orders[r].leaves_quantity = 0
          /\ r \notin overtaken =>
               /\ orders[r].leaves_quantity > 0 =>
                     orders[r].order_quantity
                        = orders[r].cumulative_quantity + orders[r].leaves_quantity
               /\ \A i \in DOMAIN pending[r] :
                     pending[r][i].kind = "Replace" =>
                        pending[r][i].total
                           = orders[r].cumulative_quantity + pending[r][i].working
      BY <2>1 DEF QuantityInv, SumsUp
    <2>3. CASE r # id
      BY <1>1, <1>12, <1>15, <2>1, <2>2, <2>3
    <2>4. CASE r = id
      <3>1. ~refused /\ orders'[id] = after
        BY <1>15, <2>1, <2>4
      <3>2. id \notin overtaken' =>
               \A i \in DOMAIN pending'[id] :
                  pending'[id][i].kind = "Replace" =>
                     pending'[id][i].total
                        = orders'[id].cumulative_quantity + pending'[id][i].working
        BY <1>1, <1>12, <1>17, <2>1, <2>2, <2>4, <3>1
      <3>3. CASE ~success
        BY <1>1, <1>17, <2>1, <2>2, <2>4, <3>1, <3>2, <3>3
      <3>4. CASE success /\ request.kind = "New"
        BY <1>1, <1>17, <2>1, <2>2, <2>4, <3>1, <3>2, <3>4
      <3>5. CASE success /\ request.kind = "Cancel"
        BY <1>1, <1>17, <2>1, <2>2, <2>4, <3>1, <3>2, <3>5
      <3>6. CASE success /\ request.kind = "Replace"
        <4>1. id \notin overtaken => request.total = orders[id].cumulative_quantity + request.working
          BY <1>12, <2>1, <2>2, <2>4, <3>6
        <4> QED
          BY <1>1, <1>17, <2>1, <2>2, <2>4, <3>1, <3>2, <3>6, <4>1
      <3> QED
        BY <1>0, <1>13, <3>3, <3>4, <3>5, <3>6
    <2> QED
      BY <2>3, <2>4
  <1> QED
    BY <1>2, <1>19, <1>20, <1>21, <1>22 DEF QuantityInv

-----------------------------------------------------------------------------
(* The client, and the end of the session *)

\* Steps that touch no order and no message.
LEMMA QuantitiesSame ==
    ASSUME QuantityInv, SessionInv',
           UNCHANGED <<orders, pending, trackVars, to_core, from_core, core_up, core, executed>>,
           next_numeric_order_id' \in {next_numeric_order_id, next_numeric_order_id + 1},
           phase = "closed" => phase' = "closed"
    PROVE  QuantityInv'
  <1>1. UNCHANGED <<orders, pending, non_resting_awaiting_boundary, self_trade, overtaken,
                    to_core, from_core, core_up, core, executed>>
    BY DEF trackVars
  <1>2. CopiesExpected' /\ SumsUp'
    BY <1>1 DEF QuantityInv, CopiesExpected, SumsUp, IsCopy
  <1>3. /\ next_numeric_order_id \in Nat
        /\ from_core \in Seq(CoreMessage) /\ to_core \in Seq(Request)
        /\ DOMAIN core \subseteq OrderId
    BY FixBoundsAssumption DEF QuantityInv, SessionInv, TypeOK, ConnectionType, IsMap
  <1>4. NumbersKnown'
    <2>1. ASSUME NEW n \in Nat, n < next_numeric_order_id PROVE n < next_numeric_order_id'
      BY <1>3, <2>1
    <2>2. ASSUME NEW i \in DOMAIN from_core PROVE Known(from_core[i])'
      <3>1. from_core[i] \in CoreMessage /\ Known(from_core[i])
        BY <1>3 DEF QuantityInv, NumbersKnown
      <3>2. /\ from_core[i].kind = "response" => from_core[i].id \in Nat
            /\ from_core[i].kind = "trade" => /\ from_core[i].trade.buy \in Nat
                                              /\ from_core[i].trade.sell \in Nat
        BY <3>1, MessageParts DEF Response, TradeMessage, OrderId, Other
      <3> QED
        BY <1>1, <2>1, <3>1, <3>2 DEF Known
    <2>3. ASSUME NEW i \in DOMAIN to_core PROVE to_core[i].id < next_numeric_order_id'
      <3>1. to_core[i] \in Request /\ to_core[i].id < next_numeric_order_id
        BY <1>3 DEF QuantityInv, NumbersKnown
      <3>2. to_core[i].id \in Nat
        BY <3>1 DEF Request, OrderId
      <3> QED
        BY <2>1, <3>1, <3>2
    <2>4. ASSUME NEW id \in DOMAIN core PROVE id < next_numeric_order_id'
      <3>1. id \in Nat
        BY <1>3 DEF OrderId
      <3> QED
        BY <2>1, <3>1 DEF QuantityInv, NumbersKnown
    <2>5. ASSUME NEW id \in OrderId, id >= next_numeric_order_id'
          PROVE  executed[id] = 0 /\ id \notin non_resting_awaiting_boundary
      <3>1. id >= next_numeric_order_id
        BY <1>3, <2>5 DEF OrderId
      <3> QED
        BY <3>1 DEF QuantityInv, NumbersKnown
    <2>6. (\A i \in DOMAIN from_core : Known(from_core[i]))'
      BY <1>1, <2>2 DEF Known
    <2> QED
      BY <1>1, <2>3, <2>4, <2>5, <2>6 DEF QuantityInv, NumbersKnown
  <1>5. ASSUME NEW id \in OrderId, Tracked(id) PROVE Tracked(id)'
    <2>1. View(id)' = View(id)
      BY <1>1 DEF View
    <2>2. PICK z : Takes(id, View(id), from_core, z) /\ Ends(id, z)
      BY <1>5 DEF Tracked
    <2>3. Ends(id, z)'
      BY <1>1, <2>2 DEF Ends
    <2> QED
      BY <1>1, <2>1, <2>2, <2>3 DEF Tracked
  <1> QED
    BY <1>2, <1>4, <1>5 DEF QuantityInv

\* The requests of other orders do not matter to an order.
LEMMA OthersAsk ==
    ASSUME SessionInv, NEW r \in OrderId, Tracked(r), NEW s \in Request, s.id # r,
           View(r)' = View(r), to_core' \in {to_core, Append(to_core, s)},
           UNCHANGED <<from_core, coreVars>>
    PROVE  Tracked(r)'
  <1>1. PICK z : Takes(r, View(r), from_core, z) /\ Ends(r, z)
    BY DEF Tracked
  <1>2. from_core \in Seq(CoreMessage) /\ to_core \in Seq(Request)
    BY DEF SessionInv, ConnectionType
  <1>3. z \in Views
    BY <1>1, <1>2, TakesViews
  <1>4. core_up => Awaits(to_core', r, z)
    BY <1>1, <1>2, <1>3, AwaitsOther DEF Ends
  <1>5. Ends(r, z)'
    BY <1>1, <1>4 DEF Ends, coreVars
  <1> QED
    BY <1>1, <1>5 DEF Tracked

\* A cancel or a replacement joins what is under way.
LEMMA FollowUpKeepsQuantities ==
    ASSUME QuantityInv, SessionInv', phase # "closed",
           NEW id \in DOMAIN orders, NEW request \in PendingRequest, NEW quantity \in Nat,
           send_core_request(id, request, quantity), request.kind # "New",
           request.kind = "Replace" =>
              /\ quantity = request.working
              /\ request.total = orders[id].cumulative_quantity + request.working,
           UNCHANGED <<phase, next_numeric_order_id, orders, trackVars, from_core, coreVars>>
    PROVE  QuantityInv'
  <1> DEFINE s == Sent(id, request, quantity)
  <1>1. /\ SessionInv /\ id \in OrderId /\ orders[id] \in OrderState
        /\ pending \in [OrderId -> Seq(PendingRequest)]
        /\ to_core \in Seq(Request) /\ from_core \in Seq(CoreMessage)
        /\ next_numeric_order_id \in Nat
    BY FixBoundsAssumption DEF QuantityInv, SessionInv, TypeOK, ConnectionType, IsMap
  <1>2. /\ UNCHANGED <<orders, non_resting_awaiting_boundary, self_trade, overtaken, from_core,
                       core_up, core, executed>>
        /\ pending' = [pending EXCEPT ![id] = Append(pending[id], request)]
        /\ to_core' = IF core_up THEN Append(to_core, s) ELSE to_core
    BY DEF trackVars, coreVars, send_core_request
  <1>3. /\ s \in Request /\ s.id = id /\ s.kind = request.kind /\ s.quantity = quantity
    <2>1. orders'[id].side \in Side /\ request.cl_ord_id \in ClOrdId
          /\ request.kind \in {"New", "Cancel", "Replace"} /\ may_rest(orders'[id]) \in BOOLEAN
      BY <1>1, <1>2 DEF OrderState, PendingRequest, may_rest
    <2> QED
      BY <1>1, <2>1 DEF Sent, Request
  <1> HIDE DEF s
  <1>4. /\ pending'[id] = Append(pending[id], request)
        /\ \A r \in OrderId : r # id => pending'[r] = pending[r]
    BY <1>1, <1>2
  <1>5. CopiesExpected'
    BY <1>2 DEF QuantityInv, CopiesExpected, IsCopy
  <1>6. NumbersKnown'
    <2>1. id < next_numeric_order_id
      <3>1. ~(id >= next_numeric_order_id)
        BY <1>1 DEF SessionInv, NumbersFresh
      <3> QED
        BY <1>1, <3>1 DEF OrderId
    <2>2. ASSUME NEW i \in DOMAIN to_core' PROVE to_core'[i].id < next_numeric_order_id
      <3>1. \/ i \in DOMAIN to_core /\ to_core'[i] = to_core[i]
            \/ to_core'[i] = s
        BY <1>1, <1>2, <1>3
      <3> QED
        BY <1>3, <2>1, <3>1 DEF QuantityInv, NumbersKnown
    <2> QED
      BY <1>2, <2>2 DEF QuantityInv, NumbersKnown, Known
  <1>7. SumsUp'
    <2> SUFFICES ASSUME NEW r \in DOMAIN orders, r \notin overtaken, NEW i \in DOMAIN pending'[r],
                        pending'[r][i].kind = "Replace"
                 PROVE  pending'[r][i].total
                           = orders[r].cumulative_quantity + pending'[r][i].working
      BY <1>2 DEF QuantityInv, SumsUp
    <2>1. \/ i \in DOMAIN pending[r] /\ pending'[r][i] = pending[r][i]
          \/ r = id /\ pending'[r][i] = request
      <3>1. r \in OrderId
        BY <1>1 DEF SessionInv, TypeOK, IsMap
      <3>2. CASE r # id
        BY <1>4, <3>1, <3>2
      <3>3. CASE r = id
        <4>1. pending[id] \in Seq(PendingRequest)
          BY <1>1
        <4>2. i \in DOMAIN Append(pending[id], request)
          BY <1>4, <3>3
        <4> QED
          BY <1>4, <3>3, <4>1, <4>2, Appended
      <3> QED
        BY <3>2, <3>3
    <2> QED
      BY <2>1 DEF QuantityInv, SumsUp
  <1>8. ASSUME NEW r \in OrderId PROVE Tracked(r)'
    <2>1. Tracked(r)
      BY DEF QuantityInv
    <2>2. CASE r # id
      <3>1. View(r)' = View(r)
        BY <1>2, <1>4, <2>2 DEF View
      <3> QED
        BY <1>1, <1>2, <1>3, <2>1, <2>2, <3>1, OthersAsk
    <2>3. CASE r = id
      <3>1. View(r)' = Asking(View(r), request)
        <4> DEFINE x == View(r)
                   v == Asking(x, request)
        <4>1. x \in Views
          BY <1>1, ViewIsView
        <4>2. /\ x.left = IF r \in DOMAIN orders THEN orders[r].leaves_quantity ELSE 0
              /\ x.cum = IF r \in DOMAIN orders THEN orders[r].cumulative_quantity ELSE 0
              /\ x.asks = pending[r]
              /\ x.waits <=> (r \in non_resting_awaiting_boundary)
              /\ x.rests <=> (r \in DOMAIN orders /\ may_rest(orders[r]))
          BY ViewFields
        <4> HIDE DEF x
        <4>3. Append(x.asks, request) \in Seq(PendingRequest)
          BY <4>1 DEF Views
        <4>4. /\ v \in Views /\ v.left = x.left /\ v.cum = x.cum /\ v.waits = x.waits
              /\ v.rests = x.rests /\ v.asks = Append(x.asks, request)
          BY <4>1, <4>3 DEF Asking, Views
        <4> HIDE DEF v
        <4>5. /\ v.left = (IF r \in DOMAIN orders' THEN orders'[r].leaves_quantity ELSE 0)
              /\ v.cum = (IF r \in DOMAIN orders' THEN orders'[r].cumulative_quantity ELSE 0)
              /\ v.asks = pending'[r]
          BY <1>2, <1>4, <2>3, <4>2, <4>4
        <4>6. /\ v.waits <=> r \in non_resting_awaiting_boundary'
              /\ v.rests <=> r \in DOMAIN orders' /\ may_rest(orders'[r])
          BY <1>2, <4>2, <4>4
        <4>7. View(r)' = v
          BY <4>4, <4>5, <4>6, NextView
        <4> QED
          BY <4>7 DEF v, x
      <3>2. PICK z : Takes(r, View(r), from_core, z) /\ Ends(r, z)
        BY <2>1 DEF Tracked
      <3> DEFINE y == Asking(z, request)
      <3>3. Takes(r, View(r)', from_core', y)
        BY <1>1, <1>2, <3>1, <3>2, TakesAsking
      <3>4. z \in Views /\ y \in Views
        BY <1>1, <1>2, <3>2, <3>3, TakesViews
      <3>5. /\ y.left = z.left /\ y.cum = z.cum /\ y.waits = z.waits /\ y.rests = z.rests
            /\ y.asks = Append(z.asks, request)
        BY <3>4 DEF Asking, Views
      <3>6. z.asks \in Seq(PendingRequest)
        BY <3>4 DEF Views
      <3> HIDE DEF y
      <3>7. Entering(y) <=> Entering(z)
        <4>1. CASE z.asks = <<>>
          <5>1. Head(y.asks) = request
            BY <3>5, <4>1
          <5> QED
            BY <4>1, <5>1 DEF Entering
        <4>2. CASE z.asks # <<>>
          <5>1. y.asks # <<>> /\ Head(y.asks) = Head(z.asks)
            BY <3>5, <3>6, <4>2
          <5> QED
            BY <4>2, <5>1 DEF Entering
        <4> QED
          BY <4>1, <4>2
      <3>8. core_up => Awaits(to_core', r, y)
        <4>1. IsFor(s, r, request, y)
          BY <1>3, <2>3 DEF IsFor
        <4>2. core_up => Awaits(to_core, r, z) /\ to_core' = Append(to_core, s)
          BY <1>2, <3>2 DEF Ends
        <4> QED
          BY <1>1, <1>3, <3>4, <3>5, <4>1, <4>2, AwaitsMore
      <3>9. Ends(r, y)'
        BY <1>2, <3>2, <3>5, <3>7, <3>8 DEF Ends
      <3> QED
        BY <3>3, <3>9 DEF Tracked
    <2> QED
      BY <2>2, <2>3
  <1> QED
    BY <1>5, <1>6, <1>7, <1>8 DEF QuantityInv

\* A reject on the spot.
LEMMA RejectKeepsQuantities ==
    ASSUME QuantityInv, SessionInv', NEW name, Named(name), Reject(name),
           next_numeric_order_id' \in {next_numeric_order_id, next_numeric_order_id + 1}
    PROVE  QuantityInv'
  <1>1. /\ UNCHANGED <<orders, pending, trackVars, to_core, from_core, core_up, core, executed>>
        /\ phase = "closed" => phase' = "closed"
    BY DEF Named, Reject, coreVars
  <1> QED
    BY <1>1, QuantitiesSame

\* A new order: nobody has heard of its number.
LEMMA NewOrderKeepsQuantities ==
    ASSUME QuantityInv, NEW name \in ClOrdId, NEW o \in NewOrderSingle,
           handle_new_order(name, o)
    PROVE  QuantityInv'
  <1>1. SessionInv' /\ SessionInv
    BY NewOrderKeepsSession DEF QuantityInv
  <1>2. PICK id \in OrderId : id = next_numeric_order_id
    BY DEF handle_new_order
  <1> DEFINE order == [side |-> o.side, order_type |-> o.order_type,
                       time_in_force |-> translate_new_order_single(o).time_in_force,
                       current_cl_ord_id |-> name, order_quantity |-> o.quantity,
                       cumulative_quantity |-> 0, leaves_quantity |-> o.quantity,
                       ord_status |-> "new"]
             request == [kind |-> "New", cl_ord_id |-> name, total |-> 0, working |-> 0]
             s == Sent(id, request, o.quantity)
  <1>3. /\ Named(name)
        /\ next_numeric_order_id' = IF ensure_unique_clordid(name) THEN id + 1 ELSE id
        /\ \/ /\ ensure_unique_clordid(name)
              /\ orders' = Put(orders, id, order)
              /\ send_core_request(id, request, o.quantity)
           \/ Reject(name)
    BY <1>2 DEF handle_new_order
  <1>4. CASE Reject(name)
    BY <1>1, <1>2, <1>3, <1>4, RejectKeepsQuantities
  <1>5. CASE /\ ensure_unique_clordid(name)
             /\ orders' = Put(orders, id, order)
             /\ send_core_request(id, request, o.quantity)
    <2>1. /\ o \in [side : Side, order_type : OrderType, time_in_force : TimeInForce,
                    quantity : Nat \ {0}]
          /\ o.quantity \in Nat /\ o.quantity > 0 /\ o.side \in Side
      BY NewOrderAssumption
    <2>2. /\ UNCHANGED <<phase, non_resting_awaiting_boundary, self_trade, overtaken, from_core,
                         core_up, core, executed>>
          /\ pending' = [pending EXCEPT ![id] = Append(pending[id], request)]
          /\ to_core' = IF core_up THEN Append(to_core, s) ELSE to_core
          /\ next_numeric_order_id' = id + 1 /\ phase # "closed"
      BY <1>3, <1>5 DEF Named, trackVars, coreVars, send_core_request
    <2>3. /\ pending \in [OrderId -> Seq(PendingRequest)] /\ request \in PendingRequest
          /\ to_core \in Seq(Request) /\ from_core \in Seq(CoreMessage)
          /\ IsMap(orders, OrderId, OrderState) /\ DOMAIN core \subseteq OrderId
      BY <1>1 DEF SessionInv, TypeOK, ConnectionType, PendingRequest, IsMap
    <2>4. /\ id \notin DOMAIN orders /\ pending[id] = <<>> /\ id \notin DOMAIN core
          /\ executed[id] = 0 /\ id \notin non_resting_awaiting_boundary
          /\ \A i \in DOMAIN to_core : to_core[i].id # id
          /\ \A i \in DOMAIN from_core : ~Answers(from_core[i], id) /\ ~Fills(from_core[i], id)
      <3>1. id >= next_numeric_order_id /\ id \in Nat
        BY <1>2 DEF OrderId
      <3>2. id \notin DOMAIN orders /\ pending[id] = <<>>
        BY <1>1, <3>1 DEF SessionInv, NumbersFresh
      <3>3. executed[id] = 0 /\ id \notin non_resting_awaiting_boundary /\ id \notin DOMAIN core
            /\ \A i \in DOMAIN to_core : to_core[i].id # id
        BY <1>2, <3>1 DEF QuantityInv, NumbersKnown
      <3>4. ASSUME NEW i \in DOMAIN from_core
            PROVE  ~Answers(from_core[i], id) /\ ~Fills(from_core[i], id)
        BY <1>2, <3>1 DEF QuantityInv, NumbersKnown, Known, Answers, Fills
      <3> QED
        BY <3>2, <3>3, <3>4
    <2>5. /\ DOMAIN orders' = DOMAIN orders \cup {id} /\ orders'[id] = order
          /\ \A r \in DOMAIN orders : r # id => orders'[r] = orders[r]
      <3> HIDE DEF order
      <3>1. /\ DOMAIN Put(orders, id, order) = DOMAIN orders \cup {id}
            /\ Put(orders, id, order)[id] = order
            /\ \A r \in DOMAIN orders : r # id => Put(orders, id, order)[r] = orders[r]
        BY DEF Put
      <3> QED
        BY <1>5, <3>1
    <2>6. /\ pending'[id] = Append(<<>>, request) /\ pending'[id] = <<request>>
          /\ \A r \in OrderId : r # id => pending'[r] = pending[r]
      BY <2>2, <2>3, <2>4
    <2>7. /\ order.side = o.side /\ order.leaves_quantity = o.quantity
          /\ order.cumulative_quantity = 0 /\ order.order_quantity = o.quantity
          /\ order.ord_status = "new" /\ request.kind = "New" /\ request.cl_ord_id = name
      OBVIOUS
    <2> HIDE DEF order, request
    <2>8. /\ s \in Request /\ s.id = id /\ s.kind = "New" /\ s.quantity = o.quantity
          /\ s.rests = may_rest(order)
      <3>1. may_rest(order) \in BOOLEAN
        BY DEF may_rest
      <3> QED
        BY <2>1, <2>5, <2>7, <3>1 DEF Sent, Request
    <2> HIDE DEF s
    <2>9. CopiesExpected'
      BY <2>2, <2>5 DEF QuantityInv, CopiesExpected, IsCopy
    <2>10. NumbersKnown'
      <3>1. ASSUME NEW n \in Nat, n < id PROVE n < id + 1
        BY <3>1 DEF OrderId
      <3>2. id \in Nat
        BY DEF OrderId
      <3>3. ASSUME NEW i \in DOMAIN from_core
            PROVE  (from_core[i].kind = "response" => from_core[i].id < id + 1)
                   /\ (from_core[i].kind = "trade" => /\ from_core[i].trade.buy < id + 1
                                                      /\ from_core[i].trade.sell < id + 1)
        <4>1. from_core[i] \in CoreMessage /\ Known(from_core[i])
          BY <2>3 DEF QuantityInv, NumbersKnown
        <4>2. /\ from_core[i].kind = "response" => from_core[i].id \in Nat
              /\ from_core[i].kind = "trade" => /\ from_core[i].trade.buy \in Nat
                                                /\ from_core[i].trade.sell \in Nat
          BY <4>1, MessageParts DEF Response, TradeMessage, OrderId, Other
        <4> QED
          BY <1>2, <3>1, <4>1, <4>2 DEF Known
      <3>4. (\A i \in DOMAIN from_core : Known(from_core[i]))'
        BY <2>2, <3>3 DEF Known
      <3>5. ASSUME NEW i \in DOMAIN to_core' PROVE to_core'[i].id < id + 1
        <4>1. \/ i \in DOMAIN to_core /\ to_core'[i] = to_core[i] /\ to_core[i] \in Request
              \/ to_core'[i] = s
          BY <2>2, <2>3, <2>8
        <4>2. CASE i \in DOMAIN to_core /\ to_core'[i] = to_core[i] /\ to_core[i] \in Request
          <5>1. to_core[i].id \in Nat
            BY <4>2 DEF Request, OrderId
          <5> QED
            BY <1>2, <3>1, <4>2, <5>1 DEF QuantityInv, NumbersKnown
        <4>3. CASE to_core'[i] = s
          BY <2>8, <3>2, <4>3
        <4> QED
          BY <4>1, <4>2, <4>3
      <3>6. ASSUME NEW r \in DOMAIN core PROVE r < id + 1
        <4>1. r \in Nat
          BY <2>3 DEF OrderId
        <4> QED
          BY <1>2, <3>1, <4>1 DEF QuantityInv, NumbersKnown
      <3>7. ASSUME NEW r \in OrderId, r >= id + 1
            PROVE  executed[r] = 0 /\ r \notin non_resting_awaiting_boundary
        <4>1. r >= id
          BY <3>2, <3>7 DEF OrderId
        <4> QED
          BY <1>2, <4>1 DEF QuantityInv, NumbersKnown
      <3> QED
        BY <2>2, <3>4, <3>5, <3>6, <3>7 DEF QuantityInv, NumbersKnown
    <2>11. SumsUp'
      <3> SUFFICES ASSUME NEW r \in DOMAIN orders'
                   PROVE  (/\ orders[r].ord_status \in {"filled", "canceled"} =>
                                 orders[r].leaves_quantity = 0
                           /\ r \notin overtaken =>
                                /\ orders[r].leaves_quantity > 0 =>
                                      orders[r].order_quantity
                                         = orders[r].cumulative_quantity + orders[r].leaves_quantity
                                /\ \A i \in DOMAIN pending[r] :
                                      pending[r][i].kind = "Replace" =>
                                         pending[r][i].total
                                            = orders[r].cumulative_quantity + pending[r][i].working)'
        BY DEF SumsUp
      <3>1. CASE r = id
        <4>1. \A i \in DOMAIN pending'[r] : pending'[r][i].kind = "New"
          BY <2>6, <2>7, <3>1
        <4>2. orders'[r].order_quantity
                 = orders'[r].cumulative_quantity + orders'[r].leaves_quantity
          BY <2>1, <2>5, <2>7, <3>1
        <4> QED
          BY <2>5, <2>7, <3>1, <4>1, <4>2
      <3>2. CASE r # id
        <4>1. r \in DOMAIN orders /\ r \in OrderId /\ orders'[r] = orders[r]
              /\ pending'[r] = pending[r]
          BY <2>3, <2>5, <2>6, <3>2 DEF IsMap
        <4> QED
          BY <2>2, <4>1 DEF QuantityInv, SumsUp
      <3> QED
        BY <3>1, <3>2
    <2>12. ASSUME NEW r \in OrderId PROVE Tracked(r)'
      <3>1. CASE r # id
        <4>1. /\ r \in DOMAIN orders' <=> r \in DOMAIN orders
              /\ r \in DOMAIN orders => orders'[r] = orders[r]
              /\ pending'[r] = pending[r]
          BY <2>5, <2>6, <3>1
        <4>2. View(r) \in Views
          BY <1>1, ViewIsView
        <4> DEFINE v == View(r)
        <4>3. /\ v.left = IF r \in DOMAIN orders THEN orders[r].leaves_quantity ELSE 0
              /\ v.cum = IF r \in DOMAIN orders THEN orders[r].cumulative_quantity ELSE 0
              /\ v.asks = pending[r]
              /\ v.waits <=> (r \in non_resting_awaiting_boundary)
              /\ v.rests <=> (r \in DOMAIN orders /\ may_rest(orders[r]))
          BY ViewFields
        <4> HIDE DEF v
        <4>4. /\ v.left = (IF r \in DOMAIN orders' THEN orders'[r].leaves_quantity ELSE 0)
              /\ v.cum = (IF r \in DOMAIN orders' THEN orders'[r].cumulative_quantity ELSE 0)
              /\ v.asks = pending'[r]
          BY <4>1, <4>3
        <4>5. /\ v.waits <=> r \in non_resting_awaiting_boundary'
              /\ v.rests <=> r \in DOMAIN orders' /\ may_rest(orders'[r])
          BY <2>2, <4>1, <4>3
        <4>6. View(r)' = v
          BY <4>2, <4>4, <4>5, NextView DEF v
        <4>7. Tracked(r)
          BY <2>2 DEF QuantityInv
        <4>8. UNCHANGED <<from_core, coreVars>>
          BY <1>3 DEF Named
        <4> QED
          BY <1>1, <2>2, <2>8, <3>1, <4>6, <4>7, <4>8, OthersAsk DEF v
      <3>2. CASE r = id
        <4> DEFINE b == may_rest(order)
                   v == [left |-> o.quantity, cum |-> 0, asks |-> <<request>>,
                         waits |-> FALSE, rests |-> b]
                   z == [left |-> o.quantity, cum |-> 0, asks |-> <<>>,
                         waits |-> FALSE, rests |-> b]
        <4>1. b \in BOOLEAN
          BY DEF may_rest
        <4> HIDE DEF b
        <4>2. v \in Views /\ z \in Views
          BY <2>1, <2>3, <4>1 DEF Views
        <4>3. /\ v.left = o.quantity /\ v.cum = 0 /\ v.asks = <<request>> /\ ~v.waits
              /\ v.rests = b /\ v.waits = FALSE
              /\ z.left = o.quantity /\ z.rests = b /\ z.asks = <<>>
          OBVIOUS
        <4> HIDE DEF v, z
        <4>4. View(r)' = v
          <5>1. /\ v.left = (IF r \in DOMAIN orders' THEN orders'[r].leaves_quantity ELSE 0)
                /\ v.cum = (IF r \in DOMAIN orders' THEN orders'[r].cumulative_quantity ELSE 0)
                /\ v.asks = pending'[r]
            BY <2>5, <2>6, <2>7, <3>2, <4>3
          <5>2. /\ v.waits <=> r \in non_resting_awaiting_boundary'
                /\ v.rests <=> r \in DOMAIN orders' /\ may_rest(orders'[r])
            BY <2>2, <2>4, <2>5, <3>2, <4>3 DEF b
          <5> QED
            BY <4>2, <5>1, <5>2, NextView
        <4>5. Takes(r, v, from_core, v)
          <5>1. \A i \in 1 .. Len(from_core) : ~Answers(from_core[i], r) /\ ~Fills(from_core[i], r)
            BY <2>3, <2>4, <3>2
          <5>2. \A i \in 1 .. Len(from_core) :
                    Fits(r, from_core[i], v) /\ Moved(r, from_core[i], v) = v
            BY <4>3, <5>1 DEF Fits, Moved
          <5> QED
            BY <2>3, <4>2, <5>2, TakesNowhere
        <4>6. Entering(v) /\ v.left > 0
          BY <2>1, <2>7, <4>3 DEF Entering
        <4>7. core_up => Awaits(to_core', r, v)
          <5>1. Awaits(to_core, r, z)
            BY <2>3, <2>4, <3>2, <4>3, AwaitsNothing
          <5>2. IsFor(s, r, request, v)
            BY <2>7, <2>8, <3>2, <4>3 DEF IsFor, b
          <5>3. v.asks = Append(z.asks, request) /\ v.left = z.left /\ v.rests = z.rests
            BY <4>3
          <5>4. Awaits(Append(to_core, s), r, v)
            BY <2>3, <2>8, <4>2, <4>3, <5>1, <5>2, <5>3, AwaitsMore
          <5> QED
            BY <2>2, <5>4
        <4>8. Ends(r, v)'
          BY <2>2, <2>4, <3>2, <4>3, <4>6, <4>7 DEF Ends
        <4> QED
          BY <2>2, <4>4, <4>5, <4>8 DEF Tracked
      <3> QED
        BY <3>1, <3>2
    <2> QED
      BY <1>1, <2>9, <2>10, <2>11, <2>12 DEF QuantityInv
  <1> QED
    BY <1>3, <1>4, <1>5

\* A cancel, sent or rejected: handle_cancel.
LEMMA CancelKeepsQuantities ==
    ASSUME QuantityInv, NEW name \in ClOrdId, NEW orig, handle_cancel(name, orig)
    PROVE  QuantityInv'
  <1> DEFINE request == [kind |-> "Cancel", cl_ord_id |-> name, total |-> 0, working |-> 0]
  <1>1. /\ request \in PendingRequest
        /\ request.kind # "New" /\ request.kind # "Replace"
    BY DEF PendingRequest
  <1>2. Named(name) /\ UNCHANGED next_numeric_order_id /\ SessionInv'
    BY CancelKeepsSession DEF handle_cancel, QuantityInv
  <1>3. CASE Reject(name)
    BY <1>2, <1>3, RejectKeepsQuantities
  <1>4. CASE /\ Working(name, orig)
             /\ UNCHANGED orders
             /\ send_core_request(clord_to_order[orig], request, 0)
    <2> HIDE DEF request
    <2>1. PICK id \in DOMAIN orders : id = clord_to_order[orig]
      BY <1>4 DEF Working
    <2>2. send_core_request(id, request, 0)
      BY <1>4, <2>1
    <2>3. /\ UNCHANGED <<phase, next_numeric_order_id, orders, trackVars, from_core, coreVars>>
          /\ phase # "closed"
      BY <1>2, <1>4 DEF Named
    <2> QED
      BY <1>1, <1>2, <2>2, <2>3, FollowUpKeepsQuantities
  <1> QED
    BY <1>3, <1>4 DEF handle_cancel

\* A replace, sent or rejected: handle_replace.
LEMMA ReplaceKeepsQuantities ==
    ASSUME QuantityInv, NEW name \in ClOrdId, NEW orig, NEW total \in 1 .. MaxQuantity,
           handle_replace(name, orig, total)
    PROVE  QuantityInv'
  <1>1. Named(name) /\ UNCHANGED next_numeric_order_id /\ SessionInv' /\ SessionInv
    BY ReplaceKeepsSession DEF handle_replace, QuantityInv
  <1>2. CASE Reject(name)
    BY <1>1, <1>2, RejectKeepsQuantities
  <1>3. CASE ~Reject(name)
    <2>1. PICK id \in DOMAIN orders : id = clord_to_order[orig]
      BY <1>3 DEF handle_replace, Working
    <2> DEFINE working == working_quantity(orders[id], total)
               request == [kind |-> "Replace", cl_ord_id |-> name, total |-> total,
                           working |-> working]
    <2>2. /\ MayReplace(orders[id], total)
          /\ UNCHANGED orders
          /\ send_core_request(id, request, working)
      BY <1>3, <2>1 DEF handle_replace
    <2>3. orders[id].cumulative_quantity \in Nat
      BY <1>1 DEF SessionInv, TypeOK, IsMap, OrderState
    <2>4. working \in Nat /\ total \in Nat /\ total = orders[id].cumulative_quantity + working
      BY <2>2, <2>3, FixBoundsAssumption DEF MayReplace, working_quantity
    <2> HIDE DEF working
    <2>5. /\ request \in PendingRequest /\ request.kind # "New" /\ request.working = working
          /\ request.total = total
      BY <2>4 DEF PendingRequest
    <2> HIDE DEF request
    <2>6. /\ UNCHANGED <<phase, next_numeric_order_id, orders, trackVars, from_core, coreVars>>
          /\ phase # "closed"
      BY <1>1, <2>2 DEF Named
    <2> QED
      BY <1>1, <2>2, <2>4, <2>5, <2>6, FollowUpKeepsQuantities
  <1> QED
    BY <1>2, <1>3

\* The end of the session.
LEMMA CloseKeepsQuantities ==
    ASSUME QuantityInv, Close
    PROVE  QuantityInv'
  <1>1. SessionInv'
    BY CloseKeepsSession DEF QuantityInv
  <1>2. /\ phase' = "closed" /\ from_core' = <<>> /\ to_core' = <<>> /\ DOMAIN orders' = {}
        /\ self_trade'.ignore = FALSE /\ non_resting_awaiting_boundary' = {}
        /\ UNCHANGED <<next_numeric_order_id, core, executed>>
    BY DEF Close, EmptyMap
  <1>3. CopiesExpected' /\ NumbersKnown' /\ SumsUp'
    BY <1>2 DEF QuantityInv, CopiesExpected, NumbersKnown, SumsUp
  <1> QED
    BY <1>1, <1>2, <1>3 DEF QuantityInv

\* The exchange hangs up: requests that it has not read are lost.
LEMMA CoreStopsKeepsQuantities ==
    ASSUME QuantityInv, SessionInv', CoreStops
    PROVE  QuantityInv'
  <1>1. /\ core_up' = FALSE /\ to_core' = <<>>
        /\ UNCHANGED <<phase, next_numeric_order_id, orders, pending,
                       non_resting_awaiting_boundary, self_trade, overtaken, from_core, core,
                       executed>>
    BY DEF CoreStops, requestVars, trackVars
  <1>2. CopiesExpected' /\ SumsUp'
    BY <1>1 DEF QuantityInv, CopiesExpected, SumsUp, IsCopy
  <1>3. NumbersKnown'
    BY <1>1 DEF QuantityInv, NumbersKnown, Known
  <1>4. ASSUME NEW id \in OrderId, Tracked(id) PROVE Tracked(id)'
    <2>1. View(id)' = View(id)
      BY <1>1 DEF View
    <2>2. PICK z : Takes(id, View(id), from_core, z) /\ Ends(id, z)
      BY <1>4 DEF Tracked
    <2>3. Ends(id, z)'
      BY <1>1, <2>2 DEF Ends
    <2> QED
      BY <1>1, <2>1, <2>2, <2>3 DEF Tracked
  <1> QED
    BY <1>1, <1>2, <1>3, <1>4 DEF QuantityInv

-----------------------------------------------------------------------------
(* What fills come to, and what their messages do *)

\* n fills of an order id.
AreFills(fills, n) ==
    /\ n \in Nat /\ DOMAIN fills = 1 .. n
    /\ \A i \in 1 .. n : /\ fills[i].quantity \in Nat /\ fills[i].quantity > 0
                         /\ fills[i].with \in OrderId \cup {Other}

\* The fills at fewer places come to less.
LEMMA TradedLess ==
    ASSUME NEW n, NEW fills, AreFills(fills, n), NEW S, NEW T, S \subseteq T, T \subseteq 1 .. n
    PROVE  /\ Traded(fills, S) \in Nat /\ Traded(fills, T) \in Nat
           /\ Traded(fills, S) <= Traded(fills, T)
  <1> DEFINE f == [i \in DOMAIN fills |-> fills[i].quantity]
  <1>1. IsFiniteSet(S) /\ IsFiniteSet(T)
    <2>1. IsFiniteSet(1 .. n)
      BY FS_Interval DEF AreFills
    <2>2. S \subseteq 1 .. n
      OBVIOUS
    <2> QED
      BY <2>1, <2>2, FS_Subset
  <1>2. Summable(f, S) /\ Summable(f, T)
    BY <1>1 DEF Summable, AreFills
  <1> HIDE DEF f
  <1>3. /\ IsFiniteSet(Units(f, T)) /\ SumOver(f, S) \in Nat /\ SumOver(f, T) \in Nat
    BY <1>2, SumIsNat
  <1>4. Units(f, S) \subseteq Units(f, T)
    BY DEF Units
  <1>5. SumOver(f, S) <= SumOver(f, T)
    BY <1>3, <1>4, FS_Subset DEF SumOver
  <1> QED
    BY <1>3, <1>5 DEF Traded, f

\* One fill after the other.
LEMMA TradedUpTo ==
    ASSUME NEW n, NEW fills, AreFills(fills, n)
    PROVE  /\ Traded(fills, 1 .. 0) = 0
           /\ Total(fills) = Traded(fills, 1 .. n)
           /\ \A i \in 0 .. n : Traded(fills, 1 .. i) \in Nat /\ Traded(fills, 1 .. i) <= Total(fills)
           /\ \A i \in 1 .. n :
                 Traded(fills, 1 .. i) = Traded(fills, 1 .. i - 1) + fills[i].quantity
  <1>1. Traded(fills, 1 .. 0) = 0
    <2>1. 1 .. 0 = {}
      OBVIOUS
    <2> QED
      BY <2>1, SumOfNone DEF Traded
  <1>2. Total(fills) = Traded(fills, 1 .. n) /\ n \in Nat
    BY DEF Total, AreFills
  <1>3. ASSUME NEW i \in 0 .. n
        PROVE  Traded(fills, 1 .. i) \in Nat /\ Traded(fills, 1 .. i) <= Total(fills)
    <2>1. 1 .. i \subseteq 1 .. n
      BY <1>2
    <2> QED
      BY <1>2, <2>1, TradedLess
  <1>4. ASSUME NEW i \in 1 .. n
        PROVE  Traded(fills, 1 .. i) = Traded(fills, 1 .. i - 1) + fills[i].quantity
    <2> DEFINE f == [j \in DOMAIN fills |-> fills[j].quantity]
    <2>0. i \in Nat /\ i >= 1
      BY <1>2
    <2>1. IsFiniteSet(1 .. i) /\ i \in 1 .. i /\ (1 .. i) \ {i} = 1 .. i - 1
      <3>1. IsFiniteSet(1 .. i)
        BY <2>0, FS_Interval
      <3>2. i \in 1 .. i /\ (1 .. i) \ {i} = 1 .. i - 1
        BY <2>0
      <3> QED
        BY <3>1, <3>2
    <2>2. Summable(f, 1 .. i) /\ f[i] = fills[i].quantity
      BY <1>2, <2>1 DEF Summable, AreFills
    <2> HIDE DEF f
    <2>3. SumOver(f, 1 .. i) = SumOver(f, (1 .. i) \ {i}) + f[i]
      BY <2>1, <2>2, SumWithout
    <2> QED
      BY <2>1, <2>2, <2>3 DEF Traded, f
  <1> QED
    BY <1>1, <1>2, <1>3, <1>4

\* An order that none, or one, of the fills is with.
LEMMA TradedWithNone ==
    ASSUME NEW n, NEW fills, AreFills(fills, n), NEW r, \A i \in 1 .. n : fills[i].with # r
    PROVE  TradedWith(fills, r) = 0
  <1>1. {i \in DOMAIN fills : fills[i].with = r} = {}
    BY DEF AreFills
  <1> QED
    BY <1>1, SumOfNone DEF TradedWith, Traded

\* The one fill that is with an order is what they have traded.
LEMMA TradedWithOne ==
    ASSUME NEW n, NEW fills, AreFills(fills, n), NEW j \in 1 .. n,
           \A i \in 1 .. n : fills[i].with = fills[j].with => i = j
    PROVE  TradedWith(fills, fills[j].with) = fills[j].quantity
  <1> DEFINE f == [i \in DOMAIN fills |-> fills[i].quantity]
  <1>1. {i \in DOMAIN fills : fills[i].with = fills[j].with} = {j}
    BY DEF AreFills
  <1>2. Summable(f, {j}) /\ f[j] = fills[j].quantity
    BY FS_Singleton DEF Summable, AreFills
  <1> HIDE DEF f
  <1>3. {j} \ {j} = {} /\ j \in {j}
    OBVIOUS
  <1>4. SumOver(f, {j}) = SumOver(f, {j} \ {j}) + f[j]
    BY <1>2, <1>3, SumWithout
  <1>5. SumOver(f, {j}) = 0 + f[j] /\ f[j] \in Nat
    BY <1>2, <1>3, <1>4, SumOfNone DEF Summable
  <1>6. SumOver(f, {j}) = f[j]
    BY <1>5
  <1> QED
    BY <1>1, <1>2, <1>6 DEF TradedWith, Traded, f

\* The message of a fill is no copy, and is about the two orders.
LEMMA TradeOfFills ==
    ASSUME NEW id \in OrderId, NEW side, NEW fill, fill.with \in OrderId \cup {Other},
           fill.quantity \in Nat, fill.with # id
    PROVE  LET m == TradeOf(id, side, fill)
           IN  /\ m \in CoreMessage /\ m.kind = "trade" /\ ~IsCopy(m)
               /\ {m.trade.buy, m.trade.sell} = {id, fill.with}
               /\ m.trade.buy # m.trade.sell
               /\ m.copies = 2 => m.trade.buy # Other /\ m.trade.sell # Other
               /\ m.trade.quantity = fill.quantity
               /\ \A r : ~Answers(m, r) /\ (Fills(m, r) <=> r \in {id, fill.with})
  <1> DEFINE m == TradeOf(id, side, fill)
             b == IF side = "Buy" THEN id ELSE fill.with
             s == IF side = "Buy" THEN fill.with ELSE id
  <1>1. m \in CoreMessage
    BY TradeOfIsTrade DEF CoreMessage
  <1>2. /\ m.kind = "trade" /\ m.trade.buy = b /\ m.trade.sell = s
        /\ m.trade.quantity = fill.quantity
        /\ m.copies = IF fill.with = Other THEN 1 ELSE 2
    BY DEF TradeOf
  <1> HIDE DEF m
  <1>3. {b, s} = {id, fill.with} /\ b # s
    OBVIOUS
  <1>4. id # Other
    BY DEF OrderId, Other
  <1>5. fill.with # Other => b # Other /\ s # Other
    BY <1>4
  <1>6. fill.with = Other => b = Other \/ s = Other
    OBVIOUS
  <1> HIDE DEF b, s
  <1>7. ~IsCopy(m) /\ (m.copies = 2 => m.trade.buy # Other /\ m.trade.sell # Other)
    BY <1>2, <1>5, <1>6 DEF IsCopy
  <1>8. \A r : ~Answers(m, r) /\ (Fills(m, r) <=> r \in {id, fill.with})
    BY <1>2, <1>3, <1>7 DEF Answers, Fills
  <1> QED
    BY <1>1, <1>2, <1>3, <1>7, <1>8 DEF m

\* The messages of the fills take the order that comes in down by all of them.
LEMMA TakerFilled ==
    ASSUME NEW n, NEW fills, AreFills(fills, n), NEW id \in OrderId, NEW side,
           \A i \in 1 .. n : fills[i].with # id,
           NEW a \in Views, Total(fills) <= a.left
    PROVE  LET t == Deliveries(id, side, fills)
           IN  /\ t \in Seq(CoreMessage)
               /\ Takes(id, a, t, [a EXCEPT !.left = a.left - Total(fills),
                                            !.cum = a.cum + Total(fills)])
  <1> DEFINE t == Deliveries(id, side, fills)
             h == [i \in 0 .. n |-> [a EXCEPT !.left = a.left - Traded(fills, 1 .. i),
                                              !.cum = a.cum + Traded(fills, 1 .. i)]]
  <1>1. /\ Traded(fills, 1 .. 0) = 0
        /\ Total(fills) = Traded(fills, 1 .. n)
        /\ \A i \in 0 .. n : Traded(fills, 1 .. i) \in Nat /\ Traded(fills, 1 .. i) <= Total(fills)
        /\ \A i \in 1 .. n : Traded(fills, 1 .. i) = Traded(fills, 1 .. i - 1) + fills[i].quantity
    BY TradedUpTo
  <1>2. a.left \in Nat /\ a.cum \in Nat /\ n \in Nat
    BY DEF Views, AreFills
  <1>3. \A i \in 1 .. n : t[i] = TradeOf(id, side, fills[i]) /\ t[i] \in CoreMessage
    BY TradeOfFills DEF AreFills, Deliveries
  <1>4. t \in Seq(CoreMessage) /\ Len(t) = n
    <2>1. DOMAIN t = 1 .. n /\ t = [i \in 1 .. n |-> t[i]]
      BY DEF Deliveries, AreFills
    <2> HIDE DEF t
    <2>2. t \in [1 .. n -> CoreMessage]
      BY <1>3, <2>1
    <2> QED
      BY <1>2, <2>2
  <1> HIDE DEF t
  <1>5. ASSUME NEW i \in 0 .. n
        PROVE  /\ h[i] \in Views
               /\ h[i] = [a EXCEPT !.left = a.left - Traded(fills, 1 .. i),
                                   !.cum = a.cum + Traded(fills, 1 .. i)]
               /\ h[i].left = a.left - Traded(fills, 1 .. i)
               /\ h[i].cum = a.cum + Traded(fills, 1 .. i)
    <2> DEFINE u == Traded(fills, 1 .. i)
    <2>1. u \in Nat /\ u <= Total(fills) /\ Total(fills) \in Nat
      BY <1>1, <1>2
    <2>2. h[i] = [a EXCEPT !.left = a.left - u, !.cum = a.cum + u]
      OBVIOUS
    <2> HIDE DEF u, h
    <2>3. a.left - u \in Nat /\ a.cum + u \in Nat
      BY <1>2, <2>1
    <2> QED
      BY <2>2, <2>3 DEF Views, u
  <1>6. h \in [0 .. n -> Views]
    BY <1>5
  <1> HIDE DEF h
  <1>7. ASSUME NEW i \in 1 .. n
        PROVE  Fits(id, t[i], h[i - 1]) /\ h[i] = Moved(id, t[i], h[i - 1])
    <2> DEFINE u == Traded(fills, 1 .. i)
               p == Traded(fills, 1 .. i - 1)
               q == fills[i].quantity
    <2>1. i \in 0 .. n /\ i - 1 \in 0 .. n
      BY <1>2
    <2>2. /\ u \in Nat /\ p \in Nat /\ q \in Nat /\ q > 0 /\ u = p + q /\ u <= Total(fills)
          /\ Total(fills) \in Nat
      BY <1>1, <1>2, <2>1 DEF AreFills
    <2>3. /\ h[i - 1] = [a EXCEPT !.left = a.left - p, !.cum = a.cum + p]
          /\ h[i] = [a EXCEPT !.left = a.left - u, !.cum = a.cum + u]
          /\ h[i - 1].left = a.left - p /\ h[i - 1].cum = a.cum + p
          /\ h[i - 1] \in Views
      BY <1>5, <2>1
    <2>4. /\ ~Answers(t[i], id) /\ Fills(t[i], id) /\ t[i].trade.quantity = q
      <3>1. /\ fills[i].with \in OrderId \cup {Other} /\ q \in Nat /\ fills[i].with # id
        BY <2>2 DEF AreFills
      <3> QED
        BY <1>3, <3>1, TradeOfFills
    <2> HIDE DEF u, p, q
    <2>5. q \in 1 .. h[i - 1].left
      BY <1>2, <2>2, <2>3
    <2>6. Fits(id, t[i], h[i - 1])
      BY <2>4, <2>5 DEF Fits
    <2>7. Moved(id, t[i], h[i - 1]) = AfterFill(h[i - 1], q)
      BY <2>4 DEF Moved
    <2>8. (a.left - p) - q = a.left - u /\ (a.cum + p) + q = a.cum + u
      BY <1>2, <2>2
    <2>9. AfterFill(h[i - 1], q)
             = [a EXCEPT !.left = (a.left - p) - q, !.cum = (a.cum + p) + q]
      BY <2>3 DEF AfterFill, Views
    <2> QED
      BY <2>3, <2>6, <2>7, <2>8, <2>9
  <1>8. h[0] = a
    <2>0. 0 \in 0 .. n
      BY <1>2
    <2>1. h[0] = [a EXCEPT !.left = a.left - 0, !.cum = a.cum + 0]
      BY <1>1, <1>5, <2>0
    <2>2. a.left - 0 = a.left /\ a.cum + 0 = a.cum
      BY <1>2
    <2> QED
      BY <2>1, <2>2 DEF Views
  <1>9. h[n] = [a EXCEPT !.left = a.left - Total(fills), !.cum = a.cum + Total(fills)]
    <2>1. n \in 0 .. n
      BY <1>2
    <2> QED
      BY <1>1, <1>5, <2>1
  <1>10. Takes(id, a, t, h[n])
    BY <1>4, <1>6, <1>7, <1>8 DEF Takes
  <1> QED
    BY <1>4, <1>9, <1>10 DEF t

\* A resting order is taken down by the one fill that it is part of, if any.
LEMMA RestingFilled ==
    ASSUME NEW n, NEW fills, AreFills(fills, n), NEW id \in OrderId, NEW side,
           \A i \in 1 .. n : fills[i].with # id,
           NEW r \in OrderId, r # id, NEW z \in Views,
           \A i \in 1 .. n : fills[i].with = r =>
               /\ fills[i].quantity <= z.left
               /\ \A j \in 1 .. i - 1 : fills[j].with # r
    PROVE  /\ TradedWith(fills, r) \in 0 .. z.left
           /\ TradedWith(fills, r) > 0 => \E i \in 1 .. n : fills[i].with = r
           /\ Takes(r, z, Deliveries(id, side, fills),
                    [z EXCEPT !.left = z.left - TradedWith(fills, r),
                              !.cum = z.cum + TradedWith(fills, r)])
  <1> DEFINE t == Deliveries(id, side, fills)
             u == TradedWith(fills, r)
             y == [z EXCEPT !.left = z.left - u, !.cum = z.cum + u]
  <1>1. z.left \in Nat /\ z.cum \in Nat /\ n \in Nat
    BY DEF Views, AreFills
  <1>2. \A i \in 1 .. n : t[i] = TradeOf(id, side, fills[i])
    BY DEF AreFills, Deliveries
  <1>3. ASSUME NEW i \in 1 .. n
        PROVE  /\ t[i] \in CoreMessage /\ t[i].kind = "trade" /\ ~Answers(t[i], r)
               /\ Fills(t[i], r) <=> fills[i].with = r
               /\ t[i].trade.quantity = fills[i].quantity
    <2>1. /\ fills[i].with \in OrderId \cup {Other} /\ fills[i].quantity \in Nat
          /\ fills[i].with # id
      BY DEF AreFills
    <2> HIDE DEF t
    <2> QED
      BY <1>2, <2>1, TradeOfFills
  <1>4. t \in Seq(CoreMessage) /\ Len(t) = n
    <2>1. DOMAIN t = 1 .. n /\ t = [i \in 1 .. n |-> t[i]]
      BY DEF Deliveries, AreFills
    <2> HIDE DEF t
    <2>2. t \in [1 .. n -> CoreMessage]
      BY <1>3, <2>1
    <2> QED
      BY <1>1, <2>2
  <1> HIDE DEF t
  <1>5. CASE \A i \in 1 .. n : fills[i].with # r
    <2>1. u = 0
      BY <1>5, TradedWithNone
    <2> HIDE DEF u
    <2>2. z.left - u = z.left /\ z.cum + u = z.cum /\ u \in 0 .. z.left /\ ~(u > 0)
      BY <1>1, <2>1
    <2>3. y = z
      BY <2>2 DEF Views
    <2>4. \A i \in 1 .. n : Fits(r, t[i], z) /\ Moved(r, t[i], z) = z
      BY <1>3, <1>5 DEF Fits, Moved
    <2>5. Takes(r, z, t, z)
      BY <1>4, <2>4, TakesNowhere
    <2> QED
      BY <2>2, <2>3, <2>5 DEF t, u
  <1>6. ASSUME NEW k \in 1 .. n, fills[k].with = r
        PROVE  u \in 0 .. z.left /\ Takes(r, z, t, y)
    <2> DEFINE q == fills[k].quantity
    <2>1. \A i \in 1 .. n : fills[i].with = fills[k].with => i = k
      <3> SUFFICES ASSUME NEW i \in 1 .. n, fills[i].with = r, i # k PROVE FALSE
        BY <1>6
      <3>1. CASE i < k
        <4>1. i \in 1 .. k - 1
          BY <1>1, <3>1
        <4> QED
          BY <1>6, <4>1
      <3>2. CASE ~(i < k)
        <4>1. k \in 1 .. i - 1
          BY <1>1, <3>2
        <4> QED
          BY <1>6, <4>1
      <3> QED
        BY <3>1, <3>2
    <2>2. u = q
      BY <1>6, <2>1, TradedWithOne
    <2>3. q \in Nat /\ q > 0 /\ q <= z.left /\ q \in 1 .. z.left /\ q \in 0 .. z.left
      BY <1>1, <1>6 DEF AreFills
    <2>4. y = AfterFill(z, q)
      BY <2>2 DEF AfterFill
    <2>5. AfterFill(z, q) \in Views
      <3>1. z.left - q \in Nat /\ z.cum + q \in Nat
        BY <1>1, <2>3
      <3> QED
        BY <3>1 DEF AfterFill, Views
    <2> HIDE DEF q, u, y
    <2> DEFINE h == [i \in 0 .. n |-> IF i < k THEN z ELSE y]
    <2>6. /\ h \in [0 .. n -> Views] /\ h[0] = z /\ h[n] = y
          /\ \A i \in 0 .. n : h[i] = IF i < k THEN z ELSE y
      BY <1>1, <2>4, <2>5
    <2> HIDE DEF h
    <2>7. ASSUME NEW i \in 1 .. n
          PROVE  Fits(r, t[i], h[i - 1]) /\ h[i] = Moved(r, t[i], h[i - 1])
      <3>1. CASE i = k
        <4>1. h[i] = y /\ h[i - 1] = z
          <5>1. i \in 0 .. n /\ i - 1 \in 0 .. n /\ ~(i < k) /\ i - 1 < k
            BY <1>1, <3>1
          <5> QED
            BY <2>6, <5>1
        <4>2. /\ ~Answers(t[i], r) /\ Fills(t[i], r) /\ t[i].trade.quantity = q
          BY <1>3, <1>6, <3>1 DEF q
        <4>3. Fits(r, t[i], z) /\ Moved(r, t[i], z) = y
          BY <2>3, <2>4, <4>2 DEF Fits, Moved
        <4> QED
          BY <4>1, <4>3
      <3>2. CASE i # k
        <4>1. h[i] = h[i - 1]
          <5>1. i \in 0 .. n /\ i - 1 \in 0 .. n /\ (i < k <=> i - 1 < k)
            BY <1>1, <3>2
          <5> QED
            BY <2>6, <5>1
        <4>2. ~Answers(t[i], r) /\ ~Fills(t[i], r) /\ t[i].kind = "trade"
          BY <1>3, <1>6, <2>1, <3>2
        <4> QED
          BY <4>1, <4>2 DEF Fits, Moved
      <3> QED
        BY <3>1, <3>2
    <2>8. Takes(r, z, t, y)
      BY <1>4, <2>6, <2>7 DEF Takes
    <2> QED
      BY <2>2, <2>3, <2>8
  <1> QED
    BY <1>5, <1>6 DEF t, u, y

\* What is left of the book.
LEMMA LessFilledParts ==
    ASSUME NEW book, NEW fills, NEW r
    PROVE  /\ r \in DOMAIN LessFilled(book, fills) <=>
                 r \in DOMAIN book /\ book[r].left > TradedWith(fills, r)
           /\ r \in DOMAIN LessFilled(book, fills) =>
                 LessFilled(book, fills)[r]
                    = [book[r] EXCEPT !.left = book[r].left - TradedWith(fills, r)]
  BY DEF LessFilled

-----------------------------------------------------------------------------
(* The exchange *)

\* When the oldest request of an order has been answered, its entry is not to come.
LEMMA EnteredOnce ==
    ASSUME NEW q, NEW id, NEW z \in Views, Awaits(q, id, z), z.asks # <<>>,
           NEW y, y.asks = Tail(z.asks)
    PROVE  ~Entering(y)
  <1>1. z.asks \in Seq(PendingRequest)
    BY DEF Views
  <1>2. \A k \in 1 .. Len(z.asks) : z.asks[k].kind = "New" => k = 1
    BY DEF Awaits
  <1>3. y.asks # <<>> => Head(y.asks) = z.asks[2] /\ 2 \in 1 .. Len(z.asks)
    BY <1>1
  <1> QED
    BY <1>2, <1>3 DEF Entering

\* What the exchange appends keeps every order on its way, when it takes an order from the
\* end of one way to the end of another.
LEMMA ExchangeKeepsQuantities ==
    ASSUME QuantityInv, SessionInv', phase # "closed",
           NEW t \in Seq(CoreMessage), from_core' = from_core \o t,
           UNCHANGED <<phase, next_numeric_order_id, orders, requestVars, trackVars>>,
           to_core' = to_core \/ (to_core # <<>> /\ to_core' = Tail(to_core)),
           \A i \in 1 .. Len(t) :
               /\ Known(t[i])
               /\ t[i].kind = "trade" =>
                     /\ ~IsCopy(t[i]) /\ t[i].trade.buy # t[i].trade.sell
                     /\ t[i].copies = 2 => t[i].trade.buy # Other /\ t[i].trade.sell # Other,
           executed' \in [OrderId -> Nat],
           \A id \in DOMAIN core' : id < next_numeric_order_id,
           \A id \in OrderId : id >= next_numeric_order_id => executed'[id] = 0,
           \A r \in OrderId : \A z \in Views :
               Ends(r, z) => \E y : Takes(r, z, t, y) /\ Ends(r, y)'
    PROVE  QuantityInv'
  <1>1. /\ from_core \in Seq(CoreMessage) /\ to_core \in Seq(Request) /\ SessionInv
    BY DEF QuantityInv, SessionInv, ConnectionType
  <1>2. UNCHANGED <<orders, pending, non_resting_awaiting_boundary, self_trade, overtaken>>
    BY DEF requestVars, trackVars
  <1>3. \A i \in DOMAIN from_core' :
            \/ i \in DOMAIN from_core /\ from_core'[i] = from_core[i]
            \/ \E j \in 1 .. Len(t) : from_core'[i] = t[j]
    <2> SUFFICES ASSUME NEW i \in DOMAIN from_core'
                 PROVE  \/ i \in DOMAIN from_core /\ from_core'[i] = from_core[i]
                        \/ \E j \in 1 .. Len(t) : from_core'[i] = t[j]
      OBVIOUS
    <2>1. i \in 1 .. Len(from_core) + Len(t) /\ Len(from_core) \in Nat /\ Len(t) \in Nat
          /\ DOMAIN from_core = 1 .. Len(from_core)
      BY <1>1
    <2>2. CASE i <= Len(from_core)
      BY <1>1, <2>1, <2>2
    <2>3. CASE ~(i <= Len(from_core))
      <3>1. i - Len(from_core) \in 1 .. Len(t) /\ from_core'[i] = t[i - Len(from_core)]
        BY <1>1, <2>1, <2>3
      <3> QED
        BY <3>1
    <2> QED
      BY <2>2, <2>3
  <1>4. CopiesExpected'
    <2>1. self_trade.ignore => from_core' # <<>> /\ Head(from_core') = Head(from_core)
      BY <1>1 DEF QuantityInv, CopiesExpected
    <2>2. ASSUME NEW i \in DOMAIN from_core', from_core'[i].kind = "trade"
          PROVE  /\ from_core'[i].trade.buy # from_core'[i].trade.sell
                 /\ from_core'[i].copies = 2 => /\ from_core'[i].trade.buy # Other
                                                /\ from_core'[i].trade.sell # Other
                 /\ IsCopy(from_core'[i]) =>
                       /\ i = 1
                       /\ self_trade = [trade |-> from_core'[i].trade, ignore |-> TRUE]
                       /\ {from_core'[i].trade.buy, from_core'[i].trade.sell} \subseteq DOMAIN orders
      <3>1. CASE i \in DOMAIN from_core /\ from_core'[i] = from_core[i]
        BY <2>2, <3>1 DEF QuantityInv, CopiesExpected
      <3>2. CASE \E j \in 1 .. Len(t) : from_core'[i] = t[j]
        BY <2>2, <3>2
      <3> QED
        BY <1>3, <3>1, <3>2
    <2> QED
      BY <1>2, <2>1, <2>2 DEF QuantityInv, CopiesExpected, IsCopy
  <1>5. NumbersKnown'
    <2>1. \A i \in DOMAIN from_core' : Known(from_core'[i])
      BY <1>3 DEF QuantityInv, NumbersKnown
    <2>2. (\A i \in DOMAIN from_core : Known(from_core[i]))'
      BY <2>1 DEF Known
    <2>3. \A i \in DOMAIN to_core' : to_core'[i].id < next_numeric_order_id
      <3>1. \A i \in DOMAIN to_core' : \E j \in DOMAIN to_core : to_core'[i] = to_core[j]
        <4>1. CASE to_core' = to_core
          BY <4>1
        <4>2. CASE to_core # <<>> /\ to_core' = Tail(to_core)
          <5>1. \A i \in DOMAIN to_core' : i + 1 \in DOMAIN to_core /\ to_core'[i] = to_core[i + 1]
            BY <1>1, <4>2
          <5> QED
            BY <5>1
        <4> QED
          BY <4>1, <4>2
      <3> QED
        BY <3>1 DEF QuantityInv, NumbersKnown
    <2> QED
      BY <1>2, <2>2, <2>3 DEF QuantityInv, NumbersKnown
  <1>6. SumsUp'
    BY <1>2 DEF QuantityInv, SumsUp
  <1>7. ASSUME NEW r \in OrderId PROVE Tracked(r)'
    <2>1. View(r)' = View(r)
      BY <1>2 DEF View
    <2>2. PICK z : Takes(r, View(r), from_core, z) /\ Ends(r, z)
      BY DEF QuantityInv, Tracked
    <2>3. z \in Views
      BY <1>1, <2>2, TakesViews
    <2>4. PICK y : Takes(r, z, t, y) /\ Ends(r, y)'
      BY <2>2, <2>3
    <2>5. Takes(r, View(r)', from_core', y)
      BY <1>1, <2>1, <2>2, <2>4, TakesThen
    <2> QED
      BY <2>4, <2>5 DEF Tracked
  <1> QED
    BY <1>4, <1>5, <1>6, <1>7 DEF QuantityInv

\* The messages of one request: the answer, the trades, and the update when it was accepted.
Told(id, success) == [kind |-> "response", id |-> id, success |-> success]
Updated == [kind |-> "book_update"]
Bunch(id, success, trades) ==
    (<<Told(id, success)>> \o trades) \o (IF success THEN <<Updated>> ELSE <<>>)

\* A sequence with one more in front.
LEMMA FirstAndRest ==
    ASSUME NEW S, NEW x \in S, NEW s \in Seq(S)
    PROVE  /\ <<x>> \o s \in Seq(S) /\ Len(<<x>> \o s) = 1 + Len(s) /\ (<<x>> \o s)[1] = x
           /\ \A j \in 1 .. Len(s) : (<<x>> \o s)[1 + j] = s[j]
           /\ Len(s) \in Nat
  OBVIOUS

\* What is sent for a request, and where an order is when it has been read.
LEMMA BunchSent ==
    ASSUME SessionInv, NEW id \in OrderId, NEW success \in BOOLEAN,
           NEW trades \in Seq(CoreMessage), CoreSends(id, success, trades)
    PROVE  /\ Bunch(id, success, trades) \in Seq(CoreMessage)
           /\ from_core' = from_core \o Bunch(id, success, trades)
           /\ \A i \in 1 .. Len(Bunch(id, success, trades)) :
                 \/ Bunch(id, success, trades)[i] \in {Told(id, success), Updated}
                 \/ \E j \in 1 .. Len(trades) : Bunch(id, success, trades)[i] = trades[j]
  <1> DEFINE a == <<Told(id, success)>>
             c == IF success THEN <<Updated>> ELSE <<>>
  <1>1. Told(id, success) \in CoreMessage /\ Updated \in CoreMessage
    BY DEF Told, Updated, CoreMessage, Response, BookUpdate
  <1>2. /\ a \in Seq(CoreMessage) /\ Len(a) = 1 /\ a[1] = Told(id, success)
    BY <1>1
  <1>3. c \in Seq(CoreMessage) /\ \A i \in 1 .. Len(c) : c[i] = Updated
    BY <1>1
  <1>4. from_core \in Seq(CoreMessage)
    BY DEF SessionInv, ConnectionType
  <1>5. from_core' = ((from_core \o a) \o trades) \o c
    BY DEF CoreSends, Told, Updated
  <1>6. Bunch(id, success, trades) = (a \o trades) \o c
    BY DEF Bunch
  <1> HIDE DEF a, c
  <1>7. (a \o trades) \o c \in Seq(CoreMessage)
    BY <1>2, <1>3
  <1>8. from_core' = from_core \o ((a \o trades) \o c)
    <2>1. (from_core \o a) \o trades = from_core \o (a \o trades)
      BY <1>2, <1>4
    <2>2. (from_core \o (a \o trades)) \o c = from_core \o ((a \o trades) \o c)
      <3> DEFINE b == a \o trades
      <3>1. b \in Seq(CoreMessage)
        BY <1>2
      <3> HIDE DEF b
      <3>2. (from_core \o b) \o c = from_core \o (b \o c)
        BY <1>3, <1>4, <3>1
      <3> QED
        BY <3>2 DEF b
    <2> QED
      BY <1>5, <2>1, <2>2
  <1>9. ASSUME NEW i \in 1 .. Len((a \o trades) \o c)
        PROVE  \/ ((a \o trades) \o c)[i] \in {Told(id, success), Updated}
               \/ \E j \in 1 .. Len(trades) : ((a \o trades) \o c)[i] = trades[j]
    <2> DEFINE b == a \o trades
    <2>1. /\ b \in Seq(CoreMessage) /\ Len(b) = 1 + Len(trades) /\ b[1] = Told(id, success)
          /\ \A j \in 1 .. Len(trades) : b[1 + j] = trades[j]
          /\ Len(trades) \in Nat
      BY <1>1, FirstAndRest DEF a
    <2> HIDE DEF b
    <2>2. i \in 1 .. Len(b \o c)
      BY DEF b
    <2>3. CASE i = 1
      BY <1>3, <2>1, <2>2, <2>3 DEF b
    <2>4. CASE i > 1 /\ i <= Len(b)
      <3>1. i - 1 \in 1 .. Len(trades) /\ (b \o c)[i] = b[i] /\ 1 + (i - 1) = i
        BY <1>3, <2>1, <2>2, <2>4
      <3>2. (b \o c)[i] = trades[i - 1]
        BY <2>1, <3>1
      <3> QED
        BY <3>1, <3>2 DEF b
    <2>5. CASE i > Len(b)
      <3>1. i - Len(b) \in 1 .. Len(c) /\ (b \o c)[i] = c[i - Len(b)]
        BY <1>3, <2>1, <2>2, <2>5
      <3> QED
        BY <1>3, <3>1 DEF b
    <2>6. i \in Nat /\ i >= 1 /\ Len(b) \in Nat
      BY <1>3, <2>1, <2>2
    <2> QED
      BY <2>3, <2>4, <2>5, <2>6
  <1> QED
    BY <1>6, <1>7, <1>8, <1>9

\* What is sent for a request takes an order past the answer, the trades and the update.
LEMMA BunchTakes ==
    ASSUME NEW id \in OrderId, NEW success \in BOOLEAN, NEW trades \in Seq(CoreMessage),
           NEW r, NEW z \in Views, Fits(r, Told(id, success), z), NEW b \in Views,
           Takes(r, Moved(r, Told(id, success), z), trades, b)
    PROVE  /\ success /\ b.waits =>
                 Takes(r, z, Bunch(id, success, trades), [b EXCEPT !.left = 0, !.waits = FALSE])
           /\ ~(success /\ b.waits) => Takes(r, z, Bunch(id, success, trades), b)
  <1> DEFINE a == <<Told(id, success)>>
             c == IF success THEN <<Updated>> ELSE <<>>
             y == IF success /\ b.waits THEN [b EXCEPT !.left = 0, !.waits = FALSE] ELSE b
  <1>1. Told(id, success) \in CoreMessage /\ Updated \in CoreMessage
    BY DEF Told, Updated, CoreMessage, Response, BookUpdate
  <1>2. a \in Seq(CoreMessage) /\ c \in Seq(CoreMessage)
    BY <1>1
  <1>3. Takes(r, z, a, Moved(r, Told(id, success), z))
    BY <1>1, TakesOne
  <1>4. Takes(r, b, c, y)
    <2>1. CASE success
      <3>1. Fits(r, Updated, b)
        BY DEF Fits, Answers, Fills, Updated
      <3>2. Moved(r, Updated, b) = y
        BY <2>1 DEF Moved, Answers, Fills, Updated
      <3>3. Takes(r, b, <<Updated>>, Moved(r, Updated, b))
        BY <1>1, <3>1, TakesOne
      <3> HIDE DEF y
      <3> QED
        BY <2>1, <3>2, <3>3
    <2>2. CASE ~success
      BY <2>2, TakesNone
    <2> QED
      BY <2>1, <2>2
  <1>5. Bunch(id, success, trades) = (a \o trades) \o c
    BY DEF Bunch
  <1> HIDE DEF a, c, y
  <1>6. a \o trades \in Seq(CoreMessage)
    BY <1>2
  <1>7. Takes(r, z, a \o trades, b)
    BY <1>2, <1>3, TakesThen
  <1>8. Takes(r, z, (a \o trades) \o c, y)
    BY <1>2, <1>4, <1>6, <1>7, TakesThen
  <1> QED
    BY <1>5, <1>8 DEF y

\* The end of the way of an order that the request is not about.
LEMMA OtherEnds ==
    ASSUME SessionInv, NEW kind, NEW success, CoreTakes(kind, success),
           NEW r \in OrderId, r # Head(to_core).id, NEW z \in Views, Ends(r, z),
           NEW y \in Views, y.asks = z.asks, ~y.waits, y.rests = z.rests,
           y.cum = executed'[r],
           r \in DOMAIN core' => y.left = core'[r].left /\ y.left > 0,
           r \notin DOMAIN core' /\ ~Entering(z) => y.left = 0,
           Entering(z) => r \notin DOMAIN core' /\ y.left = z.left /\ y.cum = 0
    PROVE  Ends(r, y)'
  <1>1. /\ to_core \in Seq(Request) /\ to_core # <<>> /\ to_core' = Tail(to_core)
        /\ core_up /\ core_up'
    BY DEF SessionInv, ConnectionType, CoreTakes
  <1>2. Entering(y) <=> Entering(z)
    BY DEF Entering
  <1>3. Awaits(Tail(to_core), r, z)
    BY <1>1, AwaitsNext DEF Ends
  <1>4. Awaits(Tail(to_core), r, y)
    BY <1>3, AwaitsSame
  <1>5. Entering(z) => z.left > 0
    BY DEF Ends
  <1> QED
    BY <1>1, <1>2, <1>4, <1>5 DEF Ends

\* The end of the way of the order that it is about.
LEMMA OwnEnds ==
    ASSUME SessionInv, NEW kind, NEW success, CoreTakes(kind, success),
           NEW id \in OrderId, id = Head(to_core).id, NEW z \in Views, Ends(id, z),
           NEW y \in Views, y.asks = Tail(z.asks), ~y.waits, y.cum = executed'[id],
           id \in DOMAIN core' => y.left = core'[id].left /\ y.left > 0,
           id \notin DOMAIN core' => y.left = 0
    PROVE  Ends(id, y)'
  <1>1. /\ to_core \in Seq(Request) /\ to_core # <<>> /\ to_core' = Tail(to_core)
        /\ core_up /\ core_up'
    BY DEF SessionInv, ConnectionType, CoreTakes
  <1>2. Awaits(to_core, id, z)
    BY <1>1 DEF Ends
  <1>3. z.asks # <<>> /\ Awaits(Tail(to_core), id, y)
    BY <1>1, <1>2, AwaitsNext
  <1>4. ~Entering(y)
    BY <1>2, <1>3, EnteredOnce
  <1> QED
    BY <1>1, <1>3, <1>4 DEF Ends

\* Where an order is when the answer m to its oldest request has been read.
LEMMA AnswerFits ==
    ASSUME SessionInv, core_up, to_core # <<>>,
           NEW id \in OrderId, id = Head(to_core).id, NEW z \in Views, Ends(id, z),
           NEW m \in Response, m.id = id,
           m.success /\ Head(to_core).kind # "New" => id \in DOMAIN core,
           NEW a, a = Moved(id, m, z)
    PROVE  /\ Fits(id, m, z)
           /\ a \in Views /\ a.cum = z.cum /\ a.asks = Tail(z.asks)
           /\ Entering(z) <=> Head(to_core).kind = "New"
           /\ a.waits <=> m.success /\ Head(to_core).kind = "New" /\ ~Head(to_core).rests
           /\ m.success => a.left = IF Head(to_core).kind = "Cancel" THEN 0
                                    ELSE Head(to_core).quantity
           /\ ~m.success => a.left = IF Head(to_core).kind = "New" THEN 0 ELSE z.left
  <1> DEFINE h == Head(z.asks)
             kind == Head(to_core).kind
             success == m.success
  <1>1. to_core \in Seq(Request) /\ Head(to_core) \in Request
    BY DEF SessionInv, ConnectionType
  <1>2. z.asks # <<>> /\ IsFor(Head(to_core), id, h, z)
    BY <1>1, AwaitsNext DEF Ends
  <1>3. /\ h.kind = kind /\ kind \in {"New", "Cancel", "Replace"}
        /\ kind = "Replace" => Head(to_core).quantity = h.working
        /\ kind = "New" => Head(to_core).quantity = z.left /\ Head(to_core).rests = z.rests
    BY <1>1, <1>2 DEF IsFor, Request
  <1>4. Entering(z) <=> kind = "New"
    BY <1>2, <1>3 DEF Entering
  <1>5. /\ m \in CoreMessage /\ Answers(m, id) /\ ~Fills(m, id) /\ m.success \in BOOLEAN
    BY DEF CoreMessage, Response, Answers, Fills
  <1>6. Fits(id, m, z)
    BY <1>2, <1>4, <1>5 DEF Fits, Ends
  <1>7. a \in Views
    BY <1>5, <1>6, MovedIsView
  <1>8. a = AfterAnswer(z, success)
    BY <1>5 DEF Moved
  <1> HIDE DEF kind, success
  <1>9. /\ a.left = (IF kind = "New" THEN IF success THEN z.left ELSE 0
                     ELSE IF ~success THEN z.left
                     ELSE IF kind = "Cancel" THEN 0 ELSE h.working)
        /\ a.cum = z.cum /\ a.asks = Tail(z.asks)
        /\ a.waits <=> z.waits \/ (success /\ kind = "New" /\ ~z.rests)
    <2> DEFINE l == IF kind = "New" THEN IF success THEN z.left ELSE 0
                    ELSE IF ~success THEN z.left
                    ELSE IF kind = "Cancel" THEN 0 ELSE h.working
               w == z.waits \/ (success /\ kind = "New" /\ ~z.rests)
               b == z.rests /\ (success \/ kind # "New")
    <2>1. a = [left |-> l, cum |-> z.cum, asks |-> Tail(z.asks), waits |-> w, rests |-> b]
      BY <1>3, <1>8, Zenon DEF AfterAnswer
    <2> HIDE DEF l, w, b
    <2> DEFINE rec == [left |-> l, cum |-> z.cum, asks |-> Tail(z.asks), waits |-> w,
                       rests |-> b]
    <2>2. rec.left = l /\ rec.cum = z.cum /\ rec.asks = Tail(z.asks) /\ rec.waits = w
      OBVIOUS
    <2> HIDE DEF rec
    <2>3. a = rec
      BY <2>1, Zenon DEF rec
    <2>4. a.left = l /\ a.cum = z.cum /\ a.asks = Tail(z.asks) /\ (a.waits <=> w)
      BY <2>2, <2>3, Zenon
    <2> QED
      BY <2>4, Zenon DEF l, w
  <1>10. ~z.waits /\ (z.rests \in BOOLEAN)
    BY DEF Ends, Views
  <1> HIDE DEF h
  <1>11. a.waits <=> success /\ kind = "New" /\ ~Head(to_core).rests
    BY <1>3, <1>9, <1>10
  <1>12. /\ success => a.left = IF kind = "Cancel" THEN 0 ELSE Head(to_core).quantity
         /\ ~success => a.left = IF kind = "New" THEN 0 ELSE z.left
    BY <1>3, <1>9
  <1>13. a.cum = z.cum /\ a.asks = Tail(z.asks)
    BY <1>9
  <1> QED
    BY <1>4, <1>6, <1>7, <1>11, <1>12, <1>13, Zenon DEF kind, success

\* An order that an answer is not about does not move.
LEMMA AnswerToOthers ==
    ASSUME NEW id, NEW success \in BOOLEAN, NEW r, r # id, NEW z
    PROVE  Fits(r, Told(id, success), z) /\ Moved(r, Told(id, success), z) = z
  BY DEF Told, Fits, Moved, Answers, Fills

\* The two answers one by one: the request is refused.
LEMMA Refused ==
    ASSUME SessionInv, NEW kind, CoreTakes(kind, FALSE),
           NEW id \in OrderId, id = Head(to_core).id, NEW z \in Views, Ends(id, z),
           NEW a, a = Moved(id, Told(id, FALSE), z)
    PROVE  /\ Fits(id, Told(id, FALSE), z)
           /\ a \in Views /\ a.cum = z.cum /\ a.asks = Tail(z.asks) /\ ~a.waits
           /\ a.left = IF kind = "New" THEN 0 ELSE z.left
           /\ Entering(z) <=> kind = "New"
  <1> DEFINE m == Told(id, FALSE)
  <1>1. core_up /\ to_core # <<>> /\ Head(to_core).kind = kind
    BY DEF CoreTakes
  <1>2. m \in Response /\ m.id = id /\ ~m.success
    BY DEF Told, Response
  <1> HIDE DEF m
  <1>3. a = Moved(id, m, z)
    BY DEF m
  <1>4. /\ Fits(id, m, z)
        /\ a \in Views /\ a.cum = z.cum /\ a.asks = Tail(z.asks) /\ ~a.waits
        /\ a.left = IF kind = "New" THEN 0 ELSE z.left
        /\ Entering(z) <=> kind = "New"
    <2>1. m.success /\ Head(to_core).kind # "New" => id \in DOMAIN core
      BY <1>1, <1>2
    <2>2. /\ Fits(id, m, z)
          /\ a \in Views /\ a.cum = z.cum /\ a.asks = Tail(z.asks)
          /\ Entering(z) <=> Head(to_core).kind = "New"
          /\ a.waits <=> m.success /\ Head(to_core).kind = "New" /\ ~Head(to_core).rests
          /\ m.success => a.left = IF Head(to_core).kind = "Cancel" THEN 0
                                   ELSE Head(to_core).quantity
          /\ ~m.success => a.left = IF Head(to_core).kind = "New" THEN 0 ELSE z.left
      BY <1>1, <1>2, <1>3, <2>1, AnswerFits, Zenon
    <2> QED
      BY <1>1, <1>2, <2>2
  <1> QED
    BY <1>4, Zenon DEF m

\* The request is accepted.
LEMMA Accepted ==
    ASSUME SessionInv, NEW kind, CoreTakes(kind, TRUE),
           NEW id \in OrderId, id = Head(to_core).id, NEW z \in Views, Ends(id, z),
           kind # "New" => id \in DOMAIN core,
           NEW a, a = Moved(id, Told(id, TRUE), z)
    PROVE  /\ Fits(id, Told(id, TRUE), z)
           /\ a \in Views /\ a.cum = z.cum /\ a.asks = Tail(z.asks)
           /\ a.waits <=> kind = "New" /\ ~Head(to_core).rests
           /\ a.left = IF kind = "Cancel" THEN 0 ELSE Head(to_core).quantity
           /\ Entering(z) <=> kind = "New"
  <1> DEFINE m == Told(id, TRUE)
  <1>1. core_up /\ to_core # <<>> /\ Head(to_core).kind = kind
    BY DEF CoreTakes
  <1>2. m \in Response /\ m.id = id /\ m.success
    BY DEF Told, Response
  <1> HIDE DEF m
  <1>3. a = Moved(id, m, z)
    BY DEF m
  <1>4. /\ Fits(id, m, z)
        /\ a \in Views /\ a.cum = z.cum /\ a.asks = Tail(z.asks)
        /\ a.waits <=> kind = "New" /\ ~Head(to_core).rests
        /\ a.left = IF kind = "Cancel" THEN 0 ELSE Head(to_core).quantity
        /\ Entering(z) <=> kind = "New"
    <2>1. m.success /\ Head(to_core).kind # "New" => id \in DOMAIN core
      BY <1>1, <1>2
    <2>2. /\ Fits(id, m, z)
          /\ a \in Views /\ a.cum = z.cum /\ a.asks = Tail(z.asks)
          /\ Entering(z) <=> Head(to_core).kind = "New"
          /\ a.waits <=> m.success /\ Head(to_core).kind = "New" /\ ~Head(to_core).rests
          /\ m.success => a.left = IF Head(to_core).kind = "Cancel" THEN 0
                                   ELSE Head(to_core).quantity
          /\ ~m.success => a.left = IF Head(to_core).kind = "New" THEN 0 ELSE z.left
      BY <1>1, <1>2, <1>3, <2>1, AnswerFits, Zenon
    <2> QED
      BY <1>1, <1>2, <2>2
  <1> QED
    BY <1>4, Zenon DEF m

\* What the messages of a request say is of orders that have numbers.
LEMMA RequestKnown ==
    ASSUME QuantityInv, NEW kind, NEW success \in BOOLEAN, CoreTakes(kind, success)
    PROVE  /\ Head(to_core) \in Request /\ Head(to_core).id \in OrderId
           /\ to_core # <<>> /\ to_core' = Tail(to_core) /\ phase # "closed"
           /\ UNCHANGED <<phase, next_numeric_order_id, orders, requestVars, trackVars>>
           /\ Known(Told(Head(to_core).id, success)) /\ Known(Updated)
           /\ Told(Head(to_core).id, success).kind # "trade" /\ Updated.kind # "trade"
  <1>1. SessionInv /\ ConnectionType
    BY DEF QuantityInv, SessionInv
  <1>2. /\ to_core \in Seq(Request) /\ to_core # <<>> /\ to_core' = Tail(to_core)
        /\ phase # "closed"
    BY <1>1 DEF ConnectionType, CoreTakes
  <1>3. /\ Head(to_core) \in Request
        /\ UNCHANGED <<phase, next_numeric_order_id, orders, requestVars, trackVars>>
    BY <1>1, CoreTakesRequest
  <1>4. 1 \in DOMAIN to_core /\ to_core[1] = Head(to_core)
    BY <1>2
  <1>5. Head(to_core).id < next_numeric_order_id
    BY <1>4 DEF QuantityInv, NumbersKnown
  <1>6. Head(to_core).id \in OrderId
    BY <1>3 DEF Request
  <1> QED
    BY <1>2, <1>3, <1>5, <1>6 DEF Known, Told, Updated

\* A request that the exchange refuses.
LEMMA RefusalKeepsQuantities ==
    ASSUME QuantityInv, SessionInv', NEW kind, CoreRejects(kind)
    PROVE  QuantityInv'
  <1>1. /\ CoreTakes(kind, FALSE) /\ CoreSends(Head(to_core).id, FALSE, <<>>)
        /\ UNCHANGED <<core, executed>> /\ SessionInv
    BY DEF CoreRejects, QuantityInv
  <1>2. PICK id \in OrderId : id = Head(to_core).id
    BY <1>1, RequestKnown
  <1> DEFINE t == Bunch(id, FALSE, <<>>)
  <1>3. /\ to_core # <<>> /\ to_core' = Tail(to_core) /\ phase # "closed"
        /\ UNCHANGED <<phase, next_numeric_order_id, orders, requestVars, trackVars>>
        /\ Known(Told(id, FALSE)) /\ Known(Updated)
        /\ Told(id, FALSE).kind # "trade" /\ Updated.kind # "trade"
    BY <1>1, <1>2, RequestKnown
  <1>4. <<>> \in Seq(CoreMessage) /\ FALSE \in BOOLEAN
    OBVIOUS
  <1>5. /\ t \in Seq(CoreMessage) /\ from_core' = from_core \o t
        /\ \A i \in 1 .. Len(t) : t[i] \in {Told(id, FALSE), Updated}
    <2>1. /\ t \in Seq(CoreMessage) /\ from_core' = from_core \o t
          /\ \A i \in 1 .. Len(t) : \/ t[i] \in {Told(id, FALSE), Updated}
                                    \/ \E j \in 1 .. Len(<<>>) : t[i] = <<>>[j]
      BY <1>1, <1>2, <1>4, BunchSent
    <2> HIDE DEF t
    <2>2. 1 .. Len(<<>>) = {}
      OBVIOUS
    <2> QED
      BY <2>1, <2>2
  <1>6. ASSUME NEW r \in OrderId, NEW z \in Views, Ends(r, z)
        PROVE  \E y : Takes(r, z, t, y) /\ Ends(r, y)'
    <2> DEFINE a == Moved(r, Told(id, FALSE), z)
    <2>1. CASE r # id
      <3>1. Fits(r, Told(id, FALSE), z) /\ a = z
        BY <2>1, AnswerToOthers
      <3> HIDE DEF a
      <3>2. Takes(r, z, t, z)
        <4>1. Takes(r, Moved(r, Told(id, FALSE), z), <<>>, z)
          BY <3>1, TakesNone DEF a
        <4>2. ~(FALSE /\ z.waits) /\ z \in Views
          BY <3>1
        <4> QED
          BY <1>4, <3>1, <4>1, <4>2, BunchTakes
      <3>3. Ends(r, z)'
        BY <1>1, <1>2, <1>6, <2>1, OtherEnds DEF Ends
      <3> QED
        BY <3>2, <3>3
    <2>2. CASE r = id
      <3>1. /\ Fits(r, Told(id, FALSE), z) /\ a \in Views /\ a.cum = z.cum
            /\ a.asks = Tail(z.asks) /\ ~a.waits
            /\ a.left = IF kind = "New" THEN 0 ELSE z.left
            /\ Entering(z) <=> kind = "New"
        BY <1>1, <1>2, <1>6, <2>2, Refused
      <3> HIDE DEF a
      <3>2. Takes(r, z, t, a)
        <4>1. Takes(r, Moved(r, Told(id, FALSE), z), <<>>, a)
          BY <3>1, TakesNone DEF a
        <4>2. ~(FALSE /\ a.waits) /\ a \in Views
          BY <3>1
        <4> QED
          BY <1>4, <3>1, <4>1, <4>2, BunchTakes
      <3>3. Ends(r, a)'
        <4>1. a.cum = executed'[r]
          BY <1>1, <1>6, <3>1 DEF Ends
        <4>2. /\ r \in DOMAIN core' => a.left = core'[r].left /\ a.left > 0
              /\ r \notin DOMAIN core' => a.left = 0
          BY <1>1, <1>6, <3>1 DEF Ends
        <4> QED
          BY <1>1, <1>2, <1>6, <2>2, <3>1, <4>1, <4>2, OwnEnds
      <3> QED
        BY <3>2, <3>3
    <2> QED
      BY <2>1, <2>2
  <1>7. /\ executed' \in [OrderId -> Nat]
        /\ \A r \in DOMAIN core' : r < next_numeric_order_id
        /\ \A r \in OrderId : r >= next_numeric_order_id => executed'[r] = 0
    BY <1>1 DEF QuantityInv, NumbersKnown
  <1> HIDE DEF t
  <1> QED
    BY <1>3, <1>5, <1>6, <1>7, ExchangeKeepsQuantities

\* A cancel that the exchange accepts: the order was in the book.
LEMMA CoreCancelKeepsQuantities ==
    ASSUME QuantityInv, SessionInv', CoreTakes("Cancel", TRUE), Head(to_core).id \in DOMAIN core,
           core' = Erase(core, Head(to_core).id), CoreSends(Head(to_core).id, TRUE, <<>>),
           UNCHANGED executed
    PROVE  QuantityInv'
  <1>1. SessionInv
    BY DEF QuantityInv
  <1>2. PICK id \in OrderId : id = Head(to_core).id
    BY RequestKnown
  <1> DEFINE t == Bunch(id, TRUE, <<>>)
  <1>3. /\ to_core # <<>> /\ to_core' = Tail(to_core) /\ phase # "closed"
        /\ UNCHANGED <<phase, next_numeric_order_id, orders, requestVars, trackVars>>
        /\ Known(Told(id, TRUE)) /\ Known(Updated)
        /\ Told(id, TRUE).kind # "trade" /\ Updated.kind # "trade"
    BY <1>2, RequestKnown
  <1>4. <<>> \in Seq(CoreMessage) /\ TRUE \in BOOLEAN
    OBVIOUS
  <1>5. /\ t \in Seq(CoreMessage) /\ from_core' = from_core \o t
        /\ \A i \in 1 .. Len(t) : t[i] \in {Told(id, TRUE), Updated}
    <2>1. /\ t \in Seq(CoreMessage) /\ from_core' = from_core \o t
          /\ \A i \in 1 .. Len(t) : \/ t[i] \in {Told(id, TRUE), Updated}
                                    \/ \E j \in 1 .. Len(<<>>) : t[i] = <<>>[j]
      BY <1>1, <1>2, <1>4, BunchSent
    <2> HIDE DEF t
    <2>2. 1 .. Len(<<>>) = {}
      OBVIOUS
    <2> QED
      BY <2>1, <2>2
  <1>6. /\ id \in DOMAIN core /\ id \notin DOMAIN core'
        /\ \A r : r # id => (r \in DOMAIN core' <=> r \in DOMAIN core)
        /\ \A r \in DOMAIN core' : core'[r] = core[r]
    <2>1. core' = Erase(core, id) /\ id \in DOMAIN core
      BY <1>2
    <2> QED
      BY <2>1 DEF Erase, Restrict
  <1>7. ASSUME NEW r \in OrderId, NEW z \in Views, Ends(r, z)
        PROVE  \E y : Takes(r, z, t, y) /\ Ends(r, y)'
    <2> DEFINE a == Moved(r, Told(id, TRUE), z)
    <2>1. CASE r # id
      <3>1. Fits(r, Told(id, TRUE), z) /\ a = z /\ ~z.waits
        BY <1>7, <2>1, AnswerToOthers DEF Ends
      <3> HIDE DEF a
      <3>2. Takes(r, z, t, z)
        <4>1. Takes(r, Moved(r, Told(id, TRUE), z), <<>>, z)
          BY <3>1, TakesNone DEF a
        <4>2. ~(TRUE /\ z.waits) /\ z \in Views
          BY <3>1
        <4> QED
          BY <1>4, <3>1, <4>1, <4>2, BunchTakes
      <3>3. /\ z.cum = executed'[r]
            /\ r \in DOMAIN core' => z.left = core'[r].left /\ z.left > 0
            /\ r \notin DOMAIN core' /\ ~Entering(z) => z.left = 0
            /\ Entering(z) => r \notin DOMAIN core' /\ z.cum = 0
        BY <1>6, <1>7, <2>1 DEF Ends
      <3>4. Ends(r, z)'
        BY <1>1, <1>2, <1>7, <2>1, <3>1, <3>3, OtherEnds
      <3> QED
        BY <3>2, <3>4
    <2>2. CASE r = id
      <3>1. /\ Fits(r, Told(id, TRUE), z) /\ a \in Views /\ a.cum = z.cum
            /\ a.asks = Tail(z.asks) /\ ~a.waits /\ a.left = 0
        BY <1>1, <1>2, <1>6, <1>7, <2>2, Accepted
      <3> HIDE DEF a
      <3>2. Takes(r, z, t, a)
        <4>1. Takes(r, Moved(r, Told(id, TRUE), z), <<>>, a)
          BY <3>1, TakesNone DEF a
        <4>2. ~(TRUE /\ a.waits) /\ a \in Views
          BY <3>1
        <4> QED
          BY <1>4, <3>1, <4>1, <4>2, BunchTakes
      <3>3. a.cum = executed'[r]
        BY <1>7, <3>1 DEF Ends
      <3>4. Ends(r, a)'
        BY <1>1, <1>2, <1>6, <1>7, <2>2, <3>1, <3>3, OwnEnds
      <3> QED
        BY <3>2, <3>4
    <2> QED
      BY <2>1, <2>2
  <1>8. /\ executed' \in [OrderId -> Nat]
        /\ \A r \in DOMAIN core' : r < next_numeric_order_id
        /\ \A r \in OrderId : r >= next_numeric_order_id => executed'[r] = 0
    BY <1>6 DEF QuantityInv, NumbersKnown
  <1> HIDE DEF t
  <1> QED
    BY <1>3, <1>5, <1>7, <1>8, ExchangeKeepsQuantities

\* The fills of an order that comes in: none with itself, no more than its quantity, and
\* at most one with each own order, of no more than what that has left.
LEMMA FillsParts ==
    ASSUME SessionInv, NEW id \in OrderId, NEW side, NEW quantity \in Nat,
           NEW fills \in PossibleFills(id, side, quantity)
    PROVE  \E n \in Nat :
              /\ AreFills(fills, n) /\ Total(fills) \in Nat /\ Total(fills) <= quantity
              /\ \A i \in 1 .. n :
                    /\ fills[i].with # id
                    /\ fills[i].with # Other =>
                          /\ fills[i].with \in DOMAIN core
                          /\ fills[i].quantity <= core[fills[i].with].left
                          /\ \A j \in 1 .. i - 1 : fills[j].with # fills[i].with
  <1> DEFINE own == {r \in DOMAIN core \ {id} : core[r].side = Opposite(side)}
             Fill == [with : own \cup {Other}, quantity : 1 .. quantity]
  <1>1. /\ fills \in UNION {[1 .. n -> Fill] : n \in 0 .. quantity}
        /\ Total(fills) <= quantity
        /\ \A i \in DOMAIN fills : fills[i].with \in own =>
              /\ fills[i].quantity = Min({core[fills[i].with].left,
                                          quantity - Traded(fills, 1 .. i - 1)})
              /\ \A j \in 1 .. i - 1 : fills[j].with # fills[i].with
    BY DEF PossibleFills
  <1>2. PICK n \in 0 .. quantity : fills \in [1 .. n -> Fill]
    BY <1>1
  <1>3. /\ n \in Nat /\ IsMap(core, OrderId, [side : Side, left : Nat])
    BY DEF SessionInv, ConnectionType
  <1>4. \A f \in Fill : /\ f.quantity \in Nat /\ f.quantity > 0
                        /\ f.with \in OrderId \cup {Other} /\ f.with # id
                        /\ f.with # Other => f.with \in own /\ f.with \in DOMAIN core
    BY <1>3 DEF IsMap, OrderId, Other
  <1> HIDE DEF Fill, own
  <1>5. \A i \in 1 .. n : fills[i] \in Fill
    BY <1>2
  <1>6. AreFills(fills, n)
    BY <1>2, <1>3, <1>4, <1>5 DEF AreFills
  <1>7. Total(fills) \in Nat
    BY <1>3, <1>6, TradedUpTo, TradedLess DEF Total, AreFills
  <1>8. ASSUME NEW i \in 1 .. n, fills[i].with # Other
        PROVE  fills[i].quantity <= core[fills[i].with].left
    <2> DEFINE r == fills[i].with
               u == quantity - Traded(fills, 1 .. i - 1)
    <2>1. r \in own /\ r \in DOMAIN core
      BY <1>4, <1>5, <1>8
    <2>2. core[r].left \in Nat
      BY <1>3, <2>1 DEF IsMap
    <2>3. i - 1 \in 0 .. n
      BY <1>3
    <2>4. Traded(fills, 1 .. i - 1) \in Nat /\ Traded(fills, 1 .. i - 1) <= Total(fills)
      BY <1>6, <2>3, TradedUpTo
    <2>5. u \in Nat
      BY <1>1, <1>7, <2>4
    <2>6. fills[i].quantity = Min({core[r].left, u})
      BY <1>1, <1>2, <2>1
    <2> HIDE DEF u, r
    <2>7. Min({core[r].left, u}) <= core[r].left
      BY <2>2, <2>5, SmallerOf
    <2> QED
      BY <2>6, <2>7 DEF r
  <1>9. ASSUME NEW i \in 1 .. n
        PROVE  /\ fills[i].with # id
               /\ fills[i].with # Other =>
                     /\ fills[i].with \in DOMAIN core
                     /\ fills[i].quantity <= core[fills[i].with].left
                     /\ \A j \in 1 .. i - 1 : fills[j].with # fills[i].with
    BY <1>1, <1>2, <1>4, <1>5, <1>8
  <1> QED
    BY <1>1, <1>3, <1>6, <1>7, <1>9

\* What the book has become, order by order, when an order has come in with its fills.
MatchedBook(id, rests, left, fills) ==
    /\ \A r : r # id =>
          /\ r \in DOMAIN core' <=> r \in DOMAIN core /\ core[r].left > TradedWith(fills, r)
          /\ r \in DOMAIN core' => core'[r].left = core[r].left - TradedWith(fills, r)
    /\ id \in DOMAIN core' <=> rests /\ left > 0
    /\ id \in DOMAIN core' => core'[id].left = left

\* That is what CoreMatches does to the book.
LEMMA BookIsMatched ==
    ASSUME SessionInv, NEW id, NEW side, NEW rests \in BOOLEAN, NEW left \in Nat, NEW fills,
           core' = IF rests /\ left > 0
                   THEN Put(LessFilled(Erase(core, id), fills), id, [side |-> side, left |-> left])
                   ELSE LessFilled(Erase(core, id), fills)
    PROVE  MatchedBook(id, rests, left, fills)
  <1> DEFINE book == Erase(core, id)
             others == LessFilled(book, fills)
  <1>1. \A r : (r \in DOMAIN book <=> r \in DOMAIN core /\ r # id)
               /\ (r \in DOMAIN book => book[r] = core[r])
    BY DEF Erase, Restrict
  <1>2. IsMap(core, OrderId, [side : Side, left : Nat])
    BY DEF SessionInv, ConnectionType
  <1> HIDE DEF book
  <1>3. \A r : /\ r \in DOMAIN others <=>
                     r \in DOMAIN book /\ book[r].left > TradedWith(fills, r)
               /\ r \in DOMAIN others =>
                     others[r] = [book[r] EXCEPT !.left = book[r].left - TradedWith(fills, r)]
    BY DEF LessFilled
  <1> HIDE DEF others
  <1>4. \A r \in DOMAIN others : others[r].left = core[r].left - TradedWith(fills, r)
    <2> SUFFICES ASSUME NEW r \in DOMAIN others
                 PROVE  others[r].left = core[r].left - TradedWith(fills, r)
      OBVIOUS
    <2>1. book[r] = core[r] /\ core[r] \in [side : Side, left : Nat]
      BY <1>1, <1>2, <1>3 DEF IsMap
    <2> QED
      BY <1>3, <2>1
  <1>5. core' = IF rests /\ left > 0 THEN Put(others, id, [side |-> side, left |-> left])
                ELSE others
    BY DEF others, book
  <1>6. /\ id \notin DOMAIN others
        /\ \A r : r # id => (r \in DOMAIN others <=>
                               r \in DOMAIN core /\ core[r].left > TradedWith(fills, r))
    BY <1>1, <1>3
  <1>7. CASE rests /\ left > 0
    <2> DEFINE entry == [side |-> side, left |-> left]
    <2>1. entry.left = left
      OBVIOUS
    <2> HIDE DEF entry
    <2>2. core' = Put(others, id, entry)
      BY <1>5, <1>7 DEF entry
    <2>3. /\ DOMAIN core' = DOMAIN others \cup {id} /\ core'[id] = entry
          /\ \A r \in DOMAIN others : r # id => core'[r] = others[r]
      BY <2>2 DEF Put
    <2> QED
      BY <1>4, <1>6, <1>7, <2>1, <2>3 DEF MatchedBook
  <1>8. CASE ~(rests /\ left > 0)
    <2>1. core' = others
      BY <1>5, <1>8
    <2> QED
      BY <1>4, <1>6, <1>8, <2>1 DEF MatchedBook
  <1> QED
    BY <1>7, <1>8

\* The fills that FillsParts describes.
FillsFit(fills, n, id, quantity) ==
    /\ AreFills(fills, n) /\ Total(fills) \in Nat /\ Total(fills) <= quantity
    /\ \A i \in 1 .. n :
          /\ fills[i].with # id
          /\ fills[i].with # Other =>
                /\ fills[i].with \in DOMAIN core
                /\ fills[i].quantity <= core[fills[i].with].left
                /\ \A j \in 1 .. i - 1 : fills[j].with # fills[i].with

\* What such fills take off a resting order.
LEMMA RestingFits ==
    ASSUME NEW id \in OrderId, NEW side, NEW quantity, NEW n, NEW fills,
           FillsFit(fills, n, id, quantity),
           NEW r \in OrderId, r # id, NEW z \in Views, r \in DOMAIN core => z.left = core[r].left
    PROVE  /\ TradedWith(fills, r) \in 0 .. z.left
           /\ TradedWith(fills, r) > 0 => \E i \in 1 .. n : fills[i].with = r
           /\ Takes(r, z, Deliveries(id, side, fills),
                    [z EXCEPT !.left = z.left - TradedWith(fills, r),
                              !.cum = z.cum + TradedWith(fills, r)])
  <1>1. AreFills(fills, n) /\ \A i \in 1 .. n : fills[i].with # id
    BY DEF FillsFit
  <1>2. \A i \in 1 .. n : fills[i].with = r =>
            /\ fills[i].quantity <= z.left
            /\ \A j \in 1 .. i - 1 : fills[j].with # r
    <2>1. r # Other
      BY DEF OrderId, Other
    <2> QED
      BY <2>1 DEF FillsFit
  <1> QED
    BY <1>1, <1>2, RestingFilled, Zenon

\* A resting order when another one has come in.
LEMMA OtherIsMatched ==
    ASSUME SessionInv, NEW kind, CoreTakes(kind, TRUE),
           NEW id \in OrderId, id = Head(to_core).id, NEW side, NEW rests, NEW left,
           NEW quantity \in Nat, NEW n, NEW fills, FillsFit(fills, n, id, quantity),
           MatchedBook(id, rests, left, fills),
           Deliveries(id, side, fills) \in Seq(CoreMessage),
           executed \in [OrderId -> Nat],
           executed' = [x \in OrderId |-> executed[x] + IF x = id THEN Total(fills)
                                                        ELSE TradedWith(fills, x)],
           NEW r \in OrderId, r # id, NEW z \in Views, Ends(r, z)
    PROVE  \E y : Takes(r, z, Bunch(id, TRUE, Deliveries(id, side, fills)), y) /\ Ends(r, y)'
  <1> DEFINE trades == Deliveries(id, side, fills)
             u == TradedWith(fills, r)
             y == [z EXCEPT !.left = z.left - u, !.cum = z.cum + u]
  <1>1. /\ AreFills(fills, n) /\ \A i \in 1 .. n : fills[i].with # id
        /\ z.left \in Nat /\ z.cum \in Nat /\ ~z.waits
    BY DEF FillsFit, Views, Ends
  <1>2. \A i \in 1 .. n : fills[i].with = r =>
            /\ r \in DOMAIN core
            /\ fills[i].quantity <= z.left
            /\ \A j \in 1 .. i - 1 : fills[j].with # r
    <2>1. r # Other
      BY DEF OrderId, Other
    <2> QED
      BY <2>1 DEF FillsFit, Ends
  <1>3. /\ u \in 0 .. z.left
        /\ u > 0 => \E i \in 1 .. n : fills[i].with = r
        /\ Takes(r, z, trades, y)
    <2>1. r \in DOMAIN core => z.left = core[r].left
      BY DEF Ends
    <2>2. /\ TradedWith(fills, r) \in 0 .. z.left
          /\ TradedWith(fills, r) > 0 => \E i \in 1 .. n : fills[i].with = r
          /\ Takes(r, z, Deliveries(id, side, fills),
                   [z EXCEPT !.left = z.left - TradedWith(fills, r),
                             !.cum = z.cum + TradedWith(fills, r)])
      BY ONLY <2>1, FillsFit(fills, n, id, quantity), r # id, r \in OrderId, id \in OrderId,
              z \in Views, RestingFits, Zenon
    <2> QED
      BY <2>2
  <1>4. u > 0 => r \in DOMAIN core
    BY <1>2, <1>3
  <1>5. y \in Views
    BY <1>3, TakesViews
  <1>6. /\ y.left = z.left - u /\ y.cum = z.cum + u /\ y.asks = z.asks /\ y.waits = z.waits
        /\ y.rests = z.rests
    BY DEF Views
  <1> HIDE DEF y, trades
  <1>7. Takes(r, z, Bunch(id, TRUE, trades), y)
    <2>1. Fits(r, Told(id, TRUE), z) /\ Moved(r, Told(id, TRUE), z) = z
      BY DEF Told, Fits, Moved, Answers, Fills
    <2>2. Takes(r, Moved(r, Told(id, TRUE), z), trades, y)
      BY <1>3, <2>1
    <2>3. ~(TRUE /\ y.waits) /\ TRUE \in BOOLEAN /\ trades \in Seq(CoreMessage)
      BY <1>1, <1>6 DEF trades
    <2> QED
      BY <1>5, <2>1, <2>2, <2>3, BunchTakes
  <1>8. executed'[r] = executed[r] + u /\ z.cum = executed[r]
    BY DEF Ends
  <1>9. /\ r \in DOMAIN core' <=> r \in DOMAIN core /\ core[r].left > u
        /\ r \in DOMAIN core' => core'[r].left = core[r].left - u
    BY DEF MatchedBook
  <1>10. /\ r \in DOMAIN core => z.left = core[r].left
         /\ r \notin DOMAIN core /\ ~Entering(z) => z.left = 0
         /\ Entering(z) => r \notin DOMAIN core /\ z.cum = 0
    BY DEF Ends
  <1> HIDE DEF u
  <1>11. u \in Nat /\ u <= z.left
    BY <1>1, <1>3
  <1>12. r \in DOMAIN core' => y.left = core'[r].left /\ y.left > 0
    BY <1>1, <1>6, <1>9, <1>10, <1>11
  <1>13. r \notin DOMAIN core' /\ ~Entering(z) => y.left = 0
    <2>1. CASE r \in DOMAIN core
      BY <1>1, <1>6, <1>9, <1>10, <1>11, <2>1
    <2>2. CASE r \notin DOMAIN core
      <3>1. u = 0
        BY <1>4, <1>11, <2>2
      <3> QED
        BY <1>6, <1>10, <2>2, <3>1
    <2> QED
      BY <2>1, <2>2
  <1>14. Entering(z) => r \notin DOMAIN core' /\ y.left = z.left /\ y.cum = 0
    <2> SUFFICES ASSUME Entering(z) PROVE r \notin DOMAIN core' /\ y.left = z.left /\ y.cum = 0
      OBVIOUS
    <2>1. r \notin DOMAIN core /\ z.cum = 0
      BY <1>10
    <2>2. u = 0
      BY <1>4, <1>11, <2>1
    <2> QED
      BY <1>1, <1>6, <1>9, <2>1, <2>2
  <1>15. y.cum = executed'[r] /\ ~y.waits
    BY <1>1, <1>6, <1>8
  <1>16. Ends(r, y)'
    BY <1>5, <1>6, <1>12, <1>13, <1>14, <1>15, OtherEnds
  <1> QED
    BY <1>7, <1>16 DEF trades

\* The order that has come in.
LEMMA OwnIsMatched ==
    ASSUME SessionInv, NEW kind \in {"New", "Replace"}, CoreTakes(kind, TRUE),
           NEW id \in OrderId, id = Head(to_core).id, NEW side, NEW rests \in BOOLEAN,
           NEW quantity \in Nat, quantity = Head(to_core).quantity,
           kind = "New" => rests = Head(to_core).rests,
           kind = "Replace" => rests /\ id \in DOMAIN core,
           NEW n, NEW fills, FillsFit(fills, n, id, quantity),
           MatchedBook(id, rests, quantity - Total(fills), fills),
           Deliveries(id, side, fills) \in Seq(CoreMessage),
           executed \in [OrderId -> Nat],
           executed' = [x \in OrderId |-> executed[x] + IF x = id THEN Total(fills)
                                                        ELSE TradedWith(fills, x)],
           NEW z \in Views, Ends(id, z)
    PROVE  \E y : Takes(id, z, Bunch(id, TRUE, Deliveries(id, side, fills)), y) /\ Ends(id, y)'
  <1> DEFINE trades == Deliveries(id, side, fills)
             a == Moved(id, Told(id, TRUE), z)
             b == [a EXCEPT !.left = a.left - Total(fills), !.cum = a.cum + Total(fills)]
             c == [b EXCEPT !.left = 0, !.waits = FALSE]
  <1>1. /\ AreFills(fills, n) /\ \A i \in 1 .. n : fills[i].with # id
        /\ Total(fills) \in Nat /\ Total(fills) <= quantity
    BY DEF FillsFit
  <1>3. a = Moved(id, Told(id, TRUE), z)
    OBVIOUS
  <1>2. /\ Fits(id, Told(id, TRUE), z)
        /\ a \in Views /\ a.cum = z.cum /\ a.asks = Tail(z.asks)
        /\ a.waits <=> kind = "New" /\ ~Head(to_core).rests
        /\ a.left = IF kind = "Cancel" THEN 0 ELSE Head(to_core).quantity
        /\ Entering(z) <=> kind = "New"
    <2>1. kind # "New" => id \in DOMAIN core
      OBVIOUS
    <2> QED
      BY <2>1, Accepted
  <1> HIDE DEF a
  <1>4. a.left = quantity /\ (a.waits <=> ~rests)
    <2>1. rests \in BOOLEAN /\ (Head(to_core).rests = rests \/ kind = "Replace")
      OBVIOUS
    <2>2. a.left = quantity
      BY <1>2
    <2>3. CASE kind = "New"
      BY <1>2, <2>3
    <2>4. CASE kind = "Replace"
      BY <1>2, <2>4
    <2> QED
      BY <2>2, <2>3, <2>4
  <1>5. Takes(id, a, trades, b)
    BY <1>1, <1>2, <1>4, TakerFilled
  <1>6. b \in Views
    BY <1>5, TakesViews
  <1>7. /\ b.left = a.left - Total(fills) /\ b.cum = a.cum + Total(fills) /\ b.asks = a.asks
        /\ b.waits = a.waits
    BY <1>2 DEF Views
  <1> HIDE DEF b, trades
  <1>8. c \in Views /\ c.left = 0 /\ c.cum = b.cum /\ c.asks = b.asks /\ ~c.waits
    BY <1>6 DEF Views
  <1>9. /\ b.waits => Takes(id, z, Bunch(id, TRUE, trades), c)
        /\ ~b.waits => Takes(id, z, Bunch(id, TRUE, trades), b)
    <2>1. Takes(id, Moved(id, Told(id, TRUE), z), trades, b)
      BY <1>3, <1>5
    <2>2. TRUE \in BOOLEAN /\ trades \in Seq(CoreMessage)
      BY DEF trades
    <2> QED
      BY <1>2, <1>6, <2>1, <2>2, BunchTakes
  <1> HIDE DEF c
  <1>10. executed'[id] = executed[id] + Total(fills) /\ z.cum = executed[id]
    BY DEF Ends
  <1>11. /\ id \in DOMAIN core' <=> rests /\ quantity - Total(fills) > 0
         /\ id \in DOMAIN core' => core'[id].left = quantity - Total(fills)
    BY DEF MatchedBook
  <1>12. CASE b.waits
    <2>1. ~rests /\ id \notin DOMAIN core'
      BY <1>4, <1>7, <1>11, <1>12
    <2>2. c.asks = Tail(z.asks) /\ c.cum = executed'[id] /\ c.left = 0
      BY <1>2, <1>7, <1>8, <1>10
    <2>3. Ends(id, c)'
      BY <1>8, <2>1, <2>2, OwnEnds
    <2> QED
      BY <1>9, <1>12, <2>3 DEF trades
  <1>13. CASE ~b.waits
    <2>1. rests
      BY <1>4, <1>7, <1>13
    <2>2. b.asks = Tail(z.asks) /\ b.cum = executed'[id] /\ b.left = quantity - Total(fills)
      BY <1>2, <1>4, <1>7, <1>10
    <2>3. id \in DOMAIN core' => b.left = core'[id].left /\ b.left > 0
      BY <1>11, <2>2
    <2>4. id \notin DOMAIN core' => b.left = 0
      BY <1>1, <1>11, <2>1, <2>2
    <2>5. Ends(id, b)'
      BY <1>6, <1>13, <2>2, <2>3, <2>4, OwnEnds
    <2> QED
      BY <1>9, <1>13, <2>5 DEF trades
  <1> QED
    BY <1>12, <1>13

\* An order enters the book, new or replaced, and trades.
LEMMA MatchKeepsQuantities ==
    ASSUME QuantityInv, SessionInv', NEW kind \in {"New", "Replace"}, CoreTakes(kind, TRUE),
           NEW id \in OrderId, id = Head(to_core).id, NEW side, NEW rests \in BOOLEAN,
           NEW quantity \in Nat, quantity = Head(to_core).quantity,
           kind = "New" => rests = Head(to_core).rests,
           kind = "Replace" => rests /\ id \in DOMAIN core,
           CoreMatches(id, side, rests, quantity)
    PROVE  QuantityInv'
  <1>1. SessionInv /\ executed \in [OrderId -> Nat]
    BY DEF QuantityInv, NumbersKnown
  <1>2. PICK fills \in PossibleFills(id, side, quantity) :
            /\ CoreSends(id, TRUE, Deliveries(id, side, fills))
            /\ core' = IF rests /\ quantity - Total(fills) > 0
                       THEN Put(LessFilled(Erase(core, id), fills), id,
                                [side |-> side, left |-> quantity - Total(fills)])
                       ELSE LessFilled(Erase(core, id), fills)
            /\ executed' = [x \in OrderId |-> executed[x] + IF x = id THEN Total(fills)
                                                            ELSE TradedWith(fills, x)]
    BY DEF CoreMatches
  <1>3. PICK n \in Nat : FillsFit(fills, n, id, quantity)
    <2>1. \E n \in Nat :
              /\ AreFills(fills, n) /\ Total(fills) \in Nat /\ Total(fills) <= quantity
              /\ \A i \in 1 .. n :
                    /\ fills[i].with # id
                    /\ fills[i].with # Other =>
                          /\ fills[i].with \in DOMAIN core
                          /\ fills[i].quantity <= core[fills[i].with].left
                          /\ \A j \in 1 .. i - 1 : fills[j].with # fills[i].with
      BY ONLY <1>1, id \in OrderId, quantity \in Nat,
              fills \in PossibleFills(id, side, quantity), FillsParts, Zenon
    <2> QED
      BY <2>1 DEF FillsFit
  <1> DEFINE left == quantity - Total(fills)
             trades == Deliveries(id, side, fills)
             t == Bunch(id, TRUE, trades)
  <1>4. left \in Nat /\ AreFills(fills, n)
    BY <1>3 DEF FillsFit
  <1>5. MatchedBook(id, rests, left, fills)
    BY <1>1, <1>2, <1>4, BookIsMatched
  \* What is sent
  <1>6. /\ trades \in Seq(CoreMessage) /\ Len(trades) = n
        /\ \A i \in 1 .. n : trades[i] = TradeOf(id, side, fills[i])
    <2>1. /\ DOMAIN trades = 1 .. n /\ trades = [i \in 1 .. n |-> trades[i]]
          /\ \A i \in 1 .. n : trades[i] = TradeOf(id, side, fills[i])
      BY <1>4 DEF Deliveries, AreFills
    <2>2. \A i \in 1 .. n : TradeOf(id, side, fills[i]) \in CoreMessage
      BY <1>4, TradeOfIsTrade DEF AreFills, CoreMessage
    <2> HIDE DEF trades
    <2>3. trades \in [1 .. n -> CoreMessage]
      BY <2>1, <2>2
    <2> QED
      BY <1>3, <2>1, <2>3
  <1> HIDE DEF left
  <1>7. /\ to_core # <<>> /\ to_core' = Tail(to_core) /\ phase # "closed"
        /\ UNCHANGED <<phase, next_numeric_order_id, orders, requestVars, trackVars>>
        /\ Known(Told(id, TRUE)) /\ Known(Updated)
        /\ Told(id, TRUE).kind # "trade" /\ Updated.kind # "trade"
    BY RequestKnown
  <1>8. id < next_numeric_order_id
    BY <1>7 DEF Known, Told
  <1>9. /\ t \in Seq(CoreMessage) /\ from_core' = from_core \o t
        /\ \A i \in 1 .. Len(t) : \/ t[i] \in {Told(id, TRUE), Updated}
                                  \/ \E j \in 1 .. Len(trades) : t[i] = trades[j]
    <2>1. CoreSends(id, TRUE, trades) /\ TRUE \in BOOLEAN
      BY <1>2
    <2> HIDE DEF trades
    <2> QED
      BY <1>1, <1>6, <2>1, BunchSent
  <1>10. ASSUME NEW i \in 1 .. n
         PROVE  /\ Known(trades[i]) /\ ~IsCopy(trades[i])
                /\ trades[i].trade.buy # trades[i].trade.sell
                /\ trades[i].copies = 2 => trades[i].trade.buy # Other /\ trades[i].trade.sell # Other
    <2> DEFINE fill == fills[i]
               m == TradeOf(id, side, fill)
    <2>1. /\ fill.with \in OrderId \cup {Other} /\ fill.quantity \in Nat /\ fill.with # id
          /\ fill.with # Other => fill.with \in DOMAIN core
      BY <1>3 DEF FillsFit, AreFills
    <2>6. trades[i] = m /\ m = TradeOf(id, side, fill)
      BY <1>6
    <2> HIDE DEF fill, m, trades
    <2>2. /\ m.kind = "trade" /\ ~IsCopy(m)
          /\ {m.trade.buy, m.trade.sell} = {id, fill.with}
          /\ m.trade.buy # m.trade.sell
          /\ m.copies = 2 => m.trade.buy # Other /\ m.trade.sell # Other
      BY ONLY <2>1, <2>6, id \in OrderId, TradeOfFills
    <2>3. fill.with < next_numeric_order_id
      <3>1. CASE fill.with = Other
        BY <1>1, <3>1 DEF SessionInv, TypeOK, Other
      <3>2. CASE fill.with # Other
        BY <2>1, <3>2 DEF QuantityInv, NumbersKnown
      <3> QED
        BY <3>1, <3>2
    <2>4. m.trade.buy < next_numeric_order_id /\ m.trade.sell < next_numeric_order_id
      <3>1. m.trade.buy \in {id, fill.with} /\ m.trade.sell \in {id, fill.with}
        BY <2>2
      <3> QED
        BY <1>8, <2>3, <3>1
    <2>5. Known(m)
      BY <2>2, <2>4 DEF Known
    <2> QED
      BY <2>2, <2>5, <2>6
  <1>11. ASSUME NEW i \in 1 .. Len(t)
         PROVE  /\ Known(t[i])
                /\ t[i].kind = "trade" =>
                      /\ ~IsCopy(t[i]) /\ t[i].trade.buy # t[i].trade.sell
                      /\ t[i].copies = 2 => t[i].trade.buy # Other /\ t[i].trade.sell # Other
    <2> HIDE DEF t, trades
    <2>1. CASE t[i] \in {Told(id, TRUE), Updated}
      BY <1>7, <2>1
    <2>2. CASE \E j \in 1 .. Len(trades) : t[i] = trades[j]
      BY <1>6, <1>10, <2>2
    <2> QED
      BY <1>9, <2>1, <2>2
  \* Where the orders end
  <1>12. ASSUME NEW r \in OrderId, NEW z \in Views, Ends(r, z)
         PROVE  \E y : Takes(r, z, t, y) /\ Ends(r, y)'
    <2>1. CASE r = id
      <3>1. \E y : Takes(id, z, t, y) /\ Ends(id, y)'
        <4>1. Ends(id, z)
          BY <1>12, <2>1
        <4>2. MatchedBook(id, rests, quantity - Total(fills), fills)
          BY <1>5 DEF left
        <4> QED
          BY <1>1, <1>2, <1>3, <1>6, <4>1, <4>2, OwnIsMatched
      <3> QED
        BY <2>1, <3>1
    <2>2. CASE r # id
      BY <1>1, <1>2, <1>3, <1>5, <1>6, <1>12, <2>2, OtherIsMatched
    <2> QED
      BY <2>1, <2>2
  \* The book and what has been traded
  <1>13. /\ executed' \in [OrderId -> Nat]
         /\ \A r \in OrderId : r >= next_numeric_order_id => executed'[r] = 0
    <2>1. ASSUME NEW r \in OrderId
          PROVE  /\ (IF r = id THEN Total(fills) ELSE TradedWith(fills, r)) \in Nat
                 /\ r >= next_numeric_order_id => r # id /\ TradedWith(fills, r) = 0
      <3>1. Total(fills) \in Nat
        BY <1>3 DEF FillsFit
      <3>2. TradedWith(fills, r) \in Nat
        BY <1>4, TradedIsNat DEF TradedWith, AreFills
      <3>3. ASSUME r >= next_numeric_order_id PROVE r # id /\ TradedWith(fills, r) = 0
        <4>1. next_numeric_order_id \in Nat /\ r \in Nat
          BY <1>1 DEF SessionInv, TypeOK, OrderId
        <4>2. \A i \in 1 .. n : fills[i].with # r
          <5>1. r # Other /\ ~(r < next_numeric_order_id)
            BY <3>3, <4>1 DEF OrderId, Other
          <5>2. r \notin DOMAIN core
            BY <5>1 DEF QuantityInv, NumbersKnown
          <5> QED
            BY <1>3, <5>1, <5>2 DEF FillsFit
        <4> QED
          BY <1>4, <1>8, <3>3, <4>1, <4>2, TradedWithNone
      <3> QED
        BY <3>1, <3>2, <3>3
    <2>2. \A r \in OrderId : executed'[r] = executed[r] + IF r = id THEN Total(fills)
                                                          ELSE TradedWith(fills, r)
      BY <1>2
    <2>3. \A r \in OrderId : r >= next_numeric_order_id => executed[r] = 0
      BY DEF QuantityInv, NumbersKnown
    <2> QED
      BY <1>1, <1>2, <2>1, <2>2, <2>3
  <1>14. \A r \in DOMAIN core' : r < next_numeric_order_id
    BY <1>5, <1>8 DEF MatchedBook, QuantityInv, NumbersKnown
  <1> HIDE DEF t
  <1> QED
    BY <1>7, <1>9, <1>11, <1>12, <1>13, <1>14, ExchangeKeepsQuantities

\* A book update ends no order that does not wait for it.
LEMMA UpdateTakes ==
    ASSUME NEW r, NEW z \in Views, ~z.waits
    PROVE  Updated \in CoreMessage /\ Takes(r, z, <<Updated>>, z)
  <1>1. Updated \in CoreMessage
    BY DEF Updated, CoreMessage, BookUpdate
  <1>2. Fits(r, Updated, z) /\ Moved(r, Updated, z) = z
    BY DEF Fits, Moved, Answers, Fills, Updated
  <1>3. Takes(r, z, <<Updated>>, Moved(r, Updated, z))
    BY <1>1, <1>2, TakesOne
  <1> QED
    BY <1>1, <1>2, <1>3

\* Somebody's order comes in and trades with none.
LEMMA OtherUpdateKeepsQuantities ==
    ASSUME QuantityInv, SessionInv', phase # "closed", from_core = <<>>, from_core' = <<Updated>>,
           UNCHANGED <<phase, next_numeric_order_id, orders, requestVars, trackVars,
                       to_core, core_up, core, executed>>
    PROVE  QuantityInv'
  <1> DEFINE t == <<Updated>>
  <1>1. Updated \in CoreMessage /\ Updated.kind = "book_update"
    BY DEF Updated, CoreMessage, BookUpdate
  <1>2. t \in Seq(CoreMessage) /\ from_core' = from_core \o t
    BY <1>1
  <1>3. \A i \in 1 .. Len(t) : t[i] = Updated
    OBVIOUS
  <1>4. \A i \in 1 .. Len(t) : Known(t[i]) /\ t[i].kind # "trade"
    BY <1>1, <1>3 DEF Known
  <1>5. ASSUME NEW r \in OrderId, NEW z \in Views, Ends(r, z)
        PROVE  \E y : Takes(r, z, t, y) /\ Ends(r, y)'
    <2>1. Takes(r, z, t, z)
      BY <1>5, UpdateTakes DEF Ends
    <2>2. Ends(r, z)'
      BY <1>5 DEF Ends
    <2> HIDE DEF t
    <2> QED
      BY <2>1, <2>2
  <1>6. /\ executed' \in [OrderId -> Nat]
        /\ \A r \in DOMAIN core' : r < next_numeric_order_id
        /\ \A r \in OrderId : r >= next_numeric_order_id => executed'[r] = 0
    BY DEF QuantityInv, NumbersKnown
  <1> HIDE DEF t
  <1> QED
    BY <1>2, <1>4, <1>5, <1>6, ExchangeKeepsQuantities

\* One fill, of one order.
LEMMA OneFill ==
    ASSUME NEW id \in OrderId, NEW quantity \in Nat, quantity > 0, NEW fills,
           fills = <<[with |-> id, quantity |-> quantity]>>
    PROVE  /\ TradedWith(fills, id) = quantity
           /\ \A r : r # id => TradedWith(fills, r) = 0
  <1>1. /\ DOMAIN fills = 1 .. 1 /\ fills[1].with = id /\ fills[1].quantity = quantity
    OBVIOUS
  <1>2. \A i \in 1 .. 1 : i = 1
    OBVIOUS
  <1>3. AreFills(fills, 1) /\ 1 \in 1 .. 1
    BY <1>1, <1>2 DEF AreFills
  <1>4. TradedWith(fills, fills[1].with) = fills[1].quantity
    BY <1>2, <1>3, TradedWithOne
  <1>5. ASSUME NEW r, r # id PROVE TradedWith(fills, r) = 0
    <2>1. \A i \in 1 .. 1 : fills[i].with # r
      BY <1>1, <1>2, <1>5
    <2> QED
      BY <1>3, <2>1, TradedWithNone
  <1> QED
    BY <1>1, <1>4, <1>5

\* Somebody's order comes in and trades with a resting one.
LEMMA OtherTradeKeepsQuantities ==
    ASSUME QuantityInv, SessionInv', phase # "closed",
           NEW id \in DOMAIN core, NEW quantity \in 1 .. core[id].left, NEW side,
           from_core' = from_core \o <<TradeOf(id, side, [with |-> Other, quantity |-> quantity]),
                                       Updated>>,
           core' = LessFilled(core, <<[with |-> id, quantity |-> quantity]>>),
           executed' = [executed EXCEPT ![id] = @ + quantity],
           UNCHANGED <<phase, next_numeric_order_id, orders, requestVars, trackVars,
                       to_core, core_up>>
    PROVE  QuantityInv'
  <1> DEFINE fill == [with |-> Other, quantity |-> quantity]
             fills == <<[with |-> id, quantity |-> quantity]>>
             m == TradeOf(id, side, fill)
             t == <<m, Updated>>
  <1>1. /\ SessionInv /\ IsMap(core, OrderId, [side : Side, left : Nat])
        /\ executed \in [OrderId -> Nat] /\ next_numeric_order_id \in Nat
        /\ next_numeric_order_id > 0
    BY DEF QuantityInv, SessionInv, ConnectionType, NumbersKnown, TypeOK
  <1>2. /\ id \in OrderId /\ id < next_numeric_order_id /\ core[id].left \in Nat
        /\ quantity \in Nat /\ quantity > 0 /\ quantity <= core[id].left /\ id # Other
    <2>1. id \in OrderId /\ core[id].left \in Nat /\ id < next_numeric_order_id
      BY <1>1 DEF IsMap, QuantityInv, NumbersKnown
    <2> QED
      BY <2>1 DEF OrderId, Other
  \* The trade that is sent
  <1>3. fill.with = Other /\ fill.quantity = quantity /\ m = TradeOf(id, side, fill)
    OBVIOUS
  <1>4. /\ m \in CoreMessage /\ m.kind = "trade" /\ ~IsCopy(m)
        /\ {m.trade.buy, m.trade.sell} = {id, Other}
        /\ m.trade.buy # m.trade.sell
        /\ m.copies = 2 => m.trade.buy # Other /\ m.trade.sell # Other
        /\ m.trade.quantity = quantity
        /\ \A r : ~Answers(m, r) /\ (Fills(m, r) <=> r \in {id, Other})
    <2> HIDE DEF fill, m
    <2>1. /\ fill.with \in OrderId \cup {Other} /\ fill.quantity \in Nat /\ fill.with # id
      BY <1>2, <1>3
    <2>2. /\ m \in CoreMessage /\ m.kind = "trade" /\ ~IsCopy(m)
          /\ {m.trade.buy, m.trade.sell} = {id, fill.with}
          /\ m.trade.buy # m.trade.sell
          /\ m.copies = 2 => m.trade.buy # Other /\ m.trade.sell # Other
          /\ m.trade.quantity = fill.quantity
          /\ \A r : ~Answers(m, r) /\ (Fills(m, r) <=> r \in {id, fill.with})
      BY ONLY <1>2, <1>3, <2>1, TradeOfFills
    <2> QED
      BY <1>3, <2>2
  <1> HIDE DEF m, fill
  <1>5. /\ Updated \in CoreMessage /\ Updated.kind = "book_update"
    BY DEF Updated, CoreMessage, BookUpdate
  <1>6. /\ t \in Seq(CoreMessage) /\ t = <<m>> \o <<Updated>>
        /\ \A i \in 1 .. Len(t) : t[i] \in {m, Updated}
        /\ <<m>> \in Seq(CoreMessage) /\ <<Updated>> \in Seq(CoreMessage)
    <2> HIDE DEF m
    <2> QED
      BY <1>4, <1>5
  <1>7. Known(m) /\ Known(Updated)
    <2>1. Other < next_numeric_order_id
      BY <1>1 DEF Other
    <2>2. m.trade.buy \in {id, Other} /\ m.trade.sell \in {id, Other}
      BY <1>4
    <2> QED
      BY <1>2, <1>4, <1>5, <2>1, <2>2 DEF Known
  <1>8. from_core' = from_core \o t
    BY DEF m, fill
  <1>9. \A i \in 1 .. Len(t) :
            /\ Known(t[i])
            /\ t[i].kind = "trade" =>
                  /\ ~IsCopy(t[i]) /\ t[i].trade.buy # t[i].trade.sell
                  /\ t[i].copies = 2 => t[i].trade.buy # Other /\ t[i].trade.sell # Other
    BY <1>4, <1>5, <1>6, <1>7
  \* The book
  <1>10. /\ TradedWith(fills, id) = quantity
         /\ \A r : r # id => TradedWith(fills, r) = 0
    BY <1>2, OneFill
  <1>11. /\ \A r : r \in DOMAIN core' <=> r \in DOMAIN core /\ core[r].left > TradedWith(fills, r)
         /\ \A r \in DOMAIN core' : core'[r].left = core[r].left - TradedWith(fills, r)
    <2> HIDE DEF fills
    <2>1. core' = LessFilled(core, fills)
      BY DEF fills
    <2>2. \A r \in DOMAIN core : core[r] \in [side : Side, left : Nat]
      BY <1>1 DEF IsMap
    <2>3. /\ DOMAIN core' = {r \in DOMAIN core : core[r].left > TradedWith(fills, r)}
          /\ \A r \in DOMAIN core' :
                core'[r] = [core[r] EXCEPT !.left = core[r].left - TradedWith(fills, r)]
      BY <2>1 DEF LessFilled
    <2> QED
      BY <2>2, <2>3
  <1> HIDE DEF fills, t
  <1>12. /\ id \in DOMAIN core' <=> core[id].left > quantity
         /\ id \in DOMAIN core' => core'[id].left = core[id].left - quantity
    BY <1>10, <1>11
  <1>13. ASSUME NEW r, r # id
         PROVE  /\ r \in DOMAIN core' => r \in DOMAIN core /\ core'[r].left = core[r].left
                /\ r \notin DOMAIN core' => r \notin DOMAIN core \/ core[r].left = 0
    <2>1. r \in DOMAIN core => core[r].left \in Nat
      BY <1>1 DEF IsMap
    <2> QED
      BY <1>10, <1>11, <1>13, <2>1
  <1>14. /\ executed'[id] = executed[id] + quantity
         /\ \A r \in OrderId : r # id => executed'[r] = executed[r]
    BY <1>1, <1>2
  <1>15. ASSUME NEW r \in OrderId, NEW z \in Views, Ends(r, z)
         PROVE  \E y : Takes(r, z, t, y) /\ Ends(r, y)'
    <2>1. /\ z.left \in Nat /\ z.cum \in Nat /\ ~z.waits /\ z.cum = executed[r]
          /\ r \in DOMAIN core => z.left = core[r].left /\ z.left > 0
          /\ r \notin DOMAIN core /\ ~Entering(z) => z.left = 0
          /\ Entering(z) => r \notin DOMAIN core /\ z.left > 0 /\ z.cum = 0
          /\ core_up => Awaits(to_core, r, z)
      BY <1>15 DEF Ends, Views
    <2>2. CASE r = id
      <3> DEFINE y == AfterFill(z, quantity)
      <3>1. Fits(r, m, z) /\ Moved(r, m, z) = y
        <4>1. ~Answers(m, r) /\ Fills(m, r) /\ m.trade.quantity \in 1 .. z.left
          BY <1>2, <1>4, <2>1, <2>2
        <4> QED
          BY <1>4, <4>1 DEF Fits, Moved
      <3>2. y \in Views
        BY <1>4, <3>1, MovedIsView
      <3>3. /\ y.left = z.left - quantity /\ y.cum = z.cum + quantity /\ y.asks = z.asks
            /\ y.waits = z.waits /\ y.rests = z.rests
        BY DEF AfterFill, Views
      <3> HIDE DEF y
      <3>4. Takes(r, z, <<m>>, y)
        BY <1>4, <3>1, TakesOne
      <3>5. Takes(r, y, <<Updated>>, y)
        BY <2>1, <3>2, <3>3, UpdateTakes
      <3>6. Takes(r, z, t, y)
        BY <1>6, <3>4, <3>5, TakesThen
      <3>7. ~Entering(z) /\ ~Entering(y)
        BY <2>1, <2>2, <3>3 DEF Entering
      <3>8. core_up => Awaits(to_core, r, y)
        BY <2>1, <3>2, <3>3, <3>7, AwaitsSame
      <3>9. y.cum = executed'[r] /\ ~y.waits
        BY <1>14, <2>1, <2>2, <3>3
      <3>10. /\ r \in DOMAIN core' => y.left = core'[r].left /\ y.left > 0
             /\ r \notin DOMAIN core' => y.left = 0
        BY <1>2, <1>12, <2>1, <2>2, <3>3
      <3>11. Ends(r, y)'
        BY <3>7, <3>8, <3>9, <3>10 DEF Ends
      <3> QED
        BY <3>6, <3>11
    <2>3. CASE r # id
      <3>1. Fits(r, m, z) /\ Moved(r, m, z) = z
        <4>1. r # Other
          BY DEF OrderId, Other
        <4>2. ~Answers(m, r) /\ ~Fills(m, r)
          BY <1>4, <2>3, <4>1
        <4> QED
          BY <1>4, <4>2 DEF Fits, Moved
      <3>2. Takes(r, z, <<m>>, z)
        <4>1. Takes(r, z, <<m>>, Moved(r, m, z))
          BY <1>4, <3>1, TakesOne
        <4> QED
          BY <3>1, <4>1
      <3>3. Takes(r, z, <<Updated>>, z)
        BY <2>1, UpdateTakes
      <3>4. Takes(r, z, t, z)
        BY <1>6, <3>2, <3>3, TakesThen
      <3>5. z.cum = executed'[r]
        BY <1>14, <2>1, <2>3
      <3>6. /\ r \in DOMAIN core' => z.left = core'[r].left /\ z.left > 0
            /\ r \notin DOMAIN core' /\ ~Entering(z) => z.left = 0
            /\ Entering(z) => r \notin DOMAIN core'
        BY <1>13, <2>1, <2>3
      <3>7. Ends(r, z)'
        BY <2>1, <3>5, <3>6 DEF Ends
      <3> QED
        BY <3>4, <3>7
    <2> QED
      BY <2>2, <2>3
  <1>16. /\ executed' \in [OrderId -> Nat]
         /\ \A r \in DOMAIN core' : r < next_numeric_order_id
         /\ \A r \in OrderId : r >= next_numeric_order_id => executed'[r] = 0
    <2>1. executed' \in [OrderId -> Nat]
      BY <1>1, <1>2
    <2>2. \A r \in DOMAIN core' : r < next_numeric_order_id
      BY <1>11 DEF QuantityInv, NumbersKnown
    <2>3. ASSUME NEW r \in OrderId, r >= next_numeric_order_id PROVE executed'[r] = 0
      <3>1. r # id
        BY <1>1, <1>2, <2>3 DEF OrderId
      <3> QED
        BY <1>14, <2>3, <3>1 DEF QuantityInv, NumbersKnown
    <2> QED
      BY <2>1, <2>2, <2>3
  <1> QED
    BY <1>6, <1>8, <1>9, <1>15, <1>16, ExchangeKeepsQuantities

\* The exchange handles a request.
LEMMA CoreKeepsQuantities ==
    ASSUME QuantityInv, SessionInv', Core
    PROVE  QuantityInv'
  <1>1. ASSUME NEW kind \in {"New", "Replace"}, CoreTakes(kind, TRUE), NEW side,
               NEW rests \in BOOLEAN,
               kind = "New" => rests = Head(to_core).rests,
               kind = "Replace" => rests /\ Head(to_core).id \in DOMAIN core,
               CoreMatches(Head(to_core).id, side, rests, Head(to_core).quantity)
        PROVE  QuantityInv'
    <2>1. Head(to_core) \in Request
      BY <1>1, RequestKnown
    <2>2. PICK id \in OrderId, quantity \in Nat :
              id = Head(to_core).id /\ quantity = Head(to_core).quantity
      BY <2>1 DEF Request
    <2> QED
      BY <1>1, <2>2, MatchKeepsQuantities
  <1>2. CASE CoreNewOrder
    <2>1. CASE /\ CoreTakes("New", TRUE)
               /\ CoreMatches(Head(to_core).id, Head(to_core).side, Head(to_core).rests,
                              Head(to_core).quantity)
      <3>1. Head(to_core) \in Request
        BY <2>1, RequestKnown
      <3>2. PICK side \in Side, rests \in BOOLEAN :
                side = Head(to_core).side /\ rests = Head(to_core).rests
        BY <3>1 DEF Request
      <3> QED
        BY <1>1, <2>1, <3>2
    <2> QED
      BY <1>2, <2>1, RefusalKeepsQuantities DEF CoreNewOrder
  <1>3. CASE CoreCancel
    BY <1>3, RefusalKeepsQuantities, CoreCancelKeepsQuantities DEF CoreCancel
  <1>4. CASE CoreReplace
    <2>1. CASE /\ CoreTakes("Replace", TRUE)
               /\ Head(to_core).id \in DOMAIN core
               /\ CoreMatches(Head(to_core).id, core[Head(to_core).id].side, TRUE,
                              Head(to_core).quantity)
      <3>1. PICK side : side = core[Head(to_core).id].side
        OBVIOUS
      <3>2. /\ CoreMatches(Head(to_core).id, side, TRUE, Head(to_core).quantity)
            /\ TRUE \in BOOLEAN /\ "Replace" \in {"New", "Replace"}
        BY <2>1, <3>1
      <3> QED
        BY <1>1, <2>1, <3>2
    <2> QED
      BY <1>4, <2>1, RefusalKeepsQuantities DEF CoreReplace
  <1> QED
    BY <1>2, <1>3, <1>4 DEF Core

\* Somebody's order comes in.
LEMMA CoreOtherKeepsQuantities ==
    ASSUME QuantityInv, SessionInv', CoreOtherOrder
    PROVE  QuantityInv'
  <1>1. /\ UNCHANGED <<phase, next_numeric_order_id, orders, requestVars, trackVars, to_core,
                       core_up>>
        /\ phase # "closed"
    BY DEF CoreOtherOrder
  <1>2. CASE from_core = <<>> /\ from_core' = <<Updated>> /\ UNCHANGED <<core, executed>>
    BY <1>1, <1>2, OtherUpdateKeepsQuantities
  <1>3. ASSUME NEW id \in DOMAIN core, NEW quantity \in 1 .. core[id].left,
               from_core' = from_core \o <<TradeOf(id, core[id].side,
                                                   [with |-> Other, quantity |-> quantity]),
                                           Updated>>,
               core' = LessFilled(core, <<[with |-> id, quantity |-> quantity]>>),
               executed' = [executed EXCEPT ![id] = @ + quantity]
        PROVE  QuantityInv'
    <2>1. PICK side : side = core[id].side
      OBVIOUS
    <2>2. from_core' = from_core \o <<TradeOf(id, side, [with |-> Other, quantity |-> quantity]),
                                      Updated>>
      BY <1>3, <2>1
    <2> QED
      BY <1>1, <1>3, <2>2, OtherTradeKeepsQuantities
  <1> QED
    BY <1>2, <1>3 DEF CoreOtherOrder, Updated

-----------------------------------------------------------------------------
(* Every step *)

\* Every step keeps every order on its way.
LEMMA NextQuantityInv == QuantityInv /\ [Next]_vars => QuantityInv'
  <1> SUFFICES ASSUME QuantityInv, [Next]_vars PROVE QuantityInv'
    OBVIOUS
  <1>0. SessionInv'
    BY NextSessionInv DEF QuantityInv
  <1>1. CASE Logon
    <2>1. /\ UNCHANGED <<orders, pending, trackVars, to_core, from_core, core_up, core, executed>>
          /\ next_numeric_order_id' = next_numeric_order_id /\ phase # "closed"
      BY <1>1 DEF Logon, requestVars, coreVars
    <2> QED
      BY <1>0, <2>1, QuantitiesSame
  <1>2. CASE \E name \in ClOrdId : \E o \in NewOrderSingle : handle_new_order(name, o)
    BY <1>2, NewOrderKeepsQuantities
  <1>3. CASE \E name \in ClOrdId : \E orig \in OrigClOrdId(name) : handle_cancel(name, orig)
    BY <1>3, CancelKeepsQuantities
  <1>4. CASE \E name \in ClOrdId :
                 \E orig \in OrigClOrdId(name), total \in 1 .. MaxQuantity :
                     handle_replace(name, orig, total)
    BY <1>4, ReplaceKeepsQuantities
  <1>5. CASE process_core_message
    BY <1>5, ResponseKeepsQuantities, TradeKeepsQuantities, BookUpdateKeepsQuantities
       DEF process_core_message
  <1>6. CASE ClientGone \/ CoreGone
    BY <1>6, CloseKeepsQuantities DEF ClientGone, CoreGone
  <1>7. CASE CoreStops
    BY <1>0, <1>7, CoreStopsKeepsQuantities
  <1>8. CASE Core
    BY <1>0, <1>8, CoreKeepsQuantities
  <1>9. CASE CoreOtherOrder
    BY <1>0, <1>9, CoreOtherKeepsQuantities
  <1>10. CASE UNCHANGED vars
    <2>1. /\ UNCHANGED <<orders, pending, trackVars, to_core, from_core, core_up, core, executed>>
          /\ next_numeric_order_id' = next_numeric_order_id /\ phase' = phase
      BY <1>10 DEF vars, requestVars, trackVars, coreVars
    <2> QED
      BY <1>0, <2>1, QuantitiesSame
  <1> QED
    BY <1>1, <1>2, <1>3, <1>4, <1>5, <1>6, <1>7, <1>8, <1>9, <1>10 DEF Next

\* The invariant of quantities holds of every behaviour.
LEMMA SpecQuantityInv == Spec => []QuantityInv
  BY InitQuantityInv, NextQuantityInv, PTL DEF Spec

\* On a connection with nothing under way an order is where it ends.
LEMMA QuantitiesReported == QuantityInv => FillsReported
  <1> SUFFICES ASSUME QuantityInv, phase = "logged_on", NEW id \in DOMAIN orders
               PROVE  /\ core_up /\ to_core = <<>> /\ from_core = <<>> =>
                            /\ orders[id].cumulative_quantity = executed[id]
                            /\ orders[id].leaves_quantity
                                  = IF id \in DOMAIN core THEN core[id].left ELSE 0
                      /\ orders[id].leaves_quantity > 0 /\ id \notin overtaken =>
                            orders[id].order_quantity
                               = orders[id].cumulative_quantity + orders[id].leaves_quantity
    BY DEF FillsReported
  <1>1. orders[id].leaves_quantity > 0 /\ id \notin overtaken =>
            orders[id].order_quantity
               = orders[id].cumulative_quantity + orders[id].leaves_quantity
    BY DEF QuantityInv, SumsUp
  <1>2. ASSUME core_up, to_core = <<>>, from_core = <<>>
        PROVE  /\ orders[id].cumulative_quantity = executed[id]
               /\ orders[id].leaves_quantity = IF id \in DOMAIN core THEN core[id].left ELSE 0
    <2>1. id \in OrderId /\ SessionInv
      BY DEF QuantityInv, SessionInv, TypeOK, IsMap
    <2>2. PICK z : Takes(id, View(id), from_core, z) /\ Ends(id, z)
      BY <2>1 DEF QuantityInv, Tracked
    <2>3. z = View(id)
      <3>1. Len(from_core) = 0
        BY <1>2
      <3> QED
        BY <2>2, <3>1 DEF Takes
    <2>4. ~Entering(z)
      <3>1. z \in Views
        BY <2>1, <2>3, ViewIsView
      <3>2. PICK g \in [1 .. Len(z.asks) -> 1 .. Len(to_core)] : TRUE
        BY <1>2, <2>2 DEF Ends, Awaits
      <3>3. 1 .. Len(to_core) = {}
        BY <1>2
      <3>4. 1 \notin 1 .. Len(z.asks)
        BY <3>2, <3>3
      <3>5. z.asks \in Seq(PendingRequest)
        BY <3>1 DEF Views
      <3>6. z.asks = <<>>
        BY <3>4, <3>5
      <3> QED
        BY <3>6 DEF Entering
    <2>5. z.left = orders[id].leaves_quantity /\ z.cum = orders[id].cumulative_quantity
      BY <2>3, ViewFields
    <2> QED
      BY <2>2, <2>4, <2>5 DEF Ends
  <1> QED
    BY <1>1, <1>2

\* An order that has nothing left is left alone by every message that may come.
LEMMA DoneStaysDone ==
    ASSUME QuantityInv, [Next]_vars, phase' = "logged_on", NEW id \in DOMAIN orders,
           orders[id].ord_status \in {"filled", "canceled"}
    PROVE  id \in DOMAIN orders' /\ orders'[id] = orders[id]
  <1>1. /\ SessionInv /\ id \in OrderId /\ orders[id].leaves_quantity = 0
        /\ DOMAIN orders \subseteq OrderId
    BY DEF QuantityInv, SessionInv, TypeOK, IsMap, SumsUp
  <1>2. CASE UNCHANGED orders
    BY <1>2
  <1>3. ASSUME NEW name \in ClOrdId, NEW o \in NewOrderSingle, handle_new_order(name, o)
        PROVE  id \in DOMAIN orders' /\ orders'[id] = orders[id]
    <2>1. CASE \E order : orders' = Put(orders, next_numeric_order_id, order)
      <3>1. id # next_numeric_order_id
        <4>1. next_numeric_order_id \in OrderId
          BY <1>3 DEF handle_new_order
        <4>2. next_numeric_order_id \notin DOMAIN orders
          BY <1>1, <4>1 DEF SessionInv, NumbersFresh, OrderId
        <4> QED
          BY <4>2
      <3> QED
        BY <2>1, <3>1 DEF Put
    <2> QED
      BY <1>2, <1>3, <2>1 DEF handle_new_order, Reject
  <1>4. ASSUME NEW m, from_core # <<>>, m = Head(from_core), phase # "closed"
        PROVE  /\ Answers(m, id) => ~m.success /\ pending[id] # <<>> /\ Head(pending[id]).kind # "New"
               /\ ~Fills(m, id)
    <2>1. PICK z : Takes(id, View(id), from_core, z)
      BY <1>1, <1>4 DEF QuantityInv, Tracked
    <2>2. from_core \in Seq(CoreMessage)
      BY <1>1 DEF SessionInv, ConnectionType
    <2>3. Fits(id, m, View(id))
      BY <1>4, <2>1, <2>2, TakesFirst
    <2>4. View(id).left = 0 /\ View(id).asks = pending[id]
      BY <1>1, ViewFields
    <2>5. 1 .. 0 = {}
      OBVIOUS
    <2> QED
      BY <2>3, <2>4, <2>5 DEF Fits, Entering
  <1>5. CASE handle_core_order_response
    <2> DEFINE m == Head(from_core)
    <2>1. /\ from_core # <<>> /\ phase # "closed" /\ m.kind = "response"
          /\ from_core \in Seq(CoreMessage)
      BY <1>1, <1>5 DEF handle_core_order_response, Receive, extract_core_message, SessionInv,
             ConnectionType
    <2>2. m \in CoreMessage
      BY <2>1
    <2>3. PICK r \in OrderId : r = m.id
      BY <2>1, <2>2, MessageParts DEF Response
    <2>4. \/ UNCHANGED orders
          \/ orders' = IF Head(pending[r]).kind = "New" /\ ~m.success THEN Erase(orders, r)
                       ELSE Put(orders, r, Respond(orders[r], Head(pending[r]), m.success))
      BY <1>5, <2>3 DEF handle_core_order_response
    <2>5. CASE r = id
      <3>1. Answers(m, id)
        BY <2>1, <2>3, <2>5 DEF Answers
      <3>2. ~m.success /\ Head(pending[id]).kind # "New"
        BY <1>4, <2>1, <3>1
      <3>3. Respond(orders[id], Head(pending[id]), m.success) = orders[id]
        BY <3>2 DEF Respond
      <3>4. UNCHANGED orders \/ orders' = Put(orders, id, orders[id])
        BY <2>4, <2>5, <3>2, <3>3
      <3> QED
        BY <3>4 DEF Put
    <2>6. CASE r # id
      BY <2>4, <2>6 DEF Put, Erase, Restrict
    <2> QED
      BY <2>5, <2>6
  <1>6. CASE handle_core_trade
    <2> DEFINE m == Head(from_core)
               named == {m.trade.buy, m.trade.sell}
               both == Cardinality(named \cap DOMAIN orders) = 2
               copy == both /\ self_trade.ignore /\ self_trade.trade = m.trade
    <2>1. from_core # <<>> /\ phase # "closed" /\ m.kind = "trade"
      BY <1>6 DEF handle_core_trade, Receive, extract_core_message
    <2>2. copy <=> IsCopy(m)
      BY <1>6, CopyIsTold, Zenon
    <2>3. copy => UNCHANGED orders
      BY <1>6 DEF handle_core_trade
    <2>4. ~copy => orders' = [x \in DOMAIN orders |->
                                 IF x \in named \cap DOMAIN orders
                                 THEN apply_trade_to_order(orders[x], m.trade.quantity)
                                 ELSE orders[x]]
      BY <1>6 DEF handle_core_trade
    <2>5. ~Fills(m, id)
      BY <1>4, <2>1
    <2> HIDE DEF copy, both
    <2>6. ~copy => id \notin named
      BY <2>1, <2>2, <2>5 DEF Fills
    <2> HIDE DEF named, m
    <2> QED
      BY <2>3, <2>4, <2>6
  <1>7. CASE finalize_non_resting_orders
    <2>1. ~(orders[id].leaves_quantity > 0)
      BY <1>1
    <2>2. /\ DOMAIN orders' = DOMAIN orders
          /\ orders'[id] = IF id \in non_resting_awaiting_boundary /\ orders[id].leaves_quantity > 0
                           THEN [orders[id] EXCEPT !.leaves_quantity = 0,
                                                   !.ord_status = "canceled"]
                           ELSE orders[id]
      BY <1>7 DEF finalize_non_resting_orders
    <2> QED
      BY <2>1, <2>2
  <1>8. CASE ClientGone \/ CoreGone
    BY <1>8 DEF ClientGone, CoreGone, Close
  <1>9. CASE Logon \/ CoreStops \/ Core \/ CoreOtherOrder \/ UNCHANGED vars
    <2>1. ASSUME NEW kind, NEW success, CoreTakes(kind, success) PROVE UNCHANGED orders
      BY <2>1 DEF CoreTakes
    <2>2. Core => \E kind, success : CoreTakes(kind, success)
      BY DEF Core, CoreNewOrder, CoreCancel, CoreReplace, CoreRejects
    <2>3. Logon \/ CoreStops \/ CoreOtherOrder \/ UNCHANGED vars => UNCHANGED orders
      BY DEF Logon, CoreStops, CoreOtherOrder, vars
    <2> QED
      BY <1>2, <1>9, <2>1, <2>2, <2>3
  <1>10. ASSUME NEW name \in ClOrdId, NEW orig,
                \/ handle_cancel(name, orig)
                \/ \E total \in 1 .. MaxQuantity : handle_replace(name, orig, total)
         PROVE  UNCHANGED orders
    BY <1>10 DEF handle_cancel, handle_replace, Reject
  <1> QED
    BY <1>2, <1>3, <1>5, <1>6, <1>7, <1>8, <1>9, <1>10 DEF Next, process_core_message

\* What the client has been told of an order is what the exchange has done with it,
\* as soon as nothing is under way on a connection that is open: CumQty is what has been
\* traded and LeavesQty what is in the book, through self trades of which two copies come,
\* fills that cross a cancel or a replace, refused orders and orders that do not rest.
THEOREM SessionFillsReported == Spec => []FillsReported
  BY SpecQuantityInv, QuantitiesReported, PTL

\* An order that was reported as filled or canceled is never reported otherwise: no
\* response, fill or book update that is still on the connection moves it.
THEOREM SessionDoneIsDone == Spec => DoneIsDone
  <1>1. QuantityInv /\ [Next]_vars =>
            [phase' = "logged_on" =>
                \A id \in DOMAIN orders : orders[id].ord_status \in {"filled", "canceled"} =>
                    id \in DOMAIN orders' /\ orders'[id] = orders[id]]_vars
    BY DoneStaysDone
  <1> QED
    BY <1>1, SpecQuantityInv, PTL DEF Spec, DoneIsDone
=============================================================================
