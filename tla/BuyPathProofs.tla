---- MODULE BuyPathProofs ----
(***************************************************************************)
(* Theorems about a checkout from end to end, for any products, prices,    *)
(* checkouts and shopping calls.                                           *)
(***************************************************************************)
EXTENDS BuyPath, CartProofs

-----------------------------------------------------------------------------
(* Types, and what an answer says of the order.                            *)

\* An order is made between the call to orders and the answer.
PlaceInv ==
    \A c \in Checkouts :
        /\ at[c] \notin {"clear", "respond", "done", "dead"} => ordered[c] = NoOrder
        /\ at[c] \in {"clear", "respond"} => ordered[c] # NoOrder
        /\ reply[c] # "none" => at[c] = "done"

BuyInv == TypeOK /\ CartsWellFormed /\ PlaceInv /\ RepliesTruthful

LEMMA BuyInvInit == Init => BuyInv
<1> SUFFICES ASSUME Init PROVE BuyInv
  OBVIOUS
<1>1. IInv
  BY InitInv DEF Init
<1> QED BY <1>1 DEF Init, BuyInv, IInv, TypeOK, PlaceInv, RepliesTruthful, Places

\* The requests a chain sends: it makes up no line, only sends on those it has read.
ChainOps(c) ==
    {Get(Anon), Get(User), Clear(Anon), Clear(User)}
      \cup {Ask("add", User, it.id, it.price, it.qty) : it \in lines[c] \cup todo[c]}

\* The requests of the shopper.
ShopOps == {Ask("add", Anon, p, c, 1) : p \in Products, c \in Prices}

LEMMA RequestsAreOps ==
  ASSUME BuyInv
  PROVE  /\ \A c \in Checkouts : ChainOps(c) \subseteq Op
         /\ ShopOps \subseteq Op
<1>1. AnyProduct \in Products /\ AnyPrice \in Prices
  BY CartConstants DEF AnyProduct, AnyPrice
<1>2. Anon \in Sessions /\ User \in Sessions
  BY BuyPathConstants
<1>3. \A c \in Checkouts : lines[c] \subseteq Item /\ todo[c] \subseteq Item
  BY BuyPathConstants DEF BuyInv, TypeOK, CartTypeOK
<1>4. 0 \in Ints /\ 1 \in Ints
  BY MaxIntConstant DEF Ints
<1> QED BY <1>1, <1>2, <1>3, <1>4 DEF ChainOps, ShopOps, Get, Clear, Ask, Op, Kinds, Item

\* A chain changes the cart service only by a request of its own.
LEMMA ChainSends ==
  ASSUME NEW c \in Checkouts, Submit(c) \/ Step(c) \/ Crash(c)
  PROVE  UNCHANGED cartVars \/ \E op \in ChainOps(c) : Receive(c, op)
<1>1. CASE Submit(c) \/ Crash(c)
  BY <1>1 DEF Submit, Crash
<1>2. CASE SignedIn(c)
  BY <1>2 DEF SignedIn, ChainOps
<1>3. CASE MergeRead(c)
  BY <1>3 DEF MergeRead, MergeLine, ChainOps
<1>4. CASE MergeNext(c)
  BY <1>4 DEF MergeNext, MergeLine, ChainOps
<1>5. CASE Forward(c)
  BY <1>5 DEF Forward, ChainOps
<1>6. CASE OrderPlaced(c)
  BY <1>6 DEF OrderPlaced, ChainOps
<1>7. CASE NoHeader(c) \/ NotSignedIn(c) \/ MergeDone(c) \/ ForwardFails(c) \/ Fetched(c)
            \/ OrderDeclined(c) \/ OrderRejected(c) \/ OrderFails(c)
            \/ ClearDone(c) \/ Respond(c) \/ RespondLate(c)
  BY <1>7 DEF NoHeader, NotSignedIn, MergeDone, ForwardFails, Fetched, OrderDeclined,
               OrderRejected, OrderFails, ClearDone, Respond, RespondLate
<1> QED BY <1>1, <1>2, <1>3, <1>4, <1>5, <1>6, <1>7 DEF Step

LEMMA CartInvStays ==
  ASSUME BuyInv, [Next]_vars
  PROVE  CartTypeOK' /\ CartsWellFormed'
<1> SUFFICES IInv'
  BY DEF IInv
<1>0. IInv
  BY DEF BuyInv, TypeOK, IInv
<1>1. ASSUME NEW h \in Calls, NEW op \in Op, Receive(h, op) PROVE IInv'
  BY <1>0, <1>1, ReceiveInv
<1>2. CASE UNCHANGED cartVars
  BY <1>0, <1>2 DEF cartVars, IInv, CartTypeOK, CartsWellFormed, Versions, WellFormed, Positive
<1>3. ASSUME NEW c \in Checkouts, Submit(c) \/ Step(c) \/ Crash(c) PROVE IInv'
  <2>1. UNCHANGED cartVars \/ \E op \in ChainOps(c) : Receive(c, op)
    BY <1>3, ChainSends
  <2>2. c \in Calls /\ ChainOps(c) \subseteq Op
    BY BuyPathConstants, RequestsAreOps
  <2> QED BY <1>1, <1>2, <2>1, <2>2
<1>4. ASSUME NEW b \in Shopping, Shop(b) PROVE IInv'
  <2>1. PICK op \in ShopOps : Receive(b, op)
    BY <1>4 DEF Shop, ShopOps
  <2>2. b \in Calls /\ op \in Op
    BY RequestsAreOps DEF Shopping
  <2> QED BY <1>1, <2>1, <2>2
<1>5. ASSUME NEW h \in Calls, Cart(h) PROVE IInv'
  <2>1. CASE Read(h)
    BY <1>0, <2>1, ReadInv
  <2>2. CASE Write(h)
    BY <1>0, <2>2, PutInv DEF Write, Stages
  <2>3. CASE Reply(h)
    BY <1>0, <2>3, PutInv DEF Reply, Stages
  <2>4. CASE Fail(h)
    BY <1>0, <2>4, PutInv DEF Fail, Stages
  <2> QED BY <1>5, <2>1, <2>2, <2>3, <2>4 DEF Cart, Serve
<1>6. CASE AllDone \/ UNCHANGED vars
  BY <1>2, <1>6 DEF AllDone, vars
<1> QED BY <1>3, <1>4, <1>5, <1>6 DEF Next

ChainTypes ==
    /\ at \in [Checkouts -> Places]
    /\ todo \in [Checkouts -> SUBSET Item]
    /\ basket \in [Checkouts -> SUBSET Item]
    /\ ordered \in [Checkouts -> {NoOrder} \cup Order]
    /\ reply \in [Checkouts -> {"none", "placed", "declined", "400", "401", "502"}]

\* A chain changes its own part of the state.
LEMMA ChainOwn ==
  ASSUME ChainTypes, NEW c \in Checkouts, Submit(c) \/ Step(c) \/ Crash(c)
  PROVE  \A d \in Checkouts \ {c} :
            /\ at'[d] = at[d] /\ todo'[d] = todo[d] /\ basket'[d] = basket[d]
            /\ ordered'[d] = ordered[d] /\ reply'[d] = reply[d]
<1> SUFFICES ASSUME NEW d \in Checkouts, d # c
             PROVE  /\ at'[d] = at[d] /\ todo'[d] = todo[d] /\ basket'[d] = basket[d]
                    /\ ordered'[d] = ordered[d] /\ reply'[d] = reply[d]
  OBVIOUS
<1> USE DEF ChainTypes, chain, Move, Answer
<1>1. CASE Submit(c) \/ Crash(c) \/ SignedIn(c) \/ NoHeader(c) \/ NotSignedIn(c) \/ MergeDone(c)
            \/ Forward(c) \/ ForwardFails(c)
  BY <1>1 DEF Submit, Crash, SignedIn, NoHeader, NotSignedIn, MergeDone, Forward, ForwardFails
<1>2. CASE MergeRead(c) \/ MergeNext(c)
  BY <1>2 DEF MergeRead, MergeNext, MergeLine
<1>3. CASE Fetched(c)
  BY <1>3 DEF Fetched
<1>4. CASE OrderPlaced(c) \/ OrderDeclined(c) \/ OrderRejected(c) \/ OrderFails(c)
  BY <1>4 DEF OrderPlaced, OrderDeclined, OrderRejected, OrderFails
<1>5. CASE ClearDone(c) \/ Respond(c) \/ RespondLate(c)
  BY <1>5 DEF ClearDone, Respond, RespondLate
<1> QED BY <1>1, <1>2, <1>3, <1>4, <1>5 DEF Step

\* The rest of the invariant changes with a chain only.
LEMMA ChainInv ==
  ASSUME BuyInv, NEW c \in Checkouts, Submit(c) \/ Step(c) \/ Crash(c)
  PROVE  ChainTypes' /\ PlaceInv' /\ RepliesTruthful'
<1>1. ChainTypes /\ PlaceInv /\ RepliesTruthful
  BY DEF BuyInv, TypeOK, ChainTypes
<1>2. lines[c] \subseteq Item
  BY BuyPathConstants DEF BuyInv, TypeOK, CartTypeOK
<1>3. /\ Buy(basket[c]) \in Order /\ Refuse(basket[c]) \in Order
      /\ Buy(basket[c]) # NoOrder /\ Refuse(basket[c]) # NoOrder
  <2>1. Buy(basket[c]) \in Order /\ Refuse(basket[c]) \in Order
    BY <1>1 DEF ChainTypes, Buy, Refuse, Order
  <2> QED BY <2>1, BuyPathConstants
<1>4. ordered[c] # NoOrder => ordered[c].status \in {"placed", "declined"}
  BY <1>1 DEF ChainTypes, Order
<1> USE <1>1 DEF ChainTypes, PlaceInv, RepliesTruthful, Places, chain, Move, Answer
<1>5. CASE Submit(c)
  BY <1>5 DEF Submit
<1>6. CASE Crash(c)
  BY <1>3, <1>6 DEF Crash, Running
<1>7. CASE SignedIn(c) \/ NoHeader(c) \/ NotSignedIn(c)
  BY <1>7 DEF SignedIn, NoHeader, NotSignedIn
<1>8. CASE MergeRead(c)
  BY <1>2, <1>8 DEF MergeRead, MergeLine
<1>9. CASE MergeNext(c)
  BY <1>9 DEF MergeNext, MergeLine
<1>10. CASE MergeDone(c) \/ Forward(c) \/ ForwardFails(c)
  BY <1>10 DEF MergeDone, Forward, ForwardFails
<1>11. CASE Fetched(c)
  BY <1>2, <1>11 DEF Fetched
<1>12. CASE OrderPlaced(c)
  BY <1>3, <1>12 DEF OrderPlaced
<1>13. CASE OrderDeclined(c)
  BY <1>3, <1>13 DEF OrderDeclined
<1>14. CASE OrderRejected(c)
  BY <1>14 DEF OrderRejected
<1>15. CASE OrderFails(c)
  BY <1>3, <1>15 DEF OrderFails
<1>16. CASE ClearDone(c)
  BY <1>16 DEF ClearDone
<1>17. CASE Respond(c)
  BY <1>4, <1>17 DEF Respond
<1>18. CASE RespondLate(c)
  BY <1>18 DEF RespondLate
<1> QED BY <1>5, <1>6, <1>7, <1>8, <1>9, <1>10, <1>11, <1>12, <1>13, <1>14, <1>15, <1>16,
           <1>17, <1>18 DEF Step

LEMMA BuyInvNext == BuyInv /\ [Next]_vars => BuyInv'
<1> SUFFICES ASSUME BuyInv, [Next]_vars PROVE BuyInv'
  OBVIOUS
<1>1. CartTypeOK' /\ CartsWellFormed'
  BY CartInvStays
<1>2. ChainTypes' /\ PlaceInv' /\ RepliesTruthful'
  <2>1. CASE \E c \in Checkouts : Submit(c) \/ Step(c) \/ Crash(c)
    BY <2>1, ChainInv
  <2>2. CASE UNCHANGED <<at, chain>>
    BY <2>2 DEF chain, BuyInv, TypeOK, ChainTypes, PlaceInv, RepliesTruthful
  <2> QED BY <2>1, <2>2 DEF Next, Shop, Cart, AllDone, vars, chain
<1> QED BY <1>1, <1>2 DEF BuyInv, TypeOK, ChainTypes

LEMMA BuyInvHolds == Spec => []BuyInv
BY BuyInvInit, BuyInvNext, PTL DEF Spec

\* Every variable of the buy path and of the carts under it keeps its type.
THEOREM BuyPathTypeCorrect == Spec => []TypeOK
<1>1. BuyInv => TypeOK
  BY DEF BuyInv
<1> QED BY <1>1, BuyInvHolds, PTL

\* Placed and declined are said of durable orders only, and 400 and 401 only where
\* there is none, whatever fails, dies, interleaves or is read late.
THEOREM RepliesAreTruthful == Spec => []RepliesTruthful
<1>1. BuyInv => RepliesTruthful
  BY DEF BuyInv
<1> QED BY <1>1, BuyInvHolds, PTL
-----------------------------------------------------------------------------
(* What is ordered.                                                        *)

\* The shopper put the product into the cart at this price.
Priced(it) ==
    \E b \in Shopping : call[b] # "idle" /\ request[b].id = it.id /\ request[b].price = it.price
AllPriced(items) == \A it \in items : Priced(it)

\* Positive quantities, but for one that overflowed.
Sized(items) == wrapped \/ Positive(items)

\* A set of lines that may be ordered.
Orderable(items) == items # {} /\ WellFormed(items) /\ AllPriced(items) /\ Sized(items)

\* Prices are only ever passed on: in the documents and their old versions, in the
\* handlers' copies and requests, and in what the chains have read.
PricesInCarts ==
    /\ \A s \in Sessions : \A items \in Versions(s) : AllPriced(items)
    /\ \A h \in Calls : AllPriced(lines[h])
    /\ \A h \in Calls : Busy(h) /\ request[h].kind = "add" => Priced(request[h])
PricesInChains ==
    \A c \in Checkouts :
        /\ AllPriced(todo[c]) /\ WellFormed(todo[c]) /\ Sized(todo[c])
        /\ at[c] = "place" => Orderable(basket[c])
        /\ ordered[c] # NoOrder => Orderable(ordered[c].lines)

PricedInv == PricesInCarts /\ PricesInChains

LEMMA PricedInit == Init => PricedInv
BY DEF Init, CartInit, PricedInv, PricesInCarts, PricesInChains, AllPriced, WellFormed, Sized, Positive,
   Versions, Busy

\* The shopper's requests stay as they are.
LEMMA PricedStays ==
  ASSUME BuyInv, [Next]_vars
  PROVE  \A it : Priced(it) => Priced(it)'
<1> SUFFICES ASSUME NEW b \in Shopping, call[b] # "idle"
             PROVE  call'[b] # "idle" /\ request'[b] = request[b]
  BY DEF Priced
<1>0. /\ b \in Calls /\ \A c \in Checkouts : c # b
      /\ \A h \in Calls : call[h] \in Stages /\ call \in [Calls -> Stages] /\ request \in [Calls -> Op]
  BY DEF Shopping, BuyInv, TypeOK, CartTypeOK
<1>1. ASSUME NEW h, h # b, NEW op, Receive(h, op)
      PROVE  call'[b] # "idle" /\ request'[b] = request[b]
  BY <1>0, <1>1 DEF Receive, Goto
<1>2. CASE UNCHANGED cartVars
  BY <1>2 DEF cartVars
<1>3. ASSUME NEW c \in Checkouts, Submit(c) \/ Step(c) \/ Crash(c)
      PROVE  call'[b] # "idle" /\ request'[b] = request[b]
  <2>1. UNCHANGED cartVars \/ \E op \in ChainOps(c) : Receive(c, op)
    BY <1>3, ChainSends
  <2> QED BY <1>0, <1>1, <1>2, <2>1
<1>4. ASSUME NEW g \in Shopping, Shop(g) PROVE call'[b] # "idle" /\ request'[b] = request[b]
  BY <1>1, <1>4 DEF Shop
<1>5. ASSUME NEW h \in Calls, Cart(h) PROVE call'[b] # "idle" /\ request'[b] = request[b]
  BY <1>0, <1>5 DEF Cart, Serve, Read, Write, Reply, Fail, Goto
<1>6. CASE AllDone \/ UNCHANGED vars
  BY <1>2, <1>6 DEF AllDone, vars
<1> QED BY <1>3, <1>4, <1>5, <1>6 DEF Next

\* A request that is received is priced, as the lines it is for.
LEMMA PricedReceive ==
  ASSUME BuyInv, PricesInCarts, \A it : Priced(it) => Priced(it)',
         NEW h \in Calls, NEW op \in Op, Receive(h, op), op.kind = "add" => Priced(op)'
  PROVE  PricesInCarts'
<1>1. /\ UNCHANGED <<table, past>> /\ lines'[h] = {} /\ request'[h] = op
      /\ \A g \in Calls \ {h} : call'[g] = call[g] /\ request'[g] = request[g] /\ lines'[g] = lines[g]
  BY DEF Receive, Goto, store, BuyInv, TypeOK, CartTypeOK
<1>2. \A s \in Sessions : Versions(s)' = Versions(s)
  BY <1>1 DEF Versions
<1>3. \A s \in Sessions : \A items \in Versions(s)' : \A it \in items : Priced(it)'
  BY <1>2 DEF PricesInCarts, AllPriced
<1>4. ASSUME NEW g \in Calls PROVE \A it \in lines'[g] : Priced(it)'
  BY <1>1 DEF PricesInCarts, AllPriced
<1>5. ASSUME NEW g \in Calls, Busy(g)', request'[g].kind = "add"
      PROVE  \E b \in Shopping : call'[b] # "idle" /\ request'[b].id = request'[g].id
                                 /\ request'[b].price = request'[g].price
  <2>1. CASE g = h
    BY <1>1, <1>5, <2>1 DEF Priced
  <2>2. CASE g # h
    <3>1. Busy(g) /\ request[g].kind = "add" /\ request'[g] = request[g]
      BY <1>1, <1>5, <2>2 DEF Busy
    <3>2. Priced(request[g])'
      BY <3>1 DEF PricesInCarts
    <3> QED BY <3>1, <3>2 DEF Priced
  <2> QED BY <2>1, <2>2
<1> QED BY <1>3, <1>4, <1>5 DEF PricesInCarts, AllPriced, Priced

\* What a handler reads and changes is priced as the document and the request are.
LEMMA PricedServe ==
  ASSUME BuyInv, PricesInCarts, \A it : Priced(it) => Priced(it)',
         NEW h \in Calls, Serve(h)
  PROVE  PricesInCarts'
<1>0. /\ table \in [Sessions -> Carts] /\ past \in [Sessions -> SUBSET Carts]
      /\ lines \in [Calls -> Carts] /\ call \in [Calls -> Stages]
      /\ request[h] \in Op /\ request[h].session \in Sessions
  BY DEF BuyInv, TypeOK, CartTypeOK, Carts, Op
<1>1. UNCHANGED request /\ \A g \in Calls : Busy(g)' => Busy(g)
  BY <1>0 DEF Serve, Read, Write, Reply, Fail, Goto, Busy
<1>2. \A g \in Calls : Busy(g)' /\ request'[g].kind = "add" => Priced(request[g])'
  BY <1>1 DEF PricesInCarts
<1>3. ASSUME NEW g \in Calls, Busy(g)', request'[g].kind = "add"
      PROVE  \E b \in Shopping : call'[b] # "idle" /\ request'[b].id = request'[g].id
                                 /\ request'[b].price = request'[g].price
  BY <1>1, <1>2, <1>3 DEF Priced
<1>4. CASE Read(h)
  <2>1. PICK items \in Readable(request[h].session) :
           lines' = [lines EXCEPT ![h] = Changed(items, request[h])]
    BY <1>4 DEF Read
  <2>2. items \in Carts /\ items \in Versions(request[h].session)
    BY <1>0, <2>1 DEF Readable, Versions
  <2>3. \A it \in items : Priced(it)
    BY <1>0, <2>2 DEF PricesInCarts, AllPriced
  <2>4. Busy(h)
    BY <1>4 DEF Read, Busy
  <2>5. ASSUME NEW it \in Changed(items, request[h]) PROVE Priced(it)'
    <3>1. \/ it \in items
          \/ request[h].kind = "add" /\ it.id = request[h].id /\ it.price = request[h].price
          \/ \E old \in items : old.id = it.id /\ old.price = it.price
      BY <1>0, <2>2, ChangedFrom
    <3>2. Priced(it)
      BY <2>3, <2>4, <3>1 DEF PricesInCarts, Priced
    <3> QED BY <3>2
  <2>6. \A g \in Calls : \A it \in lines'[g] : Priced(it)'
    BY <1>0, <2>1, <2>5 DEF PricesInCarts, AllPriced
  <2>7. \A s \in Sessions : Versions(s)' = Versions(s)
    BY <1>4 DEF Read, store, Versions
  <2>8. \A s \in Sessions : \A v \in Versions(s)' : \A it \in v : Priced(it)'
    BY <2>7 DEF PricesInCarts, AllPriced
  <2> QED BY <1>3, <2>6, <2>8 DEF PricesInCarts, AllPriced, Priced
<1>5. CASE Write(h) \/ Reply(h) \/ Fail(h)
  <2>1. (Put(h) \/ UNCHANGED store) /\ UNCHANGED lines
    BY <1>5 DEF Write, Reply, Fail
  <2>2. \A s \in Sessions : \A v \in Versions(s)' : v \in Versions(s) \/ v = lines[h]
    BY <1>0, <2>1 DEF Put, store, Versions
  <2>3. \A s \in Sessions : \A v \in Versions(s)' : \A it \in v : Priced(it)'
    BY <2>2 DEF PricesInCarts, AllPriced
  <2>4. \A g \in Calls : \A it \in lines'[g] : Priced(it)'
    BY <2>1 DEF PricesInCarts, AllPriced
  <2> QED BY <1>3, <2>3, <2>4 DEF PricesInCarts, AllPriced, Priced
<1> QED BY <1>4, <1>5 DEF Serve

\* The order is of what the checkout service read, which is a cart and not empty.
LEMMA PricedChain ==
  ASSUME BuyInv, PricedInv, \A it : Priced(it) => Priced(it)',
         NEW c \in Checkouts, Submit(c) \/ Step(c) \/ Crash(c)
  PROVE  PricesInChains'
<1>0. ChainTypes /\ PricesInChains /\ PlaceInv
  BY DEF BuyInv, TypeOK, ChainTypes, PricedInv
<1>1. AllPriced(lines[c]) /\ WellFormed(lines[c]) /\ Sized(lines[c])
  BY BuyPathConstants DEF PricedInv, PricesInCarts, BuyInv, TypeOK, CartTypeOK, CartsWellFormed, Sized
<1>a. wrapped' = wrapped
  <2>1. UNCHANGED cartVars \/ \E op \in ChainOps(c) : Receive(c, op)
    BY ChainSends
  <2> QED BY <2>1 DEF cartVars, Receive
<1> DEFINE Todo(d) == AllPriced(todo'[d]) /\ WellFormed(todo'[d]) /\ Sized(todo'[d])
           Place(d) == at'[d] = "place" => Orderable(basket'[d])
           Made(d) == ordered'[d] # NoOrder => Orderable(ordered'[d].lines)
<1>2. ASSUME NEW d \in Checkouts, d # c PROVE Todo(d) /\ Place(d) /\ Made(d)
  BY <1>0, <1>2, ChainOwn DEF PricesInChains
<1>3. Todo(c) /\ Place(c) /\ Made(c)
  <2>0. /\ AllPriced(todo[c]) /\ WellFormed(todo[c]) /\ Sized(todo[c])
        /\ (at[c] = "place" => Orderable(basket[c]))
        /\ (ordered[c] # NoOrder => Orderable(ordered[c].lines))
    BY <1>0 DEF PricesInChains
  <2>1. ASSUME UNCHANGED <<todo, basket, ordered>>, at'[c] # "place" PROVE Todo(c) /\ Place(c) /\ Made(c)
    BY <2>0, <2>1
  <2>2. CASE Submit(c) \/ SignedIn(c) \/ NoHeader(c) \/ NotSignedIn(c) \/ MergeDone(c)
              \/ Forward(c) \/ ForwardFails(c) \/ OrderRejected(c)
              \/ ClearDone(c) \/ Respond(c) \/ RespondLate(c)
    <3>1. UNCHANGED <<todo, basket, ordered>> /\ at'[c] # "place"
      BY <1>0, <2>2 DEF ChainTypes, chain, Move, Answer, Submit, SignedIn, NoHeader, NotSignedIn,
           MergeDone, Forward, ForwardFails, OrderRejected, ClearDone, Respond, RespondLate
    <3> QED BY <2>1, <3>1
  <2>3. CASE MergeRead(c) \/ MergeNext(c)
    <3>1. /\ todo'[c] \subseteq todo[c] \/ todo'[c] \subseteq lines[c]
          /\ at'[c] # "place"
          /\ UNCHANGED <<basket, ordered>>
      BY <1>0, <2>3 DEF ChainTypes, Move, MergeLine, MergeRead, MergeNext
    <3> QED BY <1>1, <2>0, <3>1 DEF AllPriced, WellFormed, Sized, Positive
  <2>4. CASE Fetched(c)
    <3>1. /\ at'[c] = "place" => lines[c] # {} /\ basket'[c] = lines[c]
          /\ UNCHANGED <<todo, ordered>>
      BY <1>0, <2>4 DEF ChainTypes, Move, Answer, Fetched
    <3> QED BY <1>1, <2>0, <3>1 DEF Orderable
  <2>5. CASE OrderPlaced(c) \/ OrderDeclined(c) \/ OrderFails(c) \/ (Crash(c) /\ at[c] = "place")
    <3>1. /\ at[c] = "place" /\ at'[c] # "place" /\ UNCHANGED <<todo, basket>>
          /\ ordered'[c] # NoOrder => ordered'[c].lines = basket[c]
      BY <1>0, <2>5 DEF ChainTypes, Move, Answer, OrderPlaced, OrderDeclined, OrderFails, Crash, Buy, Refuse
    <3> QED BY <2>0, <3>1
  <2>6. CASE Crash(c) /\ at[c] # "place"
    <3>1. UNCHANGED <<todo, basket, ordered>> /\ at'[c] # "place"
      BY <1>0, <2>6 DEF ChainTypes, Move, Crash
    <3> QED BY <2>1, <3>1
  <2> QED BY <2>2, <2>3, <2>4, <2>5, <2>6 DEF Step
<1>4. \A d \in Checkouts : Todo(d) /\ Place(d) /\ Made(d)
  BY <1>2, <1>3
<1> QED BY <1>a, <1>4 DEF PricesInChains, Orderable, AllPriced, Priced, Sized

\* What is sent on is priced.
LEMMA ChainOpsPriced ==
  ASSUME PricedInv, NEW c \in Checkouts
  PROVE  \A op \in ChainOps(c) : op.kind = "add" => Priced(op)
<1>1. \A it \in lines[c] \cup todo[c] : Priced(it)
  BY BuyPathConstants DEF PricedInv, PricesInCarts, PricesInChains, AllPriced
<1> QED BY <1>1 DEF ChainOps, Get, Clear, Ask, Priced

LEMMA PricedCartsNext ==
  ASSUME BuyInv, PricedInv, [Next]_vars, \A it : Priced(it) => Priced(it)'
  PROVE  PricesInCarts'
<1>0. PricesInCarts
  BY DEF PricedInv
<1>1. ASSUME NEW c \in Checkouts, Submit(c) \/ Step(c) \/ Crash(c), NEW op \in ChainOps(c), Receive(c, op)
      PROVE  PricesInCarts'
  <2>1. op \in Op /\ c \in Calls
    BY RequestsAreOps, BuyPathConstants
  <2>2. op.kind = "add" => Priced(op)
    BY ChainOpsPriced
  <2>3. op.kind = "add" => Priced(op)'
    BY <2>2
  <2> QED BY <1>0, <1>1, <2>1, <2>3, PricedReceive
<1>2. CASE UNCHANGED cartVars
  BY <1>0, <1>2 DEF cartVars, PricesInCarts, AllPriced, Priced, Versions, Busy
<1>3. ASSUME NEW c \in Checkouts, Submit(c) \/ Step(c) \/ Crash(c) PROVE PricesInCarts'
  <2>1. UNCHANGED cartVars \/ \E op \in ChainOps(c) : Receive(c, op)
    BY <1>3, ChainSends
  <2> QED BY <1>1, <1>2, <1>3, <2>1
<1>4. ASSUME NEW b \in Shopping, Shop(b) PROVE PricesInCarts'
  <2>1. PICK op \in ShopOps : Receive(b, op)
    BY <1>4 DEF Shop, ShopOps
  <2>2. b \in Calls /\ op \in Op
    BY RequestsAreOps DEF Shopping
  <2>3. call'[b] # "idle" /\ request'[b] = op
    BY <2>1, <2>2 DEF Receive, Goto, BuyInv, TypeOK, CartTypeOK
  <2>4. Priced(op)'
    BY <2>3 DEF Priced
  <2> QED BY <1>0, <2>1, <2>2, <2>4, PricedReceive
<1>5. ASSUME NEW h \in Calls, Cart(h) PROVE PricesInCarts'
  BY <1>0, <1>5, PricedServe DEF Cart
<1>6. CASE AllDone \/ UNCHANGED vars
  BY <1>2, <1>6 DEF AllDone, vars
<1> QED BY <1>3, <1>4, <1>5, <1>6 DEF Next

\* An overflow stays on record.
LEMMA WrappedStays ==
  ASSUME [Next]_vars, wrapped
  PROVE  wrapped'
<1>1. CASE \E c \in Checkouts : Submit(c) \/ Step(c) \/ Crash(c)
  <2>1. UNCHANGED cartVars \/ \E c \in Checkouts : \E op \in ChainOps(c) : Receive(c, op)
    BY <1>1, ChainSends
  <2> QED BY <2>1 DEF cartVars, Receive
<1>2. CASE \E b \in Shopping : Shop(b)
  BY <1>2 DEF Shop, Receive
<1>3. CASE \E h \in Calls : Cart(h)
  BY <1>3 DEF Cart, Serve, Read, Write, Reply, Fail
<1>4. CASE UNCHANGED vars
  BY <1>4 DEF vars, cartVars
<1> QED BY <1>1, <1>2, <1>3, <1>4 DEF Next, AllDone

LEMMA PricedNext == BuyInv /\ PricedInv /\ [Next]_vars => PricedInv'
<1> SUFFICES ASSUME BuyInv, PricedInv, [Next]_vars PROVE PricedInv'
  OBVIOUS
<1>1. \A it : Priced(it) => Priced(it)'
  BY PricedStays
<1>2. PricesInCarts'
  BY <1>1, PricedCartsNext
<1>3. PricesInChains'
  <2>1. CASE \E c \in Checkouts : Submit(c) \/ Step(c) \/ Crash(c)
    BY <1>1, <2>1, PricedChain
  <2>2. CASE UNCHANGED <<at, chain>>
    <3>1. \A c \in Checkouts : at'[c] = at[c] /\ todo'[c] = todo[c] /\ basket'[c] = basket[c]
                               /\ ordered'[c] = ordered[c]
      BY <2>2 DEF chain
    <3>2. \A items : AllPriced(items) => \A it \in items : Priced(it)'
      BY <1>1 DEF AllPriced
    <3>3. wrapped => wrapped'
      BY WrappedStays
    <3>4. \A items : Sized(items) => wrapped' \/ Positive(items)
      BY <3>3 DEF Sized
    <3>5. \A c \in Checkouts :
            /\ WellFormed(todo'[c]) /\ (\A it \in todo'[c] : Priced(it)')
            /\ wrapped' \/ Positive(todo'[c])
            /\ at'[c] = "place" => /\ basket'[c] # {} /\ WellFormed(basket'[c])
                                   /\ \A it \in basket'[c] : Priced(it)'
                                   /\ wrapped' \/ Positive(basket'[c])
            /\ ordered'[c] # NoOrder => /\ ordered'[c].lines # {} /\ WellFormed(ordered'[c].lines)
                                        /\ \A it \in ordered'[c].lines : Priced(it)'
                                        /\ wrapped' \/ Positive(ordered'[c].lines)
      BY <3>1, <3>2, <3>4 DEF PricedInv, PricesInChains, Orderable
    <3> QED BY <3>5 DEF PricesInChains, Orderable, AllPriced, Priced, WellFormed, Sized, Positive
  <2> QED BY <2>1, <2>2 DEF Next, Shop, Cart, AllDone, vars, chain
<1> QED BY <1>2, <1>3 DEF PricedInv

LEMMA PricedHolds == Spec => []PricedInv
BY BuyInvHolds, PricedInit, PricedNext, PTL DEF Spec

\* An order has one line per product, at a price the shopper put that product into
\* the cart for and in a positive quantity unless one overflowed, whatever fails, dies,
\* interleaves or is read late.
THEOREM OrdersAreExplained == Spec => []OrdersExplained
<1>1. PricedInv => OrdersExplained
  BY DEF PricedInv, PricesInChains, Orderable, AllPriced, Priced, Sized, OrdersExplained
<1> QED BY <1>1, PricedHolds, PTL

-----------------------------------------------------------------------------
(* One thing at a time: shopping calls and checkouts follow one another,   *)
(* and the table is read consistently.                                     *)

InTurn == OneAtATime /\ StaleReads = FALSE

Active(h) == Busy(h) \/ (h \in Checkouts /\ Running(h))

\* At most one handler is at work, with the cart call it has made if it is a chain.
OneActive == \A g, h \in Calls : Active(g) /\ Active(h) => g = h

\* So what is about to be written is the change of what is there.
WritesFit ==
    \A h \in Calls :
        LET items == table[request[h].session]
        IN /\ call[h] = "read" => request[h].kind \in {"get", "add"}
           /\ call[h] = "write" => /\ request[h].kind \in {"add", "clear"}
                                   /\ lines[h] = Changed(items, request[h])
                                   /\ wrapped \/ ~Overflows(items, request[h])

ShopsAdd == \A b \in Shopping : Busy(b) => request[b] \in ShopOps

\* What a chain asks for at each of its places, and what the answer is worth.
Stage(c) ==
    /\ Busy(c) => at[c] \in {"mergeGet", "mergeAdd", "mergeClear", "fetch", "clear", "dead"}
    /\ at[c] = "mergeGet" => /\ request[c] = Get(Anon)
                             /\ call[c] \in {"answer", "ok"} => lines[c] = table[Anon]
    /\ at[c] = "mergeAdd" => request[c].kind = "add" /\ request[c].session = User
    /\ at[c] = "mergeClear" => request[c] = Clear(Anon)
    /\ at[c] = "fetch" => /\ request[c] = Get(User)
                          /\ call[c] \in {"answer", "ok"} => lines[c] = table[User]
    /\ at[c] = "place" => basket[c] = table[User]
    /\ at[c] = "clear" => request[c] = Clear(User)
    /\ Busy(c) /\ request[c].kind = "add" => request[c].session = User /\ at[c] \in {"mergeAdd", "dead"}
    /\ Busy(c) /\ request[c].kind = "clear" /\ request[c].session = User =>
         PlacedBy(c) /\ table[User] \subseteq ordered[c].lines

StagesHold == \A c \in Checkouts : Stage(c)

TurnInv == OneActive /\ WritesFit /\ ShopsAdd /\ StagesHold

LEMMA TurnInit == Init => TurnInv
<1> SUFFICES ASSUME Init PROVE TurnInv
  OBVIOUS
<1>1. /\ \A h \in Calls : call[h] = "idle"
      /\ \A c \in Checkouts : at[c] = "idle" /\ c \in Calls
  BY BuyPathConstants DEF Init, CartInit
<1> QED BY <1>1 DEF TurnInv, OneActive, Active, Busy, Running, WritesFit, ShopsAdd, StagesHold, Stage,
               Shopping

\* A step of a chain: the others are at rest, and stay as they are.
LEMMA ChainAlone ==
  ASSUME InTurn, BuyInv, TurnInv, NEW c \in Checkouts, Submit(c) \/ Step(c) \/ Crash(c)
  PROVE  /\ \A h \in Calls \ {c} : ~Active(h) /\ ~Active(h)'
         /\ UNCHANGED table
         /\ \A h \in Calls \ {c} : call'[h] = call[h] /\ request'[h] = request[h] /\ lines'[h] = lines[h]
<1>1. UNCHANGED cartVars \/ \E op \in ChainOps(c) : Receive(c, op)
  BY ChainSends
<1>2. UNCHANGED table /\ \A h \in Calls \ {c} :
         call'[h] = call[h] /\ request'[h] = request[h] /\ lines'[h] = lines[h]
  BY <1>1 DEF cartVars, Receive, Goto, store, BuyInv, TypeOK, CartTypeOK
<1>3. ChainTypes /\ c \in Calls
  BY BuyPathConstants DEF BuyInv, TypeOK, ChainTypes
<1>4. \A d \in Checkouts \ {c} : at'[d] = at[d]
  BY <1>3, ChainOwn
<1>5. ASSUME Running(c), NEW h \in Calls, h # c PROVE ~Active(h)
  BY <1>3, <1>5 DEF TurnInv, OneActive, Active
<1>6. ASSUME AtRest, NEW h \in Calls PROVE ~Active(h)
  BY <1>6 DEF AtRest, Active
<1>7. Running(c) \/ AtRest
  BY DEF InTurn, Submit, Crash, Step, Running, SignedIn, NoHeader, NotSignedIn, MergeRead, MergeNext,
     MergeDone, Forward, ForwardFails, Fetched, OrderPlaced, OrderDeclined, OrderRejected, OrderFails,
     ClearDone, Respond, RespondLate
<1>8. \A h \in Calls \ {c} : ~Active(h)
  BY <1>5, <1>6, <1>7
<1> QED BY <1>2, <1>4, <1>8 DEF Active, Busy, Running

\* The stage of the chain that takes a step.
LEMMA ChainStage ==
  ASSUME InTurn, BuyInv, TurnInv, NEW c \in Checkouts, Submit(c) \/ Step(c) \/ Crash(c)
  PROVE  Stage(c)'
<1>0. /\ ChainTypes /\ PlaceInv /\ Stage(c) /\ UNCHANGED table /\ c \in Calls
      /\ call \in [Calls -> Stages] /\ request \in [Calls -> Op] /\ lines \in [Calls -> Carts]
      /\ table \in [Sessions -> Carts] /\ Anon \in Sessions /\ User \in Sessions /\ Anon # User
  BY ChainAlone, BuyPathConstants DEF BuyInv, TypeOK, CartTypeOK, ChainTypes, TurnInv, StagesHold, Carts
<1>1. CASE Submit(c) \/ NoHeader(c) \/ NotSignedIn(c) \/ MergeDone(c) \/ ForwardFails(c)
           \/ ClearDone(c) \/ Respond(c) \/ RespondLate(c) \/ OrderDeclined(c) \/ OrderRejected(c) \/ OrderFails(c)
  <2>1. ~Busy(c)' /\ at'[c] \in {"verify", "forward", "done", "respond"}
    BY <1>0, <1>1 DEF Submit, NoHeader, NotSignedIn, MergeDone, ForwardFails, ClearDone, Respond, RespondLate,
       OrderDeclined, OrderRejected, OrderFails, cartVars, chain, Move, Answer, Busy, Answered, ChainTypes, Stage
  <2> QED BY <2>1 DEF Stage
<1>2. CASE Crash(c)
  <2>1. at'[c] = "dead" /\ UNCHANGED cartVars /\ (Busy(c) => ordered'[c] = ordered[c])
    BY <1>0, <1>2 DEF Crash, Move, ChainTypes, Stage
  <2> QED BY <1>0, <2>1 DEF cartVars, Stage, Busy, PlacedBy
<1>3. ASSUME NEW op, Receive(c, op), op = Get(Anon) \/ op = Get(User) \/ op = Clear(Anon) \/ op.kind = "add"
      PROVE  /\ request'[c] = op /\ call'[c] \in {"read", "write"}
             /\ ~(request'[c].kind = "clear" /\ request'[c].session = User)
  BY <1>0, <1>3 DEF Receive, Goto, Get, Clear, Ask
<1>4. CASE SignedIn(c)
  <2>1. at'[c] = "mergeGet" /\ Receive(c, Get(Anon))
    BY <1>0, <1>4 DEF SignedIn, Move, ChainTypes
  <2>2. request'[c] = Get(Anon) /\ call'[c] \notin {"answer", "ok"} /\ ~(request'[c].kind = "clear" /\ request'[c].session = User)
    BY <1>3, <2>1
  <2> QED BY <2>1, <2>2 DEF Stage, Get, Ask
<1>5. CASE MergeRead(c) \/ MergeNext(c)
  <2>1. \/ ~Busy(c)' /\ at'[c] = "forward"
        \/ at'[c] = "mergeAdd" /\ \E it : Receive(c, Ask("add", User, it.id, it.price, it.qty))
        \/ at'[c] = "mergeClear" /\ Receive(c, Clear(Anon))
    BY <1>0, <1>5 DEF MergeRead, MergeNext, MergeLine, Move, ChainTypes, cartVars, Busy, Answered
  <2>2. CASE ~Busy(c)' /\ at'[c] = "forward"
    BY <2>2 DEF Stage
  <2>3. CASE at'[c] = "mergeAdd" /\ \E it : Receive(c, Ask("add", User, it.id, it.price, it.qty))
    <3>1. PICK it : Receive(c, Ask("add", User, it.id, it.price, it.qty))
      BY <2>3
    <3>2. request'[c] = Ask("add", User, it.id, it.price, it.qty)
      BY <1>0, <3>1 DEF Receive
    <3> QED BY <2>3, <3>2 DEF Stage, Ask
  <2>4. CASE at'[c] = "mergeClear" /\ Receive(c, Clear(Anon))
    <3>1. request'[c] = Clear(Anon) /\ ~(request'[c].kind = "clear" /\ request'[c].session = User)
      BY <1>3, <2>4
    <3> QED BY <2>4, <3>1 DEF Stage, Clear, Ask
  <2> QED BY <2>1, <2>2, <2>3, <2>4
<1>6. CASE Forward(c)
  <2>1. at'[c] = "fetch" /\ Receive(c, Get(User))
    BY <1>0, <1>6 DEF Forward, Move, ChainTypes
  <2>2. request'[c] = Get(User) /\ call'[c] \notin {"answer", "ok"} /\ ~(request'[c].kind = "clear" /\ request'[c].session = User)
    BY <1>3, <2>1
  <2> QED BY <2>1, <2>2 DEF Stage, Get, Ask
<1>7. CASE Fetched(c)
  <2>1. ~Busy(c)' /\ (at'[c] = "done" \/ (at'[c] = "place" /\ basket'[c] = table'[User]))
    BY <1>0, <1>7 DEF Fetched, Move, Answer, ChainTypes, cartVars, Busy, Answered, Stage
  <2> QED BY <2>1 DEF Stage
<1>8. CASE OrderPlaced(c)
  <2>1. at'[c] = "clear" /\ Receive(c, Clear(User)) /\ ordered'[c] = Buy(table[User])
    BY <1>0, <1>8 DEF OrderPlaced, Move, ChainTypes, Stage
  <2>2. request'[c] = Clear(User)
    BY <1>0, <2>1 DEF Receive
  <2>3. Buy(table[User]) \in Order
    BY <1>0 DEF Buy, Order, Carts
  <2>4. ordered'[c] # NoOrder /\ ordered'[c].status = "placed" /\ ordered'[c].lines = table'[User]
    BY <1>0, <2>1, <2>3, BuyPathConstants DEF Buy
  <2> QED BY <2>1, <2>2, <2>4 DEF Stage, PlacedBy, Clear, Ask
<1> QED BY <1>1, <1>2, <1>4, <1>5, <1>6, <1>7, <1>8 DEF Step

LEMMA ChainTurn ==
  ASSUME InTurn, BuyInv, TurnInv, NEW c \in Checkouts, Submit(c) \/ Step(c) \/ Crash(c)
  PROVE  TurnInv'
<1>0. ChainTypes /\ c \in Calls /\ Shopping \subseteq Calls /\ c \notin Shopping
  BY BuyPathConstants DEF BuyInv, TypeOK, ChainTypes, Shopping
<1>1. /\ \A h \in Calls \ {c} : ~Active(h) /\ ~Active(h)'
      /\ UNCHANGED table
      /\ \A h \in Calls \ {c} : call'[h] = call[h] /\ request'[h] = request[h] /\ lines'[h] = lines[h]
  BY ChainAlone
<1>2. OneActive'
  BY <1>1 DEF OneActive
<1>3. ShopsAdd'
  BY <1>0, <1>1 DEF ShopsAdd, Active
<1>4. StagesHold'
  <2>1. \A d \in Checkouts \ {c} : at'[d] = at[d] /\ basket'[d] = basket[d] /\ ordered'[d] = ordered[d]
    BY <1>0, ChainOwn
  <2>2. ASSUME NEW d \in Checkouts, d # c PROVE Stage(d)'
    <3>1. d \in Calls /\ Stage(d)
      BY BuyPathConstants DEF TurnInv, StagesHold
    <3> QED BY <1>1, <2>1, <2>2, <3>1 DEF Stage, Busy, PlacedBy
  <2>3. Stage(c)'
    BY ChainStage
  <2> QED BY <2>2, <2>3 DEF StagesHold
<1>5. WritesFit'
  <2>1. ASSUME NEW h \in Calls, h # c
        PROVE  call'[h] \notin {"read", "write"}
    BY <1>1, <2>1 DEF Active, Busy
  <2>2. CASE UNCHANGED cartVars
    BY <2>2 DEF cartVars, TurnInv, WritesFit
  <2>3. ASSUME NEW op \in ChainOps(c), Receive(c, op) PROVE WritesFit'
    <3>1. op.kind \in {"get", "add", "clear"}
      BY DEF ChainOps, Get, Clear, Ask
    <3>2. /\ request'[c] = op /\ lines'[c] = {} /\ UNCHANGED table
          /\ call'[c] = IF op.kind = "clear" THEN "write" ELSE "read"
      BY <1>0, <2>3 DEF Receive, Goto, store, BuyInv, TypeOK, CartTypeOK
    <3>3. op.kind = "clear" => \A items : Changed(items, op) = {} /\ ~Overflows(items, op)
      BY DEF Changed, Removes, Overflows
    <3> QED BY <2>1, <3>1, <3>2, <3>3 DEF WritesFit
  <2>4. UNCHANGED cartVars \/ \E op \in ChainOps(c) : Receive(c, op)
    BY ChainSends
  <2> QED BY <2>2, <2>3, <2>4
<1> QED BY <1>2, <1>3, <1>4, <1>5 DEF TurnInv

\* A shopping call starts when all is at rest.
LEMMA ShopTurn ==
  ASSUME InTurn, BuyInv, TurnInv, NEW b \in Shopping, Shop(b)
  PROVE  /\ TurnInv'
         /\ UNCHANGED <<table, at, chain>>
         /\ \A h \in Calls : ~Active(h)
         /\ \A h \in Calls \ {b} : call'[h] = call[h] /\ request'[h] = request[h] /\ lines'[h] = lines[h]
         /\ request'[b] \in ShopOps /\ call[b] = "idle" /\ call'[b] = "read"
<1>0. b \in Calls /\ b \notin Checkouts /\ Checkouts \subseteq Calls
  BY BuyPathConstants DEF Shopping
<1>1. \A h \in Calls : ~Active(h)
  BY DEF InTurn, Shop, AtRest, Active
<1>2. PICK op \in ShopOps : Receive(b, op)
  BY DEF Shop, ShopOps
<1>3. op.kind = "add"
  BY DEF ShopOps, Ask
<1>4. /\ UNCHANGED <<table, at, chain>>
      /\ \A h \in Calls \ {b} : call'[h] = call[h] /\ request'[h] = request[h] /\ lines'[h] = lines[h]
      /\ request'[b] = op /\ call[b] = "idle" /\ call'[b] = "read"
  BY <1>0, <1>2, <1>3 DEF Shop, Receive, Goto, store, BuyInv, TypeOK, CartTypeOK
<1>5. \A h \in Calls \ {b} : ~Active(h)'
  BY <1>1, <1>4 DEF Active, Busy, Running
<1>6. OneActive'
  BY <1>5 DEF OneActive
<1>7. WritesFit'
  BY <1>3, <1>4, <1>5 DEF WritesFit, Active, Busy
<1>8. ShopsAdd'
  BY <1>4, <1>5 DEF ShopsAdd, Active, Shopping
<1>9. StagesHold'
  BY <1>0, <1>5 DEF StagesHold, Stage, Active, Running, Places
<1> QED BY <1>1, <1>4, <1>6, <1>7, <1>8, <1>9 DEF TurnInv

\* A cart call that takes a step is the only thing under way.
LEMMA CartTurn ==
  ASSUME InTurn, BuyInv, TurnInv, NEW h \in Calls, Cart(h)
  PROVE  TurnInv' /\ \A g \in Calls \ {h} : ~Active(g)
<1>0. /\ table \in [Sessions -> Carts] /\ lines \in [Calls -> Carts] /\ call \in [Calls -> Stages]
      /\ request[h].session \in Sessions /\ request[h] \in Op /\ Checkouts \subseteq Calls
      /\ UNCHANGED <<request, at, todo, basket, ordered, reply>>
  BY BuyPathConstants DEF BuyInv, TypeOK, CartTypeOK, Carts, Op, Cart, Serve, Read, Write, Reply, Fail, chain
<1>1. Busy(h) /\ \A g \in Calls \ {h} : call'[g] = call[g] /\ lines'[g] = lines[g]
  BY <1>0 DEF Cart, Serve, Read, Write, Reply, Fail, Busy, Goto
<1>2. \A g \in Calls \ {h} : ~Active(g)
  BY <1>1 DEF TurnInv, OneActive, Active
<1>3. \A g \in Calls \ {h} : ~Active(g)'
  BY <1>0, <1>1, <1>2 DEF Active, Busy, Running
<1>4. OneActive'
  BY <1>3 DEF OneActive
<1>5. ShopsAdd'
  <2>1. \A b \in Shopping : Busy(b)' => b = h
    BY <1>3 DEF Active, Shopping
  <2> QED BY <1>0, <1>1, <2>1 DEF ShopsAdd, TurnInv
<1>6. \A c \in Checkouts \ {h} : Stage(c)'
  BY <1>0, <1>3 DEF Stage, Active, Running
<1>7. /\ call[h] = "read" => request[h].kind \in {"get", "add"}
      /\ call[h] = "write" => request[h].kind \in {"add", "clear"}
                              /\ lines[h] = Changed(table[request[h].session], request[h])
  BY DEF TurnInv, WritesFit
<1>8. CASE Read(h)
  <2> DEFINE items == table[request[h].session]
  <2>1. /\ lines'[h] = Changed(items, request[h]) /\ UNCHANGED table
        /\ wrapped' = (wrapped \/ Overflows(items, request[h]))
    BY <1>0, <1>8 DEF Read, Readable, InTurn, store
  <2>2. call'[h] = (IF request[h].kind = "get" THEN "answer" ELSE "write") /\ call[h] = "read"
    BY <1>0, <1>7, <1>8 DEF Read, Goto, Saves, Removes
  <2>3. request[h].kind = "get" => Changed(items, request[h]) = items
    BY DEF Changed, Removes
  <2>4. WritesFit'
    <3>1. \A g \in Calls \ {h} : call'[g] \notin {"read", "write"}
      BY <1>3 DEF Active, Busy
    <3>2. UNCHANGED <<request, table>> /\ (call'[h] = "write" => request[h].kind = "add")
      BY <1>0, <1>7, <2>1, <2>2
    <3> HIDE DEF items
    <3>3. call'[h] # "read" /\ (wrapped' \/ ~Overflows(items, request[h]))
      BY <2>1, <2>2
    <3> QED BY <2>1, <3>1, <3>2, <3>3 DEF WritesFit, items
  <2>5. h \in Checkouts => Stage(h)'
    <3> SUFFICES ASSUME h \in Checkouts PROVE Stage(h)'
      OBVIOUS
    <3>1. Stage(h)
      BY DEF TurnInv, StagesHold
    <3> QED BY <1>0, <1>1, <1>7, <2>1, <2>2, <2>3, <3>1 DEF Stage, Busy, Get, Ask, PlacedBy
  <2>6. StagesHold'
    BY <1>6, <2>5 DEF StagesHold
  <2> QED BY <1>2, <1>4, <1>5, <2>4, <2>6 DEF TurnInv
<1>9. CASE Write(h) \/ Reply(h) \/ Fail(h)
  <2>1. /\ call'[h] \in {"answer", "ok", "failed"} /\ UNCHANGED lines
        /\ call'[h] = "ok" => call[h] = "answer"
        /\ call'[h] = "answer" => call[h] = "write"
        /\ call[h] # "write" => UNCHANGED table
    BY <1>0, <1>9 DEF Write, Reply, Fail, Goto, Busy, store
  <2>2. WritesFit'
    BY <1>3, <2>1 DEF WritesFit, Active, Busy
  <2>3. h \in Checkouts => Stage(h)'
    <3> SUFFICES ASSUME h \in Checkouts PROVE Stage(h)'
      OBVIOUS
    <3>1. Stage(h)
      BY DEF TurnInv, StagesHold
    <3>2. call'[h] = "answer" /\ request[h].kind = "clear" /\ request[h].session = User => table'[User] = {}
      <4>1. call'[h] = "answer" => call[h] = "write" /\ Put(h)
        BY <1>0, <1>9, <2>1 DEF Write, Reply, Fail, Goto
      <4> QED BY <1>0, <1>7, <4>1 DEF Put, Changed, Removes
    <3>3. PlacedBy(h)' = PlacedBy(h)
      BY <1>0 DEF PlacedBy
    <3> QED BY <1>0, <1>1, <1>7, <2>1, <3>1, <3>2, <3>3 DEF Stage, Busy, Get, Ask
  <2>4. StagesHold'
    BY <1>6, <2>3 DEF StagesHold
  <2> QED BY <1>2, <1>4, <1>5, <2>2, <2>4 DEF TurnInv
<1> QED BY <1>8, <1>9 DEF Cart, Serve

LEMMA TurnNext == InTurn /\ BuyInv /\ TurnInv /\ [Next]_vars => TurnInv'
<1> SUFFICES ASSUME InTurn, BuyInv, TurnInv, [Next]_vars PROVE TurnInv'
  OBVIOUS
<1>1. ASSUME NEW c \in Checkouts, Submit(c) \/ Step(c) \/ Crash(c) PROVE TurnInv'
  BY <1>1, ChainTurn
<1>2. ASSUME NEW b \in Shopping, Shop(b) PROVE TurnInv'
  BY <1>2, ShopTurn
<1>3. ASSUME NEW h \in Calls, Cart(h) PROVE TurnInv'
  BY <1>3, CartTurn
<1>4. CASE UNCHANGED vars
  BY <1>4 DEF vars, cartVars, TurnInv, OneActive, Active, Busy, Running, WritesFit, ShopsAdd, StagesHold,
              Stage, PlacedBy
<1> QED BY <1>1, <1>2, <1>3, <1>4 DEF Next, AllDone

LEMMA TurnHolds == InTurn => (Spec => []TurnInv)
<1> SUFFICES ASSUME InTurn PROVE Spec => []TurnInv
  OBVIOUS
<1>1. BuyInv /\ TurnInv /\ [Next]_vars => TurnInv'
  BY TurnNext
<1> QED BY <1>1, BuyInvHolds, TurnInit, PTL DEF Spec

\* The body of ClearedWasBought.
LeavesIntoOrder ==
    ~wrapped' => \A it \in table[User] : it \notin table'[User] =>
         \/ \E jt \in table'[User] : jt.id = it.id /\ jt.qty > it.qty
         \/ \E c \in Checkouts : PlacedBy(c) /\ it \in ordered[c].lines

\* An add takes no line out of a cart but for a larger one, or one that overflowed.
LEMMA AddGrows ==
  ASSUME NEW items \in Carts, NEW op \in Op, op.kind = "add", ~Overflows(items, op),
         NEW it \in items, it \notin Add(items, op)
  PROVE  \E jt \in Add(items, op) : jt.id = it.id /\ jt.qty > it.qty
<1> DEFINE n == Clamped(op.qty)
           jt == [it EXCEPT !.qty = Plus(@, n)]
<1>1. n \in Ints /\ n \in Nat /\ n > 0 /\ it \in Item
  BY ClampedInt DEF Op, Carts
<1>2. it \in Line(items, op.id)
  BY DEF Add
<1>3. Fits(it.qty, n)
  BY <1>2 DEF Overflows
<1>4. jt \in Add(items, op)
  BY <1>2 DEF Add
<1> HIDE DEF n
<1>5. it.qty \in Ints /\ it.qty \in Int
  BY <1>1, IntsAreInt DEF Item
<1>6. Plus(it.qty, n) = it.qty + n
  BY <1>1, <1>3, <1>5, PlusInt
<1>7. jt.id = it.id /\ jt.qty = it.qty + n
  BY <1>1, <1>6 DEF Item
<1> HIDE DEF jt
<1>8. jt.qty > it.qty
  BY <1>1, <1>5, <1>7
<1> QED BY <1>4, <1>7, <1>8

\* One thing at a time, a line leaves the user's cart only into a durable placed order
\* that has it, whatever fails and wherever a chain dies, until a quantity overflows: in
\* particular the clear of a dead chain finds nothing but what its order has.
THEOREM ClearedLinesWereBought == InTurn => (Spec => ClearedWasBought)
<1> SUFFICES ASSUME InTurn PROVE Spec => ClearedWasBought
  OBVIOUS
<1>1. ASSUME BuyInv, TurnInv, Next PROVE LeavesIntoOrder \/ UNCHANGED vars
  <2>0. /\ table \in [Sessions -> Carts] /\ User \in Sessions
        /\ \A h \in Calls : request[h] \in Op /\ request[h].session \in Sessions
    BY <1>1, BuyPathConstants DEF BuyInv, TypeOK, CartTypeOK, Carts, Op
  <2>1. ASSUME UNCHANGED table PROVE LeavesIntoOrder
    BY <2>1 DEF LeavesIntoOrder
  <2>2. ASSUME NEW h \in Calls, call[h] = "write", Put(h), wrapped' = wrapped PROVE LeavesIntoOrder
    <3> DEFINE s == request[h].session
    <3>1. table' = [table EXCEPT ![s] = Changed(table[s], request[h])]
          /\ request[h].kind \in {"add", "clear"} /\ Busy(h)
          /\ (wrapped' \/ ~Overflows(table[s], request[h]))
      BY <1>1, <2>2 DEF Put, TurnInv, WritesFit, Busy
    <3>2. CASE s # User
      BY <2>0, <3>1, <3>2 DEF LeavesIntoOrder
    <3>3. CASE s = User /\ request[h].kind = "add"
      <4>1. table'[User] = Add(table[User], request[h])
        <5>1. Changed(table[User], request[h]) = Add(table[User], request[h])
          BY <3>3 DEF Changed, Removes
        <5>2. table'[s] = Changed(table[s], request[h])
          BY <2>0, <3>1
        <5> QED BY <3>3, <5>1, <5>2
      <4>2. table[User] \in Carts /\ request[h] \in Op
        BY <2>0
      <4>3. ASSUME ~wrapped', NEW it \in table[User], it \notin Add(table[User], request[h])
            PROVE  \E jt \in Add(table[User], request[h]) : jt.id = it.id /\ jt.qty > it.qty
        BY <3>1, <3>3, <4>2, <4>3, AddGrows
      <4> QED BY <4>1, <4>3 DEF LeavesIntoOrder
    <3>4. CASE s = User /\ request[h].kind = "clear"
      <4>1. h \in Checkouts
        <5>1. Anon # User
          BY BuyPathConstants
        <5>2. h \in Shopping => request[h] \in ShopOps
          BY <1>1, <3>1 DEF TurnInv, ShopsAdd
        <5>3. \A op \in ShopOps : op.session = Anon
          BY DEF ShopOps, Ask
        <5>4. request[h].session = User
          BY <3>4
        <5> QED BY <5>1, <5>2, <5>3, <5>4 DEF Shopping
      <4>2. PlacedBy(h) /\ table[User] \subseteq ordered[h].lines
        BY <1>1, <3>1, <3>4, <4>1 DEF TurnInv, StagesHold, Stage
      <4> QED BY <4>1, <4>2 DEF LeavesIntoOrder
    <3> QED BY <3>1, <3>2, <3>3, <3>4
  <2>3. ASSUME NEW h \in Calls, Cart(h) PROVE LeavesIntoOrder
    BY <2>1, <2>2, <2>3 DEF Cart, Serve, Read, Write, Reply, Fail, store
  <2>4. ASSUME NEW c \in Checkouts, Submit(c) \/ Step(c) \/ Crash(c) PROVE LeavesIntoOrder
    BY <1>1, <2>1, <2>4, ChainAlone
  <2>5. ASSUME NEW b \in Shopping, Shop(b) PROVE LeavesIntoOrder
    BY <1>1, <2>1, <2>5, ShopTurn
  <2> QED BY <1>1, <2>3, <2>4, <2>5 DEF Next, AllDone
<1>2. BuyInv /\ TurnInv /\ [Next]_vars => [LeavesIntoOrder]_vars
  BY <1>1
<1>3. Spec => []TurnInv
  BY TurnHolds
<1>4. Spec => [][LeavesIntoOrder]_vars
  BY <1>2, <1>3, BuyInvHolds, PTL DEF Spec
<1> QED BY <1>4 DEF ClearedWasBought, LeavesIntoOrder

-----------------------------------------------------------------------------
(* Counting units.                                                         *)

LEMMA QtyNone == \A items, p : Line(items, p) = {} => QtyIn(items, p) = 0
BY SumEmpty DEF QtyIn

\* A cart that counts: one line per product, in a positive quantity.
Sane(items) == items \in Carts /\ WellFormed(items) /\ Positive(items)

\* It has the units of a product in one line.
LEMMA QtyOfLine ==
  ASSUME NEW items, Sane(items), NEW it \in items
  PROVE  QtyIn(items, it.id) = it.qty /\ it.qty \in Nat /\ it.qty > 0
<1> DEFINE w == [jt \in items |-> jt.qty]
<1>1. Line(items, it.id) = {it}
  BY DEF Line, Sane, WellFormed
<1>2. it.qty \in Nat /\ it.qty > 0
  <2>1. it.qty \in Ints /\ it.qty > 0
    BY DEF Sane, Carts, Item, Positive
  <2>2. it.qty \in Int
    BY <2>1, IntsAreInt
  <2> QED BY <2>1, <2>2
<1>3. w[it] = it.qty /\ QtyIn(items, it.id) = SumOver(w, {it})
  BY <1>1 DEF QtyIn
<1> HIDE DEF w
<1> QED BY <1>2, <1>3, SumSingle

LEMMA QtyInNat ==
  ASSUME NEW items, Sane(items), NEW p
  PROVE  QtyIn(items, p) \in Nat
<1>1. CASE Line(items, p) = {}
  BY <1>1, QtyNone
<1>2. CASE Line(items, p) # {}
  <2>1. PICK it \in items : it.id = p
    BY <1>2 DEF Line
  <2> QED BY <2>1, QtyOfLine
<1> QED BY <1>1, <1>2

\* Lines that are the same for a product count the same.
LEMMA QtySameLine ==
  ASSUME NEW items, Sane(items), NEW other, Sane(other), NEW p, Line(items, p) = Line(other, p)
  PROVE  QtyIn(items, p) = QtyIn(other, p)
<1>1. CASE Line(items, p) = {}
  BY <1>1, QtyNone
<1>2. CASE Line(items, p) # {}
  <2>1. PICK it \in items : it.id = p /\ it \in other
    BY <1>2 DEF Line
  <2>2. QtyIn(items, it.id) = it.qty /\ QtyIn(other, it.id) = it.qty
    BY <2>1, QtyOfLine
  <2> QED BY <2>1, <2>2
<1> QED BY <1>1, <1>2

Amount(op) == Clamped(op.qty)

\* An add adds what it asks for, unless it overflows.
LEMMA QtyAdd ==
  ASSUME NEW items, Sane(items), NEW op \in Op, op.kind = "add", ~Overflows(items, op), NEW p
  PROVE  QtyIn(Add(items, op), p) = QtyIn(items, p) + IF op.id = p THEN Amount(op) ELSE 0
<1> DEFINE new == Add(items, op)
<1>1. Sane(new)
  <2>1. Changed(items, op) = Add(items, op)
    BY DEF Changed, Removes
  <2>2. Sound(items, op, Changed(items, op))
    BY ChangedSound DEF Sane
  <2> QED BY <2>1, <2>2 DEF Sane, Sound
<1>2. QtyIn(items, p) \in Nat /\ Amount(op) \in Nat /\ Amount(op) \in Ints /\ Amount(op) > 0
  BY QtyInNat, ClampedInt DEF Amount, Op
<1>a. items \in Carts
  BY DEF Sane
<1>3. CASE op.id # p
  <2>1. Line(new, p) = Line(items, p)
    <3>1. \A it \in Line(items, op.id) : it.id = op.id /\ it \in Item
      BY <1>a DEF Line, Carts
    <3>2. \A it \in Line(items, op.id) : [it EXCEPT !.qty = Plus(@, Amount(op))].id = op.id
      BY <3>1 DEF Item
    <3>3. ASSUME NEW it \in new PROVE it \in items \/ it.id = op.id
      <4>1. CASE Line(items, op.id) = {}
        <5>1. it \in items \/ it = [id |-> op.id, price |-> op.price, qty |-> Amount(op)]
          BY <3>3, <4>1 DEF Add, Amount
        <5> QED BY <5>1
      <4>2. CASE Line(items, op.id) # {}
        <5>1. it \in items \/ \E old \in Line(items, op.id) : it = [old EXCEPT !.qty = Plus(@, Amount(op))]
          BY <3>3, <4>2 DEF Add, Amount
        <5> QED BY <3>2, <5>1
      <4> QED BY <4>1, <4>2
    <3>4. ASSUME NEW it \in items, it.id # op.id PROVE it \in new
      BY <3>4 DEF Add, Line
    <3>5. ASSUME NEW it \in new, it.id # op.id PROVE it \in items
      BY <3>3, <3>5
    <3> HIDE DEF new
    <3> QED BY <1>3, <3>4, <3>5 DEF Line
  <2> HIDE DEF new
  <2>2. QtyIn(new, p) = QtyIn(items, p)
    BY <1>1, <2>1, QtySameLine
  <2> QED BY <1>2, <1>3, <2>2 DEF new
<1>4. CASE op.id = p /\ Line(items, p) = {}
  <2> DEFINE it == [id |-> op.id, price |-> op.price, qty |-> Amount(op)]
  <2>1. it \in new /\ it.id = p /\ it.qty = Amount(op)
    BY <1>4 DEF Add, Amount
  <2> HIDE DEF it, new
  <2>2. QtyIn(new, p) = Amount(op)
    BY <1>1, <2>1, QtyOfLine
  <2>3. QtyIn(items, p) = 0
    BY <1>4, QtyNone
  <2> QED BY <1>2, <1>4, <2>2, <2>3 DEF new
<1>5. CASE op.id = p /\ Line(items, p) # {}
  <2>1. PICK old \in items : old.id = p
    BY <1>5 DEF Line
  <2> DEFINE it == [old EXCEPT !.qty = Plus(@, Amount(op))]
  <2>2. old \in Line(items, op.id) /\ old \in Item /\ old.qty \in Ints
    BY <1>a, <1>5, <2>1 DEF Line, Carts, Item
  <2>3. Fits(old.qty, Amount(op))
    BY <2>2 DEF Overflows, Amount
  <2>4. Plus(old.qty, Amount(op)) = old.qty + Amount(op)
    BY <1>2, <2>2, <2>3, PlusInt
  <2>5. it.id = p /\ it.qty = old.qty + Amount(op)
    BY <2>1, <2>2, <2>4 DEF Item
  <2>6. it \in new
    BY <2>2 DEF Add, Amount
  <2> HIDE DEF it, new
  <2>7. QtyIn(new, p) = old.qty + Amount(op)
    BY <1>1, <2>5, <2>6, QtyOfLine
  <2>8. QtyIn(items, p) = old.qty
    BY <2>1, QtyOfLine
  <2> QED BY <1>5, <2>7, <2>8 DEF new
<1> QED BY <1>3, <1>4, <1>5

\* A line that is taken out takes its units.
LEMMA QtyWithout ==
  ASSUME NEW items, Sane(items), NEW it \in items, NEW p
  PROVE  /\ Sane(items \ {it})
         /\ QtyIn(items, p) = QtyIn(items \ {it}, p) + IF it.id = p THEN it.qty ELSE 0
<1>1. Sane(items \ {it})
  BY DEF Sane, Carts, WellFormed, Positive
<1>2. CASE it.id = p
  <2>1. Line(items \ {it}, p) = {}
    BY <1>2 DEF Line, Sane, WellFormed
  <2>2. QtyIn(items \ {it}, p) = 0
    BY <2>1, QtyNone
  <2>3. QtyIn(items, it.id) = it.qty /\ it.qty \in Nat
    BY QtyOfLine
  <2> QED BY <1>1, <1>2, <2>2, <2>3
<1>3. CASE it.id # p
  <2>1. Line(items \ {it}, p) = Line(items, p)
    BY <1>3 DEF Line
  <2>2. QtyIn(items, p) = QtyIn(items \ {it}, p)
    BY <1>1, <2>1, QtySameLine
  <2>3. QtyIn(items, p) \in Nat
    BY QtyInNat
  <2> QED BY <1>1, <1>3, <2>2, <2>3
<1> QED BY <1>2, <1>3

Placed == {c \in Checkouts : PlacedBy(c)}
Bought(p) == SumOver([c \in Placed |-> QtyIn(ordered[c].lines, p)], Placed)

\* The checkouts that have started and the calls of the shopper: never infinitely many.
Begun == {c \in Checkouts : at[c] # "idle"} \cup {b \in Shopping : call[b] # "idle"}

LEMMA BegunInit == Init => IsFiniteSet(Begun)
<1> SUFFICES ASSUME Init PROVE IsFiniteSet(Begun)
  OBVIOUS
<1>1. Begun = {}
  BY DEF Init, CartInit, Begun, Shopping
<1> QED BY <1>1, FS_EmptySet

LEMMA BegunNext == BuyInv /\ IsFiniteSet(Begun) /\ [Next]_vars => IsFiniteSet(Begun')
<1> SUFFICES ASSUME BuyInv, IsFiniteSet(Begun), [Next]_vars PROVE IsFiniteSet(Begun')
  OBVIOUS
<1>0. /\ ChainTypes /\ call \in [Calls -> Stages]
      /\ Shopping \subseteq Calls /\ \A c \in Checkouts : c \notin Shopping /\ c \in Calls
  BY BuyPathConstants DEF BuyInv, TypeOK, CartTypeOK, ChainTypes, Shopping
<1>1. ASSUME NEW x, Begun' \subseteq Begun \cup {x} PROVE IsFiniteSet(Begun')
  BY <1>1, FS_AddElement, FS_Subset
<1>2. ASSUME NEW c \in Checkouts, Submit(c) \/ Step(c) \/ Crash(c) PROVE Begun' \subseteq Begun \cup {c}
  <2>1. \A d \in Checkouts \ {c} : at'[d] = at[d]
    BY <1>0, <1>2, ChainOwn
  <2>2. UNCHANGED cartVars \/ \E op \in ChainOps(c) : Receive(c, op)
    BY <1>2, ChainSends
  <2>3. \A b \in Shopping : call'[b] = call[b]
    BY <1>0, <2>2 DEF cartVars, Receive, Goto
  <2> QED BY <2>1, <2>3 DEF Begun
<1>3. ASSUME NEW b \in Shopping, Shop(b) PROVE Begun' \subseteq Begun \cup {b}
  BY <1>0, <1>3 DEF Shop, Receive, Goto, Begun
<1>4. ASSUME NEW h \in Calls, Cart(h) PROVE Begun' \subseteq Begun \cup {h}
  BY <1>0, <1>4 DEF Cart, Serve, Read, Write, Reply, Fail, Goto, Begun
<1>5. CASE UNCHANGED vars
  BY <1>5 DEF vars, cartVars, Begun
<1> QED BY <1>1, <1>2, <1>3, <1>4, <1>5 DEF Next, AllDone

CountTypes == BuyInv /\ PricedInv /\ IsFiniteSet(Begun)

LEMMA CountTypesHold == Spec => []CountTypes
<1>1. Init => IsFiniteSet(Begun)
  BY BegunInit
<1>2. BuyInv /\ IsFiniteSet(Begun) /\ [Next]_vars => IsFiniteSet(Begun)'
  BY BegunNext
<1> QED BY <1>1, <1>2, BuyInvHolds, PricedHolds, PTL DEF Spec, CountTypes

\* What is bought and what was asked for are natural numbers.
LEMMA BoughtIsNat ==
  ASSUME CountTypes, ~wrapped, NEW p
  PROVE  /\ IsFiniteSet(Placed) /\ Bought(p) \in Nat
         /\ \A c \in Placed : QtyIn(ordered[c].lines, p) \in Nat
<1>1. IsFiniteSet(Placed)
  <2>1. Placed \subseteq Begun
    BY DEF Placed, PlacedBy, Begun, CountTypes, BuyInv, PlaceInv
  <2> QED BY <2>1, FS_Subset DEF CountTypes
<1>2. ASSUME NEW c \in Placed PROVE QtyIn(ordered[c].lines, p) \in Nat
  <2>1. c \in Checkouts /\ ordered[c] # NoOrder
    BY DEF Placed, PlacedBy
  <2>2. ordered[c].lines \in Carts
    BY <2>1 DEF CountTypes, BuyInv, TypeOK, Order, Carts
  <2>3. Sane(ordered[c].lines)
    BY <2>1, <2>2 DEF CountTypes, PricedInv, PricesInChains, Orderable, Sized, Sane
  <2> QED BY <2>3, QtyInNat
<1> DEFINE w == [c \in Placed |-> QtyIn(ordered[c].lines, p)]
<1>3. \A c \in Placed : w[c] \in Nat
  BY <1>2
<1>4. Bought(p) = SumOver(w, Placed)
  BY DEF Bought
<1> HIDE DEF w
<1> QED BY <1>1, <1>2, <1>3, <1>4, SumNat

LEMMA WantedIsNat ==
  ASSUME CountTypes, NEW p
  PROVE  /\ IsFiniteSet({b \in Shopping : call[b] \in {"answer", "ok"} /\ request[b].id = p})
         /\ Wanted(p, {"answer", "ok"}) \in Nat
<1> DEFINE B == {b \in Shopping : call[b] \in {"answer", "ok"} /\ request[b].id = p}
<1>1. B \subseteq Begun
  BY DEF Begun
<1>2. IsFiniteSet(B)
  BY <1>1, FS_Subset DEF CountTypes
<1> QED BY <1>2, FS_CardinalityType DEF Wanted

\* Orders that stay, and those that are not placed, do not count.
LEMMA BoughtSame ==
  ASSUME Placed' = Placed, \A c \in Placed : ordered'[c].lines = ordered[c].lines, NEW p
  PROVE  Bought(p)' = Bought(p)
<1>1. \A c \in Placed : QtyIn(ordered[c].lines, p)' = QtyIn(ordered[c].lines, p)
  BY DEF QtyIn
<1>2. [c \in Placed |-> QtyIn(ordered[c].lines, p)]' = [c \in Placed |-> QtyIn(ordered[c].lines, p)]
  BY <1>1
<1> QED BY <1>2 DEF Bought

\* A new placed order adds its lines.
LEMMA BoughtMore ==
  ASSUME CountTypes, ~wrapped, NEW c \in Checkouts, ordered[c] = NoOrder, NEW items, Sane(items),
         ordered' = [ordered EXCEPT ![c] = Buy(items)], NEW p
  PROVE  Bought(p)' = Bought(p) + QtyIn(items, p)
<1>1. ordered \in [Checkouts -> {NoOrder} \cup Order] /\ Buy(items) \in Order
  BY DEF CountTypes, BuyInv, TypeOK, Buy, Order, Sane, Carts
<1>2. c \notin Placed /\ Placed' = Placed \cup {c}
  BY <1>1, BuyPathConstants DEF Placed, PlacedBy, Buy
<1> DEFINE v == [d \in Placed |-> QtyIn(ordered[d].lines, p)]
           w == [d \in Placed \cup {c} |-> QtyIn(ordered'[d].lines, p)]
<1>3. /\ \A d \in Placed : w[d] = v[d] /\ v[d] \in Nat
      /\ w[c] = QtyIn(items, p) /\ w[c] \in Nat
  <2>1. \A d \in Placed : v[d] \in Nat /\ ordered'[d] = ordered[d]
    BY <1>1, <1>2, BoughtIsNat DEF Placed
  <2>2. ordered'[c].lines = items
    BY <1>1 DEF Buy
  <2> QED BY <2>1, <2>2, QtyInNat
<1>4. Bought(p) = SumOver(v, Placed) /\ Bought(p)' = SumOver(w, Placed \cup {c})
  BY <1>2 DEF Bought
<1>5. IsFiniteSet(Placed) /\ Bought(p) \in Nat
  BY BoughtIsNat
<1> HIDE DEF v, w
<1>6. SumOver(w, Placed \cup {c}) = w[c] + SumOver(w, Placed)
  BY <1>2, <1>3, <1>5, SumAdd
<1>7. SumOver(v, Placed) = SumOver(w, Placed)
  BY <1>3, <1>5, SumSame
<1> QED BY <1>3, <1>4, <1>5, <1>6, <1>7

-----------------------------------------------------------------------------
(* Nothing is lost, and nothing is multiplied.                             *)

\* A document that is about to be deleted does not count any more.
Dropping(s) == \E h \in Calls : call[h] = "write" /\ request[h].kind = "clear" /\ request[h].session = s
In(s, p) == IF Dropping(s) THEN 0 ELSE QtyIn(table[s], p)
Kept(p) == In(Anon, p) + In(User, p) + Bought(p)

\* While a chain merges, the anonymous cart counts as the user's part of it: what has
\* been added, what is being added and what is still to be added.
Merging(c) == at[c] = "mergeAdd"
Asked(c, p) == IF call[c] \in {"read", "write"} /\ request[c].id = p THEN Amount(request[c]) ELSE 0
Moved(c, p) == QtyIn(table[User], p) + Bought(p) + QtyIn(todo[c], p) + Asked(c, p)

Excused == \E c \in Checkouts : at[c] = "dead" \/ reply[c] = "502"
PutIn(p) == Wanted(p, {"answer", "ok"})

Counted(p) ==
    /\ Kept(p) >= PutIn(p)
    /\ \A c \in Checkouts : Merging(c) => Moved(c, p) >= PutIn(p)
    /\ ~Excused => \A c \in Checkouts : Merging(c) => Moved(c, p) <= PutIn(p)
    /\ ~Excused /\ (\A c \in Checkouts : ~Merging(c)) => Kept(p) <= PutIn(p)

AllCounted == wrapped \/ \A p \in Products : Counted(p)

LEMMA CountedInit == Init => AllCounted
<1> SUFFICES ASSUME Init, NEW p PROVE Counted(p)
  BY DEF AllCounted
<1>1. /\ \A s \in Sessions : table[s] = {}
      /\ \A h \in Calls : call[h] = "idle"
      /\ \A c \in Checkouts : at[c] = "idle" /\ ordered[c] = NoOrder
      /\ Anon \in Sessions /\ User \in Sessions /\ Shopping \subseteq Calls
  BY BuyPathConstants DEF Init, CartInit, Shopping
<1>2. Bought(p) = 0
  <2>1. Placed = {}
    BY <1>1 DEF Placed, PlacedBy
  <2> QED BY <2>1, SumEmpty DEF Bought
<1>3. QtyIn(table[Anon], p) = 0 /\ QtyIn(table[User], p) = 0
  <2>1. Line(table[Anon], p) = {} /\ Line(table[User], p) = {}
    BY <1>1 DEF Line
  <2> QED BY <2>1, QtyNone
<1>4. PutIn(p) = 0
  <2>1. {b \in Shopping : call[b] \in {"answer", "ok"} /\ request[b].id = p} = {}
    BY <1>1
  <2> QED BY <2>1, FS_EmptySet DEF PutIn, Wanted
<1>5. Kept(p) = 0
  BY <1>2, <1>3 DEF Kept, In
<1> QED BY <1>1, <1>4, <1>5 DEF Counted, Merging

LEMMA CountsAreNat ==
  ASSUME CountTypes, ~wrapped, NEW p
  PROVE  /\ PutIn(p) \in Nat /\ Bought(p) \in Nat /\ Kept(p) \in Nat
         /\ \A s \in Sessions : QtyIn(table[s], p) \in Nat /\ In(s, p) \in Nat
         /\ \A c \in Checkouts : QtyIn(todo[c], p) \in Nat /\ Asked(c, p) \in Nat /\ Moved(c, p) \in Nat
<1>1. PutIn(p) \in Nat /\ Bought(p) \in Nat
  BY WantedIsNat, BoughtIsNat DEF PutIn
<1>2. ASSUME NEW s \in Sessions PROVE QtyIn(table[s], p) \in Nat /\ In(s, p) \in Nat
  <2>1. Sane(table[s])
    BY DEF CountTypes, BuyInv, TypeOK, CartTypeOK, CartsWellFormed, Versions, Carts, Sane
  <2>2. QtyIn(table[s], p) \in Nat
    BY <2>1, QtyInNat
  <2> QED BY <2>2 DEF In
<1>3. Anon \in Sessions /\ User \in Sessions
  BY BuyPathConstants
<1>4. ASSUME NEW c \in Checkouts
      PROVE  QtyIn(todo[c], p) \in Nat /\ Asked(c, p) \in Nat /\ Moved(c, p) \in Nat
  <2>1. Sane(todo[c])
    BY DEF CountTypes, BuyInv, TypeOK, Carts, PricedInv, PricesInChains, Sized, Sane
  <2>2. QtyIn(todo[c], p) \in Nat
    BY <2>1, QtyInNat
  <2>3. Asked(c, p) \in Nat
    <3>1. request[c].qty \in Ints
      BY BuyPathConstants DEF CountTypes, BuyInv, TypeOK, CartTypeOK, Op
    <3> QED BY <3>1, ClampedInt DEF Asked, Amount
  <2> QED BY <1>1, <1>2, <1>3, <2>2, <2>3 DEF Moved
<1> QED BY <1>1, <1>2, <1>3, <1>4 DEF Kept

\* Between merges, a step that changes neither what is kept nor what was asked for.
LEMMA CountedKept ==
  ASSUME NEW p, Counted(p), Kept(p)' = Kept(p), PutIn(p)' = PutIn(p), Excused => Excused',
         \A c \in Checkouts : ~Merging(c) /\ ~Merging(c)'
  PROVE  Counted(p)'
BY DEF Counted

\* An excuse stays: dead chains and answered ones take no step.
LEMMA ExcuseStays ==
  ASSUME BuyInv, NEW c \in Checkouts, Submit(c) \/ Step(c) \/ Crash(c), Excused
  PROVE  Excused'
<1>1. PICK d \in Checkouts : at[d] = "dead" \/ reply[d] = "502"
  BY DEF Excused
<1>2. at[d] \in {"dead", "done"}
  BY <1>1 DEF BuyInv, PlaceInv
<1>3. at[c] \notin {"dead", "done"}
  BY DEF Submit, Crash, Step, Running, SignedIn, NoHeader, NotSignedIn, MergeRead, MergeNext,
     MergeDone, Forward, ForwardFails, Fetched, OrderPlaced, OrderDeclined, OrderRejected, OrderFails,
     ClearDone, Respond, RespondLate
<1>4. at'[d] = at[d] /\ reply'[d] = reply[d]
  BY <1>2, <1>3, ChainOwn DEF BuyInv, TypeOK, ChainTypes
<1> QED BY <1>1, <1>4 DEF Excused

\* The orders and the cart calls that a chain leaves alone count as before.
LEMMA KeptByChain ==
  ASSUME NEW p, UNCHANGED table, Bought(p)' = Bought(p), UNCHANGED <<call, request>>
  PROVE  Kept(p)' = Kept(p)
BY DEF Kept, In, Dropping, QtyIn

\* The requests that are under way after one of a chain: it is the only one.
LEMMA DroppingAfter ==
  ASSUME InTurn, BuyInv, TurnInv, NEW c \in Checkouts, Submit(c) \/ Step(c) \/ Crash(c),
         NEW op, Receive(c, op)
  PROVE  /\ \A s : ~Dropping(s)
         /\ \A s : Dropping(s)' <=> (op.kind = "clear" /\ op.session = s)
         /\ request'[c] = op /\ call'[c] \in {"read", "write"} /\ ~Busy(c)
<1>1. \A h \in Calls \ {c} : ~Busy(h) /\ ~Busy(h)'
  BY ChainAlone DEF Active
<1>2. c \in Calls /\ call \in [Calls -> Stages] /\ request \in [Calls -> Op]
  BY BuyPathConstants DEF BuyInv, TypeOK, CartTypeOK
<1>3. ~Busy(c) /\ request'[c] = op /\ call'[c] = IF op.kind = "clear" THEN "write" ELSE "read"
  BY <1>2 DEF Receive, Goto
<1> QED BY <1>1, <1>2, <1>3 DEF Dropping, Busy

\* What the shopper asked for changes with the shopper's calls only.
LEMMA WantedByChain ==
  ASSUME InTurn, BuyInv, TurnInv, NEW c \in Checkouts, Submit(c) \/ Step(c) \/ Crash(c), NEW p
  PROVE  PutIn(p)' = PutIn(p)
<1>1. \A b \in Shopping : call'[b] = call[b] /\ request'[b] = request[b]
  BY ChainAlone DEF Shopping
<1>2. {b \in Shopping : call[b] \in {"answer", "ok"} /\ request[b].id = p}'
        = {b \in Shopping : call[b] \in {"answer", "ok"} /\ request[b].id = p}
  BY <1>1
<1> QED BY <1>2 DEF PutIn, Wanted

LEMMA ChainCount ==
  ASSUME InTurn, CountTypes, ~wrapped, TurnInv, NEW p, Counted(p),
         NEW c \in Checkouts, Submit(c) \/ Step(c) \/ Crash(c)
  PROVE  Counted(p)'
<1>0. /\ ChainTypes /\ PlaceInv /\ BuyInv /\ Stage(c) /\ c \in Calls /\ UNCHANGED table
      /\ Anon \in Sessions /\ User \in Sessions /\ Anon # User
      /\ Sane(lines[c]) /\ Sane(todo[c]) /\ call[c] \in Stages
  BY BuyPathConstants, ChainAlone DEF CountTypes, BuyInv, TypeOK, CartTypeOK, CartsWellFormed, ChainTypes,
     TurnInv, StagesHold, Carts, PricedInv, PricesInChains, Sized, Sane
<1>1. \A d \in Checkouts \ {c} : ~Merging(d) /\ ~Merging(d)'
  <2>1. \A d \in Checkouts \ {c} : ~Running(d) /\ ~Running(d)'
    BY BuyPathConstants, ChainAlone, <1>0 DEF Active
  <2> QED BY <2>1 DEF Merging, Running
<1>2. PutIn(p)' = PutIn(p) /\ (Excused => Excused')
  BY <1>0, WantedByChain, ExcuseStays
<1>3. /\ PutIn(p) \in Nat /\ Kept(p) \in Nat /\ Bought(p) \in Nat /\ Moved(c, p) \in Nat
      /\ QtyIn(table[Anon], p) \in Nat /\ QtyIn(table[User], p) \in Nat
      /\ QtyIn(todo[c], p) \in Nat
  BY <1>0, CountsAreNat
<1>4. \A s : QtyIn(table[s], p)' = QtyIn(table[s], p)
  BY <1>0 DEF QtyIn
<1>5. ASSUME UNCHANGED ordered PROVE Bought(p)' = Bought(p)
  BY <1>5 DEF Bought, Placed, PlacedBy, QtyIn
<1>6. ASSUME Bought(p)' = Bought(p), UNCHANGED cartVars, at[c] # "mergeAdd", at'[c] # "mergeAdd"
      PROVE  Counted(p)'
  <2>1. Kept(p)' = Kept(p)
    BY <1>0, <1>6, KeptByChain DEF cartVars
  <2> QED BY <1>1, <1>2, <1>6, <2>1, CountedKept DEF Merging
<1>7. CASE Submit(c) \/ NoHeader(c) \/ NotSignedIn(c) \/ MergeDone(c) \/ ForwardFails(c) \/ Fetched(c)
           \/ OrderRejected(c) \/ ClearDone(c) \/ Respond(c) \/ RespondLate(c)
  <2>1. UNCHANGED cartVars /\ UNCHANGED ordered /\ at[c] # "mergeAdd" /\ at'[c] # "mergeAdd"
    BY <1>0, <1>7 DEF Submit, NoHeader, NotSignedIn, MergeDone, ForwardFails, Fetched, OrderRejected,
       ClearDone, Respond, RespondLate, chain, Move, Answer, ChainTypes
  <2> QED BY <1>5, <1>6, <2>1
<1>8. CASE OrderDeclined(c)
  <2>1. /\ UNCHANGED cartVars /\ at[c] = "place" /\ at'[c] # "mergeAdd"
        /\ ordered' = [ordered EXCEPT ![c] = Refuse(basket[c])] /\ ordered[c] = NoOrder
    BY <1>0, <1>8 DEF OrderDeclined, Move, ChainTypes, PlaceInv
  <2>2. Refuse(basket[c]) # NoOrder /\ Refuse(basket[c]).status = "declined"
    <3>1. Refuse(basket[c]) \in Order
      BY <1>0 DEF Refuse, Order, ChainTypes
    <3> QED BY <3>1, BuyPathConstants DEF Refuse
  <2>3. Placed' = Placed /\ \A d \in Placed : ordered'[d].lines = ordered[d].lines
    BY <1>0, <2>1, <2>2 DEF Placed, PlacedBy, ChainTypes
  <2> QED BY <1>6, <2>1, <2>3, BoughtSame
<1>9. CASE Crash(c) /\ at[c] # "place"
  <2>1. UNCHANGED cartVars /\ UNCHANGED ordered /\ at'[c] = "dead"
    BY <1>0, <1>9 DEF Crash, Move, ChainTypes
  <2>2. Kept(p)' = Kept(p)
    BY <1>0, <1>5, <2>1, KeptByChain DEF cartVars
  <2>3. Excused' /\ \A d \in Checkouts : ~Merging(d)'
    BY <1>1, <2>1 DEF Excused, Merging
  <2> QED BY <1>2, <2>2, <2>3 DEF Counted
<1>10. CASE OrderFails(c) \/ (Crash(c) /\ at[c] = "place")
  <2>1. /\ UNCHANGED cartVars /\ at[c] = "place"
        /\ (at'[c] = "done" /\ reply'[c] = "502") \/ at'[c] = "dead"
        /\ ordered[c] = NoOrder /\ basket[c] = table[User]
        /\ \E o \in {NoOrder, Buy(basket[c]), Refuse(basket[c])} : ordered' = [ordered EXCEPT ![c] = o]
    BY <1>0, <1>10 DEF OrderFails, Crash, Move, Answer, ChainTypes, PlaceInv, Stage
  <2>2. Sane(basket[c])
    BY <2>1 DEF CountTypes, BuyInv, TypeOK, Carts, PricedInv, PricesInChains, Orderable, Sized, Sane
  <2>3. Bought(p)' >= Bought(p) /\ Bought(p)' \in Nat
    <3>1. CASE ordered' = [ordered EXCEPT ![c] = NoOrder]
      BY <1>0, <1>3, <1>5, <2>1, <3>1 DEF ChainTypes
    <3>2. CASE ordered' = [ordered EXCEPT ![c] = Buy(basket[c])]
      <4>1. Bought(p)' = Bought(p) + QtyIn(basket[c], p)
        BY <2>1, <2>2, <3>2, BoughtMore
      <4> QED BY <1>3, <2>1, <4>1
    <3>3. CASE ordered' = [ordered EXCEPT ![c] = Refuse(basket[c])]
      <4>1. Refuse(basket[c]).status = "declined"
        BY DEF Refuse
      <4>2. Placed' = Placed /\ \A d \in Placed : ordered'[d].lines = ordered[d].lines
        BY <1>0, <2>1, <3>3, <4>1 DEF Placed, PlacedBy, ChainTypes
      <4>3. Bought(p)' = Bought(p)
        BY <4>2, BoughtSame
      <4> QED BY <1>3, <4>3
    <3> QED BY <2>1, <3>1, <3>2, <3>3
  <2>4. In(Anon, p)' = In(Anon, p) /\ In(User, p)' = In(User, p)
    BY <1>0, <1>4, <2>1 DEF In, Dropping, cartVars
  <2>5. In(Anon, p) \in Nat /\ In(User, p) \in Nat
    BY <1>0, CountsAreNat
  <2>6. Kept(p)' >= Kept(p) /\ Kept(p)' \in Nat
    <3> DEFINE a == In(Anon, p) + In(User, p)
    <3>1. a \in Nat /\ Kept(p) = a + Bought(p) /\ Kept(p)' = a + Bought(p)'
      BY <2>4, <2>5 DEF Kept
    <3> HIDE DEF a
    <3> QED BY <1>3, <2>3, <3>1
  <2>7. Excused' /\ \A d \in Checkouts : ~Merging(d)'
    BY <1>1, <2>1 DEF Excused, Merging
  <2>8. Kept(p)' >= PutIn(p)'
    BY <1>2, <1>3, <2>6 DEF Counted
  <2> QED BY <2>7, <2>8 DEF Counted
<1>11. CASE SignedIn(c) \/ Forward(c)
  <2>1. PICK op \in {Get(Anon), Get(User)} : Receive(c, op)
    BY <1>11 DEF SignedIn, Forward
  <2>2. UNCHANGED ordered /\ at[c] # "mergeAdd" /\ at'[c] # "mergeAdd"
    BY <1>0, <1>11 DEF SignedIn, Forward, chain, Move, ChainTypes
  <2>3. \A s : ~Dropping(s) /\ ~Dropping(s)'
    BY <1>0, <2>1, DroppingAfter DEF Get, Ask
  <2>4. Kept(p)' = Kept(p)
    <3>1. In(Anon, p)' = In(Anon, p) /\ In(User, p)' = In(User, p)
      BY <1>4, <2>3 DEF In
    <3> QED BY <1>5, <2>2, <3>1 DEF Kept
  <2> QED BY <1>1, <1>2, <2>2, <2>4, CountedKept DEF Merging
<1>12. ASSUME \A s : ~Dropping(s) PROVE Kept(p) = QtyIn(table[Anon], p) + QtyIn(table[User], p) + Bought(p)
  BY <1>12 DEF Kept, In
<1>13. ASSUME NEW items, Sane(items), NEW it \in items,
              Receive(c, Ask("add", User, it.id, it.price, it.qty)),
              todo' = [todo EXCEPT ![c] = items \ {it}], UNCHANGED ordered, at'[c] = "mergeAdd"
       PROVE  /\ Kept(p)' = Kept(p)
              /\ Kept(p) = QtyIn(table[Anon], p) + QtyIn(table[User], p) + Bought(p)
              /\ Moved(c, p)' = QtyIn(table[User], p) + Bought(p) + QtyIn(items, p)
  <2> DEFINE op == Ask("add", User, it.id, it.price, it.qty)
  <2>1. /\ \A s : ~Dropping(s) /\ ~Dropping(s)'
        /\ request'[c] = op /\ call'[c] \in {"read", "write"} /\ ~Busy(c)
    BY <1>0, <1>13, DroppingAfter DEF Ask
  <2>2. op.id = it.id /\ op.qty = it.qty
    BY <1>13 DEF Ask
  <2>3. it.qty \in Nat /\ it.qty > 0
    BY <1>13, QtyOfLine
  <2>4. Asked(c, p)' = IF it.id = p THEN it.qty ELSE 0
    BY <2>1, <2>2, <2>3 DEF Asked, Amount, Clamped
  <2>5. QtyIn(todo[c], p)' = QtyIn(items \ {it}, p)
    BY <1>0, <1>13 DEF QtyIn, ChainTypes
  <2>6. QtyIn(items, p) = QtyIn(items \ {it}, p) + IF it.id = p THEN it.qty ELSE 0
    BY <1>13, QtyWithout
  <2>7. QtyIn(items \ {it}, p) \in Nat
    BY <1>13, QtyWithout, QtyInNat
  <2>8. Kept(p) = QtyIn(table[Anon], p) + QtyIn(table[User], p) + Bought(p)
    BY <1>12, <2>1
  <2>9. Kept(p)' = QtyIn(table[Anon], p) + QtyIn(table[User], p) + Bought(p)
    BY <1>4, <1>5, <1>13, <2>1 DEF Kept, In
  <2>10. Moved(c, p)' = QtyIn(table[User], p) + Bought(p) + QtyIn(items \ {it}, p)
                         + IF it.id = p THEN it.qty ELSE 0
    BY <1>4, <1>5, <1>13, <2>4, <2>5 DEF Moved
  <2> HIDE DEF op
  <2>11. Moved(c, p)' = QtyIn(table[User], p) + Bought(p) + QtyIn(items, p)
    <3> DEFINE a == QtyIn(table[User], p)
               b == Bought(p)
               t == QtyIn(items \ {it}, p)
               n == IF it.id = p THEN it.qty ELSE 0
    <3>1. a \in Nat /\ b \in Nat /\ t \in Nat /\ n \in Nat
      BY <1>3, <2>3, <2>7
    <3>2. Moved(c, p)' = a + b + t + n /\ QtyIn(items, p) = t + n
      BY <2>6, <2>10
    <3> HIDE DEF a, b, t, n
    <3>3. Moved(c, p)' = a + b + QtyIn(items, p)
      BY <3>1, <3>2
    <3> QED BY <3>3 DEF a, b
  <2> QED BY <2>8, <2>9, <2>11
<1>14. CASE MergeRead(c)
  <2>1. CASE ~(call[c] = "ok" /\ lines[c] # {})
    <3>1. UNCHANGED cartVars /\ UNCHANGED ordered /\ at[c] # "mergeAdd" /\ at'[c] # "mergeAdd"
      BY <1>0, <1>14, <2>1 DEF MergeRead, Move, ChainTypes
    <3> QED BY <1>5, <1>6, <3>1
  <2>2. CASE call[c] = "ok" /\ lines[c] # {}
    <3>1. /\ at[c] = "mergeGet" /\ call[c] = "ok" /\ at'[c] = "mergeAdd" /\ UNCHANGED ordered
          /\ \E it \in lines[c] : /\ Receive(c, Ask("add", User, it.id, it.price, it.qty))
                                  /\ todo' = [todo EXCEPT ![c] = lines[c] \ {it}]
      BY <1>0, <1>14, <2>2 DEF MergeRead, MergeLine, Move, ChainTypes, cartVars
    <3>2. lines[c] = table[Anon]
      BY <1>0, <3>1 DEF Stage
    <3>3. /\ Kept(p)' = Kept(p)
          /\ Kept(p) = QtyIn(table[Anon], p) + QtyIn(table[User], p) + Bought(p)
          /\ Moved(c, p)' = QtyIn(table[User], p) + Bought(p) + QtyIn(lines[c], p)
      BY <1>0, <1>13, <3>1
    <3>4. Moved(c, p)' = Kept(p)
      BY <1>3, <3>2, <3>3
    <3>5. \A d \in Checkouts : ~Merging(d)
      BY <1>1, <3>1 DEF Merging
    <3>6. Kept(p) >= PutIn(p) /\ (~Excused => Kept(p) <= PutIn(p))
      BY <3>5 DEF Counted
    <3>7. Merging(c)' /\ \A d \in Checkouts : Merging(d)' => d = c
      BY <1>1, <3>1 DEF Merging
    <3> QED BY <1>2, <3>3, <3>4, <3>6, <3>7 DEF Counted
  <2> QED BY <2>1, <2>2
<1>15. CASE MergeNext(c)
  <2>0. /\ Merging(c) /\ ~Busy(c) /\ UNCHANGED ordered
        /\ Moved(c, p) >= PutIn(p) /\ (~Excused => Moved(c, p) <= PutIn(p)) /\ Kept(p) >= PutIn(p)
    BY <1>15 DEF MergeNext, Merging, Answered, Busy, Counted
  <2>1. Moved(c, p) = QtyIn(table[User], p) + Bought(p) + QtyIn(todo[c], p)
    BY <1>3, <2>0 DEF Moved, Asked, Busy
  <2>2. CASE todo[c] # {}
    <3>1. /\ at'[c] = "mergeAdd"
          /\ \E it \in todo[c] : /\ Receive(c, Ask("add", User, it.id, it.price, it.qty))
                                 /\ todo' = [todo EXCEPT ![c] = todo[c] \ {it}]
      BY <1>0, <1>15, <2>2 DEF MergeNext, MergeLine, Move, ChainTypes
    <3>2. Kept(p)' = Kept(p) /\ Moved(c, p)' = Moved(c, p)
      BY <1>0, <1>13, <2>0, <2>1, <3>1
    <3>3. Merging(c)' /\ \A d \in Checkouts : Merging(d)' => d = c
      BY <1>1, <3>1 DEF Merging
    <3> QED BY <1>2, <2>0, <3>2, <3>3 DEF Counted
  <2>3. CASE todo[c] = {}
    <3>1. at'[c] = "mergeClear" /\ Receive(c, Clear(Anon))
      BY <1>0, <1>15, <2>3 DEF MergeNext, Move, ChainTypes
    <3>2. \A s : Dropping(s)' <=> s = Anon
      BY <1>0, <3>1, DroppingAfter DEF Clear, Ask
    <3>3. In(Anon, p)' = 0 /\ In(User, p)' = QtyIn(table[User], p)
      BY <1>0, <1>4, <3>2 DEF In
    <3>4. QtyIn(todo[c], p) = 0
      BY <2>3, QtyNone DEF Line
    <3>5. Kept(p)' = Moved(c, p)
      BY <1>3, <1>5, <2>0, <2>1, <3>3, <3>4 DEF Kept
    <3>6. \A d \in Checkouts : ~Merging(d)'
      BY <1>1, <3>1 DEF Merging
    <3> QED BY <1>2, <2>0, <3>5, <3>6 DEF Counted
  <2> QED BY <2>2, <2>3
<1>16. CASE OrderPlaced(c)
  <2>1. /\ at[c] = "place" /\ at'[c] = "clear" /\ ordered[c] = NoOrder /\ basket[c] = table[User]
        /\ ordered' = [ordered EXCEPT ![c] = Buy(basket[c])] /\ Receive(c, Clear(User))
    BY <1>0, <1>16 DEF OrderPlaced, Move, ChainTypes, PlaceInv, Stage
  <2>2. Sane(basket[c])
    BY <2>1 DEF CountTypes, BuyInv, TypeOK, Carts, PricedInv, PricesInChains, Orderable, Sized, Sane
  <2>3. Bought(p)' = Bought(p) + QtyIn(table[User], p)
    BY <2>1, <2>2, BoughtMore
  <2>4. \A s : ~Dropping(s) /\ (Dropping(s)' <=> s = User)
    BY <1>0, <2>1, DroppingAfter DEF Clear, Ask
  <2>5. In(Anon, p)' = QtyIn(table[Anon], p) /\ In(User, p)' = 0
    BY <1>0, <1>4, <2>4 DEF In
  <2>6. Kept(p)' = QtyIn(table[Anon], p) + 0 + Bought(p)'
    BY <2>5 DEF Kept
  <2>7. Kept(p)' = Kept(p)
    BY <1>3, <1>12, <2>3, <2>4, <2>6
  <2> QED BY <1>1, <1>2, <2>1, <2>7, CountedKept DEF Merging
<1> QED BY <1>7, <1>8, <1>9, <1>10, <1>11, <1>14, <1>15, <1>16 DEF Step

LEMMA ShopCount ==
  ASSUME InTurn, CountTypes, ~wrapped, TurnInv, NEW p, Counted(p), NEW b \in Shopping, Shop(b)
  PROVE  Counted(p)'
<1>0. BuyInv
  BY DEF CountTypes
<1>1. /\ UNCHANGED <<table, at, chain>> /\ \A h \in Calls : ~Active(h)
      /\ \A h \in Calls \ {b} : call'[h] = call[h] /\ request'[h] = request[h]
      /\ request'[b] \in ShopOps /\ call[b] = "idle" /\ call'[b] = "read"
  BY <1>0, ShopTurn
<1>2. \A s : ~Dropping(s) /\ ~Dropping(s)'
  <2>1. request'[b].kind = "add"
    BY <1>1 DEF ShopOps, Ask
  <2> QED BY <1>1, <2>1 DEF Dropping, Active, Busy
<1>3. Kept(p)' = Kept(p)
  <2>1. Bought(p)' = Bought(p) /\ \A s : QtyIn(table[s], p)' = QtyIn(table[s], p)
    BY <1>1 DEF chain, Bought, Placed, PlacedBy, QtyIn
  <2> QED BY <1>2, <2>1 DEF Kept, In
<1>4. PutIn(p)' = PutIn(p)
  <2>1. {g \in Shopping : call[g] \in {"answer", "ok"} /\ request[g].id = p}'
          = {g \in Shopping : call[g] \in {"answer", "ok"} /\ request[g].id = p}
    BY <1>1 DEF Shopping
  <2> QED BY <2>1 DEF PutIn, Wanted
<1>5. \A c \in Checkouts : ~Merging(c) /\ ~Merging(c)'
  BY <1>1, BuyPathConstants DEF Active, Running, Merging
<1>6. Excused => Excused'
  BY <1>1 DEF chain, Excused
<1> QED BY <1>3, <1>4, <1>5, <1>6, CountedKept

\* A shopping call that has written counts from then on.
LEMMA WantedMore ==
  ASSUME CountTypes, NEW b \in Shopping, call[b] \notin {"answer", "ok"}, call'[b] = "answer",
         UNCHANGED request,
         \A g \in Shopping \ {b} : call'[g] = call[g], NEW p
  PROVE  PutIn(p)' = PutIn(p) + IF request[b].id = p THEN 1 ELSE 0
<1> DEFINE B == {g \in Shopping : call[g] \in {"answer", "ok"} /\ request[g].id = p}
<1>1. IsFiniteSet(B) /\ PutIn(p) \in Nat /\ b \notin B
  BY WantedIsNat DEF PutIn
<1>2. CASE request[b].id = p
  <2>1. B' = B \cup {b}
    BY <1>2
  <2> HIDE DEF B
  <2>2. Cardinality(B \cup {b}) = Cardinality(B) + 1
    BY <1>1, FS_AddElement
  <2> QED BY <1>1, <1>2, <2>1, <2>2 DEF PutIn, Wanted, B
<1>3. CASE request[b].id # p
  <2>1. B' = B
    BY <1>3
  <2>2. PutIn(p)' = PutIn(p)
    BY <2>1 DEF PutIn, Wanted
  <2> HIDE DEF B
  <2> QED BY <1>1, <1>3, <2>2
<1> QED BY <1>2, <1>3

LEMMA CartCount ==
  ASSUME InTurn, CartFails = FALSE, CountTypes, ~wrapped, TurnInv, NEW p, Counted(p),
         NEW h \in Calls, Cart(h)
  PROVE  Counted(p)'
<1>0. /\ BuyInv /\ Anon \in Sessions /\ User \in Sessions /\ Anon # User /\ Checkouts \subseteq Calls
      /\ call \in [Calls -> Stages] /\ table \in [Sessions -> Carts] /\ request[h] \in Op
      /\ UNCHANGED <<request, at, todo, basket, ordered, reply>>
      /\ WritesFit /\ ShopsAdd /\ (h \in Checkouts => Stage(h))
      /\ \A s \in Sessions : Sane(table[s])
  BY BuyPathConstants DEF CountTypes, BuyInv, TypeOK, CartTypeOK, CartsWellFormed, Versions, Carts, Sane, Cart,
     Serve, Read, Write, Reply, Fail, chain, TurnInv, StagesHold
<1>1. Busy(h) /\ \A g \in Calls \ {h} : ~Active(g) /\ call'[g] = call[g]
  <2>1. \A g \in Calls \ {h} : ~Active(g)
    BY <1>0, CartTurn
  <2> QED BY <1>0, <2>1 DEF Cart, Serve, Read, Write, Reply, Fail, Busy, Goto
<1>2. /\ Bought(p)' = Bought(p) /\ (Excused <=> Excused')
      /\ \A c \in Checkouts : Merging(c)' = Merging(c) /\ QtyIn(todo[c], p)' = QtyIn(todo[c], p)
  BY <1>0 DEF Bought, Placed, PlacedBy, QtyIn, Excused, Merging
<1>3. \A c \in Checkouts : Merging(c) => c = h
  BY <1>0, <1>1 DEF Active, Running, Merging
<1>4. /\ PutIn(p) \in Nat /\ Kept(p) \in Nat /\ Bought(p) \in Nat
      /\ QtyIn(table[Anon], p) \in Nat /\ QtyIn(table[User], p) \in Nat
      /\ h \in Checkouts => Moved(h, p) \in Nat /\ QtyIn(todo[h], p) \in Nat
  BY <1>0, CountsAreNat
<1>5. ASSUME call'[h] = "write" \/ h \notin Shopping PROVE PutIn(p)' = PutIn(p)
  <2>1. h \in Shopping => call[h] \notin {"answer", "ok"} /\ call'[h] \notin {"answer", "ok"}
    BY <1>0, <1>5 DEF Cart, Serve, Read, Write, Reply, Fail, Goto
  <2>2. {b \in Shopping : call[b] \in {"answer", "ok"} /\ request[b].id = p}'
          = {b \in Shopping : call[b] \in {"answer", "ok"} /\ request[b].id = p}
    BY <1>0, <1>1, <1>5, <2>1 DEF Shopping
  <2> QED BY <2>2 DEF PutIn, Wanted
<1>6. CASE Read(h)
  <2>1. request[h].kind \in {"get", "add"} /\ UNCHANGED table
        /\ call[h] = "read" /\ call'[h] = (IF request[h].kind = "get" THEN "answer" ELSE "write")
    BY <1>0, <1>6 DEF Read, WritesFit, store, Goto, Saves, Removes
  <2>2. \A s : ~Dropping(s) /\ ~Dropping(s)'
    BY <1>0, <1>1, <2>1 DEF Dropping, Active, Busy
  <2>3. \A s : QtyIn(table[s], p)' = QtyIn(table[s], p)
    BY <2>1 DEF QtyIn
  <2>4. Kept(p)' = Kept(p)
    BY <1>2, <2>2, <2>3 DEF Kept, In
  <2>5. PutIn(p)' = PutIn(p)
    <3>1. h \in Shopping => request[h].kind = "add"
      BY <1>0, <1>1 DEF ShopsAdd, ShopOps, Ask
    <3> QED BY <1>5, <2>1, <3>1
  <2>6. ASSUME NEW c \in Checkouts, Merging(c) PROVE Moved(c, p)' = Moved(c, p)
    <3>1. c = h /\ request[h].kind = "add"
      BY <1>0, <1>3, <2>6 DEF Stage, Merging
    <3>2. call[h] = "read" /\ call'[h] = "write"
      BY <2>1, <3>1
    <3>3. Asked(c, p)' = Asked(c, p)
      BY <1>0, <3>1, <3>2 DEF Asked
    <3> QED BY <1>2, <2>3, <3>3 DEF Moved
  <2> QED BY <1>2, <2>4, <2>5, <2>6 DEF Counted
<1>7. CASE Write(h)
  <2> DEFINE s == request[h].session
             x == IF request[h].id = p THEN Amount(request[h]) ELSE 0
  <2>1. /\ call[h] = "write" /\ call'[h] = "answer" /\ s \in Sessions
        /\ request[h].kind \in {"add", "clear"} /\ ~Overflows(table[s], request[h])
        /\ table'[s] = Changed(table[s], request[h])
        /\ \A t \in Sessions \ {s} : table'[t] = table[t]
    BY <1>0, <1>7 DEF Write, Put, WritesFit, Goto, Op
  <2>2. \A t : ~Dropping(t)' /\ (Dropping(t) <=> request[h].kind = "clear" /\ s = t)
    BY <1>0, <1>1, <2>1 DEF Dropping, Active, Busy
  <2>3. \A t \in Sessions \ {s} : QtyIn(table[t], p)' = QtyIn(table[t], p)
    BY <2>1 DEF QtyIn
  <2>4. Kept(p)' = QtyIn(table[Anon], p)' + QtyIn(table[User], p)' + Bought(p)
    BY <1>2, <2>2 DEF Kept, In
  <2>5. CASE request[h].kind = "clear"
    <3>1. QtyIn(table[s], p)' = 0
      <4>1. Changed(table[s], request[h]) = {}
        BY <2>5 DEF Changed, Removes
      <4>2. Line({}, p) = {}
        BY DEF Line
      <4> QED BY <1>0, <2>1, <4>1, <4>2, QtyNone DEF QtyIn
    <3>2. h \notin Shopping
      BY <1>0, <1>1, <2>5 DEF ShopsAdd, ShopOps, Ask
    <3>3. Kept(p)' = Kept(p)
      <4>1. In(Anon, p) = QtyIn(table[Anon], p)' /\ In(User, p) = QtyIn(table[User], p)'
        BY <1>0, <2>2, <2>3, <2>5, <3>1 DEF In
      <4> QED BY <2>4, <4>1 DEF Kept
    <3>4. \A c \in Checkouts : ~Merging(c)
      BY <1>0, <1>3, <2>5 DEF Merging, Stage
    <3> QED BY <1>2, <1>5, <3>2, <3>3, <3>4 DEF Counted
  <2>6. CASE request[h].kind = "add"
    <3>1. QtyIn(table[s], p)' = QtyIn(table[s], p) + x
      <4>1. Changed(table[s], request[h]) = Add(table[s], request[h])
        BY <2>6 DEF Changed, Removes
      <4>2. Sane(table[s])
        BY <1>0, <2>1
      <4>3. QtyIn(Add(table[s], request[h]), p) = QtyIn(table[s], p) + x
        BY <1>0, <2>1, <2>6, <4>2, QtyAdd
      <4>4. table'[s] = Add(table[s], request[h])
        BY <2>1, <4>1
      <4> HIDE DEF x
      <4> QED BY <1>0, <4>3, <4>4 DEF QtyIn
    <3>2. x \in Nat
      <4>1. request[h].qty \in Ints
        BY <1>0 DEF Op
      <4> QED BY <4>1, ClampedInt DEF Amount
    <3>3. Kept(p) = QtyIn(table[Anon], p) + QtyIn(table[User], p) + Bought(p)
      BY <2>2, <2>6 DEF Kept, In
    <3>4. Kept(p)' = Kept(p) + x
      <4>1. s = Anon \/ s = User
        BY <2>1, BuyPathConstants
      <4> DEFINE a == QtyIn(table[Anon], p)
                 u == QtyIn(table[User], p)
      <4>2. \/ QtyIn(table[Anon], p)' = a + x /\ QtyIn(table[User], p)' = u
            \/ QtyIn(table[Anon], p)' = a /\ QtyIn(table[User], p)' = u + x
        BY <1>0, <2>3, <3>1, <4>1
      <4>3. a \in Nat /\ u \in Nat
        BY <1>4
      <4> HIDE DEF x
      <4> QED BY <1>4, <2>4, <3>2, <3>3, <4>2, <4>3
    <3> HIDE DEF x
    <3>5. CASE h \in Shopping
      <4>1. request[h].qty = 1 /\ x = IF request[h].id = p THEN 1 ELSE 0
        BY <1>0, <1>1, <3>5 DEF ShopsAdd, ShopOps, Ask, Amount, Clamped, x
      <4>2. PutIn(p)' = PutIn(p) + x
        BY <1>0, <1>1, <2>1, <3>5, <4>1, WantedMore DEF Shopping
      <4>3. \A c \in Checkouts : ~Merging(c)
        BY <1>3, <3>5 DEF Shopping
      <4> QED BY <1>2, <1>4, <3>2, <3>4, <4>2, <4>3 DEF Counted
    <3>6. CASE h \in Checkouts
      <4>1. s = User /\ at[h] \in {"mergeAdd", "dead"}
        BY <1>0, <1>1, <2>6, <3>6 DEF Stage
      <4>2. PutIn(p)' = PutIn(p)
        BY <1>5, <3>6 DEF Shopping
      <4>3. Kept(p)' >= PutIn(p)'
        BY <1>4, <3>2, <3>4, <4>2 DEF Counted
      <4>4. Moved(h, p)' = Moved(h, p)
        <5>1. Asked(h, p) = x /\ Asked(h, p)' = 0
          BY <1>1, <2>1 DEF Asked, Busy, x
        <5> QED BY <1>0, <1>2, <1>4, <3>1, <3>2, <3>6, <4>1, <5>1 DEF Moved
      <4>5. CASE at[h] = "mergeAdd"
        <5>1. Merging(h)
          BY <4>5 DEF Merging
        <5> QED BY <1>2, <1>3, <3>6, <4>2, <4>3, <4>4, <5>1 DEF Counted
      <4>6. CASE at[h] = "dead"
        <5>1. Excused /\ \A c \in Checkouts : ~Merging(c)
          BY <1>3, <3>6, <4>6 DEF Excused, Merging
        <5> QED BY <1>2, <4>3, <5>1 DEF Counted
      <4> QED BY <4>1, <4>5, <4>6
    <3> QED BY <3>5, <3>6 DEF Shopping
  <2> QED BY <2>1, <2>5, <2>6
<1>8. CASE Reply(h)
  <2>1. call[h] = "answer" /\ call'[h] = "ok" /\ UNCHANGED table
    BY <1>0, <1>8 DEF Reply, Goto, store
  <2>2. \A s : ~Dropping(s) /\ ~Dropping(s)'
    BY <1>1, <2>1 DEF Dropping, Active, Busy
  <2>3. \A s : QtyIn(table[s], p)' = QtyIn(table[s], p)
    BY <2>1 DEF QtyIn
  <2>4. Kept(p)' = Kept(p)
    BY <1>2, <2>2, <2>3 DEF Kept, In
  <2>5. PutIn(p)' = PutIn(p)
    <3>1. {b \in Shopping : call[b] \in {"answer", "ok"} /\ request[b].id = p}'
            = {b \in Shopping : call[b] \in {"answer", "ok"} /\ request[b].id = p}
      BY <1>0, <1>1, <2>1 DEF Shopping
    <3> QED BY <3>1 DEF PutIn, Wanted
  <2>6. ASSUME NEW c \in Checkouts, Merging(c) PROVE Moved(c, p)' = Moved(c, p)
    <3>1. Asked(c, p)' = 0 /\ Asked(c, p) = 0
      BY <1>3, <2>1, <2>6 DEF Asked
    <3> QED BY <1>2, <2>3, <3>1 DEF Moved
  <2> QED BY <1>2, <2>4, <2>5, <2>6 DEF Counted
<1> QED BY <1>6, <1>7, <1>8 DEF Cart, Serve, Fail

LEMMA CountedNext ==
  ASSUME InTurn, CartFails = FALSE, CountTypes, TurnInv, AllCounted, [Next]_vars
  PROVE  AllCounted'
<1> SUFFICES ASSUME ~wrapped', NEW p \in Products PROVE Counted(p)'
  BY DEF AllCounted
<1>0. Counted(p) /\ ~wrapped
  BY WrappedStays DEF AllCounted
<1>1. ASSUME NEW c \in Checkouts, Submit(c) \/ Step(c) \/ Crash(c) PROVE Counted(p)'
  BY <1>0, <1>1, ChainCount
<1>2. ASSUME NEW b \in Shopping, Shop(b) PROVE Counted(p)'
  BY <1>0, <1>2, ShopCount
<1>3. ASSUME NEW h \in Calls, Cart(h) PROVE Counted(p)'
  BY <1>0, <1>3, CartCount
<1>4. CASE UNCHANGED vars
  BY <1>0, <1>4 DEF vars, cartVars, Counted, Kept, In, Dropping, Bought, Placed, PlacedBy, QtyIn,
     Merging, Moved, Asked, Excused, PutIn, Wanted
<1> QED BY <1>1, <1>2, <1>3, <1>4 DEF Next, AllDone

\* One thing at a time, carts that are read consistently and do not fail.
Reliable == InTurn /\ CartFails = FALSE

LEMMA CountedHolds == Reliable => (Spec => [](CountTypes /\ AllCounted))
<1> SUFFICES ASSUME Reliable PROVE Spec => [](CountTypes /\ AllCounted)
  OBVIOUS
<1>1. InTurn
  BY DEF Reliable
<1>2. Spec => []TurnInv
  BY <1>1, TurnHolds
<1>3. CountTypes /\ TurnInv /\ AllCounted /\ [Next]_vars => AllCounted'
  BY CountedNext DEF Reliable
<1> QED BY <1>2, <1>3, CountTypesHold, CountedInit, PTL DEF Spec

\* At rest, what counts is what is in the carts and in placed orders.
LEMMA KeptAtRest == AtRest => \A p : Kept(p) = Held(p)
<1> SUFFICES ASSUME AtRest, NEW p PROVE Kept(p) = Held(p)
  OBVIOUS
<1>1. \A s : ~Dropping(s)
  BY DEF AtRest, Busy, Dropping
<1>2. Held(p) = QtyIn(table[Anon], p) + QtyIn(table[User], p) + Bought(p)
  BY DEF Held, Bought, Placed
<1> QED BY <1>1, <1>2 DEF Kept, In

\* Nor is any add still to be answered.
LEMMA PutInAtRest == AtRest => \A p : PutIn(p) = Wanted(p, {"ok"})
<1> SUFFICES ASSUME AtRest, NEW p PROVE PutIn(p) = Wanted(p, {"ok"})
  OBVIOUS
<1>1. {b \in Shopping : call[b] \in {"answer", "ok"} /\ request[b].id = p}
        = {b \in Shopping : call[b] \in {"ok"} /\ request[b].id = p}
  BY DEF AtRest, Busy, Shopping
<1> QED BY <1>1 DEF PutIn, Wanted

\* Every unit the shopper put into a cart is in a cart or in a placed order whenever
\* nothing runs, also after calls to orders that failed and chains that died, until a
\* quantity overflows.
THEOREM NothingIsLost == Reliable => (Spec => []NothingLost)
<1> SUFFICES ASSUME Reliable PROVE Spec => []NothingLost
  OBVIOUS
<1>1. AllCounted => NothingLost
  BY KeptAtRest, PutInAtRest DEF AllCounted, Counted, NothingLost
<1> QED BY <1>1, CountedHolds, PTL

\* No unit is in two places whenever nothing runs, unless a chain died, the browser was
\* told that a checkout failed, or a quantity overflowed.
THEOREM NothingIsMultiplied == Reliable => (Spec => []NothingMultiplied)
<1> SUFFICES ASSUME Reliable PROVE Spec => []NothingMultiplied
  OBVIOUS
<1>1. ASSUME CountTypes, AllCounted PROVE NothingMultiplied
  <2> SUFFICES ASSUME AtRest, ~wrapped, ~Excused, NEW p \in Products
               PROVE  Held(p) <= Wanted(p, {"ok", "failed"})
    BY DEF NothingMultiplied, SomeFailed, Excused
  <2>1. \A c \in Checkouts : ~Merging(c)
    BY DEF AtRest, Running, Merging
  <2>2. Kept(p) <= PutIn(p) /\ Kept(p) = Held(p)
    BY <1>1, <2>1, KeptAtRest DEF AllCounted, Counted
  <2>3. PutIn(p) <= Wanted(p, {"ok", "failed"}) /\ Wanted(p, {"ok", "failed"}) \in Nat
    <3> DEFINE A == {b \in Shopping : call[b] \in {"ok"} /\ request[b].id = p}
               B == {b \in Shopping : call[b] \in {"ok", "failed"} /\ request[b].id = p}
    <3>1. A \subseteq B /\ B \subseteq Begun
      BY DEF Begun
    <3>2. IsFiniteSet(B)
      BY <1>1, <3>1, FS_Subset DEF CountTypes
    <3> HIDE DEF A, B
    <3>3. Cardinality(A) <= Cardinality(B) /\ Cardinality(B) \in Nat
      BY <3>1, <3>2, FS_Subset, FS_CardinalityType
    <3> QED BY <3>3, PutInAtRest DEF Wanted, A, B
  <2>4. PutIn(p) \in Nat /\ Kept(p) \in Nat
    BY <1>1, CountsAreNat
  <2> QED BY <2>2, <2>3, <2>4
<1>2. CountTypes /\ AllCounted => NothingMultiplied
  BY <1>1
<1> QED BY <1>2, CountedHolds, PTL
====
