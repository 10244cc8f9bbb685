---- MODULE BuyPath ----
(***************************************************************************)
(* A checkout from end to end: the storefront's POST /api/checkout with    *)
(* currentUser and mergeAnonymousCart (cmd/storefront), the checkout       *)
(* service it proxies to (cmd/checkout), the cart service they both call   *)
(* (module CartService, call by call), and the orders service as its       *)
(* caller sees it: an order that is durable or not, and an answer or none  *)
(* (module OrderPlacement has its inside).                                 *)
(*                                                                         *)
(* The browser shops under an anonymous session; the orders are the user's.*)
(* A checkout is one handler chain; it makes its cart calls one at a time, *)
(* so it is also the name of the cart handler that serves it.              *)
(***************************************************************************)
EXTENDS CartService

CONSTANTS
    Anon, User,   \* the browser's session id and the signed-in user's id
    Checkouts,    \* POST /api/checkout calls; the other Calls are the shopper's
    NoOrder,      \* the order of a checkout that has none
    OneAtATime,   \* shopping calls and checkouts follow one another
    Down          \* what may fail: a subset of Parties

Parties == {"checkout", "orders", "client", "pod"}
Shopping == Calls \ Checkouts

\* What orders records of a checkout.
Order == [status : {"placed", "declined"}, lines : SUBSET Item]

ASSUME BuyPathConstants ==
    /\ Sessions = {Anon, User} /\ Anon # User
    /\ Checkouts \subseteq Calls
    /\ NoOrder \notin Order
    /\ OneAtATime \in BOOLEAN
    /\ Down \subseteq Parties

VARIABLES
    at,       \* where each checkout is
    todo,     \* the anonymous cart's lines still to be merged
    basket,   \* the lines the checkout service read and sends to orders
    ordered,  \* the order each checkout made durable
    reply     \* what the browser is answered

chain == <<todo, basket, ordered, reply>>
vars  == <<cartVars, at, todo, basket, ordered, reply>>

Places == {"idle", "verify", "mergeGet", "mergeAdd", "mergeClear", "forward",
           "fetch", "place", "clear", "respond", "done", "dead"}
Running(c) == at[c] \notin {"idle", "done", "dead"}

\* No checkout runs and no cart call is under way.
AtRest == (\A c \in Checkouts : ~Running(c)) /\ (\A h \in Calls : ~Busy(h))

Move(c, p) == at' = [at EXCEPT ![c] = p]
Answer(c, code) == Move(c, "done") /\ reply' = [reply EXCEPT ![c] = code]

\* The cart call of c is over, and how.
Answered(c) == call[c] \in {"ok", "failed"}

Buy(items) == [status |-> "placed", lines |-> items]
Refuse(items) == [status |-> "declined", lines |-> items]

-----------------------------------------------------------------------------

TypeOK ==
    /\ CartTypeOK
    /\ at \in [Checkouts -> Places]
    /\ todo \in [Checkouts -> SUBSET Item]
    /\ basket \in [Checkouts -> SUBSET Item]
    /\ ordered \in [Checkouts -> {NoOrder} \cup Order]
    /\ reply \in [Checkouts -> {"none", "placed", "declined", "400", "401", "502"}]

Init ==
    /\ CartInit
    /\ at = [c \in Checkouts |-> "idle"]
    /\ todo = [c \in Checkouts |-> {}]
    /\ basket = [c \in Checkouts |-> {}]
    /\ ordered = [c \in Checkouts |-> NoOrder]
    /\ reply = [c \in Checkouts |-> "none"]

-----------------------------------------------------------------------------
(* The shopper and the browser.                                            *)

\* The shopper puts one of a product into the cart on the screen, the anonymous one.
Shop(b) ==
    /\ call[b] = "idle"
    /\ OneAtATime => AtRest
    /\ \E p \in Products, c \in Prices : Receive(b, Ask("add", Anon, p, c, 1))
    /\ UNCHANGED <<at, chain>>

Submit(c) ==
    /\ at[c] = "idle"
    /\ OneAtATime => AtRest
    /\ Move(c, "verify")
    /\ UNCHANGED <<cartVars, chain>>

-----------------------------------------------------------------------------
(* Storefront: currentUser, then mergeAnonymousCart.                       *)

Get(s) == Ask("get", s, AnyProduct, AnyPrice, 0)
Clear(s) == Ask("clear", s, AnyProduct, AnyPrice, 0)

SignedIn(c) ==
    /\ at[c] = "verify"
    /\ Receive(c, Get(Anon))
    /\ Move(c, "mergeGet")
    /\ UNCHANGED chain

\* No session header on the request: nothing to merge.
NoHeader(c) ==
    /\ at[c] = "verify"
    /\ Move(c, "forward")
    /\ UNCHANGED <<cartVars, chain>>

\* No cookie, an unknown session, or an accounts service that does not answer.
NotSignedIn(c) ==
    /\ at[c] = "verify"
    /\ Answer(c, "401")
    /\ UNCHANGED <<cartVars, todo, basket, ordered>>

\* The add of one line to the user's cart.
MergeLine(c, it) ==
    /\ Receive(c, Ask("add", User, it.id, it.price, it.qty))
    /\ Move(c, "mergeAdd")

MergeRead(c) ==
    /\ at[c] = "mergeGet" /\ Answered(c)
    /\ IF call[c] = "ok" /\ lines[c] # {}
         THEN \E it \in lines[c] :
                /\ MergeLine(c, it)
                /\ todo' = [todo EXCEPT ![c] = lines[c] \ {it}]
         ELSE Move(c, "forward") /\ UNCHANGED <<cartVars, todo>>
    /\ UNCHANGED <<basket, ordered, reply>>

\* Slips: the merge stops after the first line, or leaves the anonymous cart full.
MergeOnlyFirst(c) ==
    /\ at[c] = "mergeAdd" /\ Answered(c)
    /\ Receive(c, Clear(Anon))
    /\ Move(c, "mergeClear")
    /\ UNCHANGED chain

MergeKeepsAnon(c) ==
    /\ at[c] = "mergeAdd" /\ Answered(c)
    /\ IF todo[c] # {}
         THEN \E it \in todo[c] :
                /\ MergeLine(c, it)
                /\ todo' = [todo EXCEPT ![c] = @ \ {it}]
         ELSE Move(c, "forward") /\ UNCHANGED <<cartVars, todo>>
    /\ UNCHANGED <<basket, ordered, reply>>

\* The outcome of an add is not looked at: the next line, or the clear, follows.
MergeNext(c) ==
    /\ at[c] = "mergeAdd" /\ Answered(c)
    /\ IF todo[c] # {}
         THEN \E it \in todo[c] :
                /\ MergeLine(c, it)
                /\ todo' = [todo EXCEPT ![c] = @ \ {it}]
         ELSE /\ Receive(c, Clear(Anon))
              /\ Move(c, "mergeClear")
              /\ UNCHANGED todo
    /\ UNCHANGED <<basket, ordered, reply>>

MergeDone(c) ==
    /\ at[c] = "mergeClear" /\ Answered(c)
    /\ Move(c, "forward")
    /\ UNCHANGED <<cartVars, chain>>

-----------------------------------------------------------------------------
(* The checkout service.                                                   *)

Forward(c) ==
    /\ at[c] = "forward"
    /\ Receive(c, Get(User))
    /\ Move(c, "fetch")
    /\ UNCHANGED chain

ForwardFails(c) ==
    /\ at[c] = "forward" /\ "checkout" \in Down
    /\ Answer(c, "502")
    /\ UNCHANGED <<cartVars, todo, basket, ordered>>

\* Slip: an empty cart is ordered.
FetchedUnchecked(c) ==
    /\ at[c] = "fetch" /\ Answered(c)
    /\ \/ call[c] = "failed" /\ Answer(c, "502") /\ UNCHANGED basket
       \/ /\ call[c] = "ok"
          /\ basket' = [basket EXCEPT ![c] = lines[c]]
          /\ Move(c, "place")
          /\ UNCHANGED reply
    /\ UNCHANGED <<cartVars, todo, ordered>>

Fetched(c) ==
    /\ at[c] = "fetch" /\ Answered(c)
    /\ \/ call[c] = "failed" /\ Answer(c, "502") /\ UNCHANGED basket
       \/ call[c] = "ok" /\ lines[c] = {} /\ Answer(c, "400") /\ UNCHANGED basket
       \/ /\ call[c] = "ok" /\ lines[c] # {}
          /\ basket' = [basket EXCEPT ![c] = lines[c]]
          /\ Move(c, "place")
          /\ UNCHANGED reply
    /\ UNCHANGED <<cartVars, todo, ordered>>

\* POST /api/orders answers 200 with an order that is durable, and the cart of a
\* placed one is deleted.
OrderPlaced(c) ==
    /\ at[c] = "place"
    /\ ordered' = [ordered EXCEPT ![c] = Buy(basket[c])]
    /\ Receive(c, Clear(User))
    /\ Move(c, "clear")
    /\ UNCHANGED <<todo, basket, reply>>

\* Slip: the cart is cleared whatever the order's status.
OrderDeclinedClears(c) ==
    /\ at[c] = "place"
    /\ ordered' = [ordered EXCEPT ![c] = Refuse(basket[c])]
    /\ Receive(c, Clear(User))
    /\ Move(c, "clear")
    /\ UNCHANGED <<todo, basket, reply>>

OrderDeclined(c) ==
    /\ at[c] = "place"
    /\ ordered' = [ordered EXCEPT ![c] = Refuse(basket[c])]
    /\ Move(c, "respond")
    /\ UNCHANGED <<cartVars, todo, basket, reply>>

\* Orders answers 400, which is passed on: the prices are the callers', so the total
\* may not be positive.
OrderRejected(c) ==
    /\ at[c] = "place"
    /\ Answer(c, "400")
    /\ UNCHANGED <<cartVars, todo, basket, ordered>>

\* Slip: a failed call to orders is taken for a placed order.
OrderFailsIgnored(c) ==
    /\ at[c] = "place" /\ "orders" \in Down
    /\ \E o \in {NoOrder, Buy(basket[c]), Refuse(basket[c])} :
         ordered' = [ordered EXCEPT ![c] = o]
    /\ Answer(c, "placed")
    /\ UNCHANGED <<cartVars, todo, basket>>

\* It fails or loses its answer: the order may be durable, in either status.
OrderFails(c) ==
    /\ at[c] = "place" /\ "orders" \in Down
    /\ \E o \in {NoOrder, Buy(basket[c]), Refuse(basket[c])} :
         ordered' = [ordered EXCEPT ![c] = o]
    /\ Answer(c, "502")
    /\ UNCHANGED <<cartVars, todo, basket>>

\* Slip: the answer waits for a clear that succeeds.
ClearMustSucceed(c) ==
    /\ at[c] = "clear" /\ call[c] = "ok"
    /\ Move(c, "respond")
    /\ UNCHANGED <<cartVars, chain>>

\* The outcome of the clear is not looked at.
ClearDone(c) ==
    /\ at[c] = "clear" /\ Answered(c)
    /\ Move(c, "respond")
    /\ UNCHANGED <<cartVars, chain>>

Respond(c) ==
    /\ at[c] = "respond"
    /\ Answer(c, ordered[c].status)
    /\ UNCHANGED <<cartVars, todo, basket, ordered>>

\* A hop took longer than the WriteTimeout of the one before it.
RespondLate(c) ==
    /\ at[c] = "respond" /\ "client" \in Down
    /\ Answer(c, "502")
    /\ UNCHANGED <<cartVars, todo, basket, ordered>>

\* The handler chain dies; a call it has made to cart or orders runs on, so the order
\* may still become durable, in either status.
Crash(c) ==
    /\ Running(c) /\ "pod" \in Down
    /\ IF at[c] = "place"
         THEN \E o \in {NoOrder, Buy(basket[c]), Refuse(basket[c])} :
                ordered' = [ordered EXCEPT ![c] = o]
         ELSE UNCHANGED ordered
    /\ Move(c, "dead")
    /\ UNCHANGED <<cartVars, todo, basket, reply>>

-----------------------------------------------------------------------------

Step(c) ==
    \/ SignedIn(c) \/ NoHeader(c) \/ NotSignedIn(c)
    \/ MergeRead(c) \/ MergeNext(c) \/ MergeDone(c)
    \/ Forward(c) \/ ForwardFails(c) \/ Fetched(c)
    \/ OrderPlaced(c) \/ OrderDeclined(c) \/ OrderRejected(c) \/ OrderFails(c)
    \/ ClearDone(c) \/ Respond(c) \/ RespondLate(c)

Cart(h) == Serve(h) /\ UNCHANGED <<at, chain>>

AllDone ==
    /\ \A c \in Checkouts : at[c] \in {"done", "dead"}
    /\ \A b \in Shopping : Answered(b)
    /\ AtRest
    /\ UNCHANGED vars

Next ==
    \/ \E c \in Checkouts : Submit(c) \/ Step(c) \/ Crash(c)
    \/ \E b \in Shopping : Shop(b)
    \/ \E h \in Calls : Cart(h)
    \/ AllDone

\* Handlers keep running, and the calls they make return, with an answer or an error:
\* a chain takes its next step, a cart call ends.
Fairness ==
    /\ \A c \in Checkouts : WF_vars(Step(c))
    /\ \A h \in Calls : WF_vars(Cart(h))

Spec == Init /\ [][Next]_vars
FairSpec == Spec /\ Fairness

-----------------------------------------------------------------------------
(* Properties.                                                             *)

PlacedBy(c) == ordered[c] # NoOrder /\ ordered[c].status = "placed"

QtyIn(items, p) == SumOver([it \in items |-> it.qty], Line(items, p))

\* Units of a product in the carts or bought, and units the shopper asked for in calls
\* that ended in one of the given ways.
Held(p) ==
    QtyIn(table[Anon], p) + QtyIn(table[User], p)
      + LET placed == {c \in Checkouts : PlacedBy(c)}
        IN SumOver([c \in placed |-> QtyIn(ordered[c].lines, p)], placed)
Wanted(p, ends) ==
    Cardinality({b \in Shopping : call[b] \in ends /\ request[b].id = p})

\* A checkout was answered 502 or not at all.
SomeFailed == \E c \in Checkouts : at[c] = "dead" \/ reply[c] = "502"

\* Nothing a shopper put into a cart is lost, neither kept nor bought, unless a
\* quantity overflows.  (Between checkouts: while one merges, a unit is counted in
\* both carts.)
NothingLost ==
    AtRest /\ ~wrapped => \A p \in Products : Held(p) >= Wanted(p, {"ok"})

\* Nothing is multiplied behind the browser's back: there is more in the carts and in
\* placed orders than was put into a cart only after a checkout that was answered 502
\* or not at all, or if a quantity overflows.
NothingMultiplied ==
    AtRest /\ ~wrapped =>
        SomeFailed \/ \A p \in Products : Held(p) <= Wanted(p, {"ok", "failed"})

\* The merge is safe on every checkout, a no-op once it has happened
\* (auth.go:120-122): however many checkouts merge, the user's cart never holds more
\* of a product than the shopper put into a cart, as long as each checkout was
\* answered with placed or declined.
MergedOnce ==
    LET answered == \A c \in Checkouts :
                      at[c] # "idle" => reply[c] \in {"placed", "declined"}
    IN AtRest /\ answered /\ ~wrapped =>
         \A p \in Products : QtyIn(table[User], p) <= Wanted(p, {"ok", "failed"})

\* Lines leave the user's cart only into a durable placed order that has them: the
\* cart is emptied after the order is placed (main.go:121-127), never before.  (A
\* quantity that overflows leaves it too.)
ClearedWasBought ==
    [][~wrapped' => \A it \in table[User] : it \notin table'[User] =>
         \/ \E jt \in table'[User] : jt.id = it.id /\ jt.qty > it.qty
         \/ \E c \in Checkouts : PlacedBy(c) /\ it \in ordered[c].lines]_vars

\* However checkouts, the shopper and failures interleave, an order has one line per
\* product, at a price the shopper put that product into the cart for, and in a positive
\* quantity unless one overflowed.
OrdersExplained ==
    \A c \in Checkouts : ordered[c] # NoOrder =>
        /\ ordered[c].lines # {} /\ WellFormed(ordered[c].lines)
        /\ wrapped \/ Positive(ordered[c].lines)
        /\ \A it \in ordered[c].lines : \E b \in Shopping :
             call[b] # "idle" /\ request[b].id = it.id /\ request[b].price = it.price

\* The browser is told placed or declined only of a durable order in that status, and
\* 400 or 401 only when no order was made.
RepliesTruthful ==
    \A c \in Checkouts :
        /\ reply[c] \in {"placed", "declined"} =>
             ordered[c] # NoOrder /\ ordered[c].status = reply[c]
        /\ reply[c] \in {"400", "401"} => ordered[c] = NoOrder

\* Every checkout that is submitted ends, with an answer unless its pod dies, though
\* it waits for up to half a dozen calls that may fail: provided that each of them
\* returns, which no client of the chain enforces with a timeout.
EveryCheckoutEnds ==
    \A c \in Checkouts : Running(c) ~> (reply[c] # "none" \/ at[c] = "dead")
====
