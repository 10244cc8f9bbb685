---- MODULE ShopTab ----
(***************************************************************************)
(* One browser tab of the shop, from the cart to the order: the cart cache *)
(* (module CartCache), the sign-in state (context/AuthContext.tsx), the    *)
(* pages that buy (pages/Product, Cart, Checkout, Login, Signup) and the   *)
(* header, and as much of the server as their answers depend on.           *)
(*                                                                         *)
(* The cart on the screen is always the anonymous one.  A checkout moves   *)
(* it into the cart of the signed-in user, orders that cart, and empties   *)
(* it when the order is placed; module BuyPath has each of its calls.      *)
(***************************************************************************)
EXTENDS CartCache

CONSTANTS
    Users, Guest,   \* who may be signed in, and nobody
    MaxCheckouts,   \* bound: orders submitted
    MaxSigns,       \* bound: logins, sign-ups and sign-outs
    MaxRefreshes,   \* bound: reloads of the tab and reconnects
    MaxSteps        \* bound: all of these together

ASSUME ShopTabConstants ==
    /\ {MaxCheckouts, MaxSigns, MaxRefreshes, MaxSteps} \subseteq Nat
    /\ Guest \notin Users
    /\ NoData \notin Users \cup {Guest}

VARIABLES
    me,         \* the query of GET /api/auth/me
    cookie,     \* whose session cookie the browser holds
    overtaken,  \* a sign-in or sign-out was answered while /me was being read or another
                \* was being answered, or its answer broke off (history)
    sign,       \* logins, sign-ups and sign-outs, in the order they were sent
    page, next, \* where the tab is, and where its sign-in page leads
    ck,         \* the checkouts, in the order they were submitted
    owned,      \* each user's own cart in the cart service
    before,     \* what those carts were earlier; a read may still find it
    bought,     \* an order of the checkout page's was placed, and the page was not
                \* told anything else (history)
    kept,       \* the user whose own cart is what the tab still shows (history)
    refreshes

authVars == <<me, cookie, overtaken, sign>>
pageVars == <<page, next>>
buyVars  == <<ck, owned, before, bought, kept>>
vars == <<cartVars, authVars, pageVars, buyVars, refreshes>>

Checkouts == 1..MaxCheckouts
Signs == 1..MaxSigns
Visitors == Users \cup {Guest}

\* "shop" is every page but two: moving among those leaves no trace in the tab.
Pages == {"shop", "checkout", "login"}

Forms == {"login", "signup"}
SignRecords == [at : {"idle", "sent", "half", "over"}, by : Forms \cup {"out"}, who : Visitors, to : Pages]
NoSign == [at |-> "idle", by |-> "out", who |-> Guest, to |-> "shop"]

\* A checkout is followed by the page that submitted it, by the tab once that
\* page was left, by nobody once the tab was reloaded.
CheckoutRecords ==
    [at : {"idle", "sent", "merged", "clearing", "answered", "over"},
     by : {"page", "tab", "nobody"}, who : Visitors, verdict : {"none", "placed", "no"},
     offer : Carts \cup {NoData}, lines : Carts \cup {NoData}]
NoCheckout == [at |-> "idle", by |-> "nobody", who |-> Guest, verdict |-> "none",
               offer |-> NoData, lines |-> NoData]
Ended == [NoCheckout EXCEPT !.at = "over"]

Running(k) == ck[k].at \notin {"idle", "over"}
Followed(k) == ck[k].by = "page"
Placing == \E k \in Checkouts : Followed(k)

\* What the contexts tell the pages.
User == IF me.data \in Users THEN me.data ELSE Guest

CheckoutView ==
    CASE IsLoading(me) \/ IsLoading(cart) -> "loading"
      [] OTHER -> IF User = Guest THEN "signIn" ELSE IF Shown = Empty THEN "empty" ELSE "form"

CartView ==
    CASE IsLoading(cart) -> "loading"
      [] IsError(cart)   -> "error"
      [] OTHER -> IF Shown = Empty THEN "empty" ELSE "lines"

Steps ==
    Cardinality({a \in Acts : act[a].at # "idle"}) + Cardinality({s \in Signs : sign[s].at # "idle"})
    + Cardinality({k \in Checkouts : ck[k].at # "idle"}) + refreshes
Room == Steps < MaxSteps

-----------------------------------------------------------------------------

TypeOK ==
    /\ CartTypeOK
    /\ me \in Queries(Visitors)
    /\ cookie \in Visitors
    /\ overtaken \in BOOLEAN
    /\ sign \in [Signs -> SignRecords]
    /\ page \in Pages /\ next \in Pages
    /\ ck \in [Checkouts -> CheckoutRecords]
    /\ owned \in [Users -> Carts] /\ before \in [Users -> SUBSET Carts]
    /\ bought \in BOOLEAN
    /\ kept \in Visitors
    /\ refreshes \in 0..MaxRefreshes

\* A visitor opens the tab, with the session id and the cookie of an earlier visit.
Init ==
    /\ CartInit
    /\ cookie \in Visitors
    /\ me = Serve(Start(Fresh), cookie)
    /\ overtaken = FALSE
    /\ sign = [s \in Signs |-> NoSign]
    /\ page = "shop" /\ next = "shop"
    /\ ck = [k \in Checkouts |-> NoCheckout]
    /\ owned = [u \in Users |-> Empty] /\ before = [u \in Users |-> {}]
    /\ bought = FALSE /\ kept = Guest
    /\ refreshes = 0

-----------------------------------------------------------------------------
(* Moving between pages.                                                   *)

\* The checkout page is left: what it submitted goes on, but no page follows it.
Forgotten(r, by) == IF r.by = "nobody" THEN r ELSE [r EXCEPT !.by = by]
LeaveTo(p, n) ==
    /\ page' = p /\ next' = n
    /\ ck' = [k \in Checkouts |-> Forgotten(ck[k], "tab")]
    /\ bought' = FALSE

\* The links of the header, and the cart page's to checkout.  A sign-in page
\* reached so leads home.
Go(p) ==
    /\ p # page
    /\ \/ p = "shop"
       \/ p = "login" /\ User = Guest
       \/ p = "checkout" /\ page = "shop" /\ CartView = "lines"
    /\ LeaveTo(p, "shop")
    /\ UNCHANGED <<cartVars, authVars, owned, before, kept, refreshes>>

\* A visitor who is not signed in is sent to the sign-in page, and back from there.
Redirect ==
    /\ page = "checkout" /\ CheckoutView = "signIn"
    /\ LeaveTo("login", "checkout")
    /\ UNCHANGED <<cartVars, authVars, owned, before, kept, refreshes>>

\* A navigation by code: a page that is there already keeps its state.
Lead(p) == IF p = page THEN UNCHANGED <<page, next, ck, bought>> ELSE LeaveTo(p, "shop")

-----------------------------------------------------------------------------
(* The cart, from the product page and the cart page.                      *)

\* What the shopper does meanwhile changes what a checkout under way finds.
Disturbed == [k \in Checkouts |-> [ck[k] EXCEPT !.offer = NoData]]

Press ==
    /\ page = "shop" /\ Room
    /\ \E a \in Acts, i \in Items :
         \/ PressAdd(a, i)
         \/ /\ CartView = "lines"
            /\ PressStep(a, i, 1) \/ PressStep(a, i, -1) \/ PressRemove(a, i)
    /\ ck' = Disturbed
    /\ UNCHANGED <<authVars, pageVars, owned, before, bought, kept, refreshes>>

CartNews ==
    /\ \/ \E a \in Acts : ServeAct(a) \/ ServeAdrift(a) \/ DropAdrift(a)
                          \/ ActDone(a) \/ ActFails(a)
       \/ CartArrives \/ CartFails
    /\ UNCHANGED <<authVars, pageVars, buyVars, refreshes>>

\* The cart is read: the lines a checkout moved away are no longer shown.
CartRead ==
    /\ ServeCart
    /\ kept' = Guest
    /\ UNCHANGED <<authVars, pageVars, ck, owned, before, bought, refreshes>>

-----------------------------------------------------------------------------
(* Signing in and out.                                                     *)

SendSign(s, f, u) ==
    /\ sign[s].at = "idle" /\ \A t \in Signs : t < s => sign[t].at # "idle"
    /\ Room
    /\ sign' = [sign EXCEPT ![s] = [at |-> "sent", by |-> f, who |-> u, to |-> next]]
    /\ UNCHANGED <<cartVars, me, cookie, overtaken, pageVars, buyVars, refreshes>>

\* Each form is disabled while its own mutation runs, wherever it was sent from;
\* a link leads from one to the other.
Answering(s) == sign[s].at = "half"
Busy(f) == \E s \in Signs : (sign[s].at = "sent" \/ Answering(s)) /\ sign[s].by = f

LogIn(s, u) == page = "login" /\ ~Busy("login") /\ SendSign(s, "login", u)
SignUp(s, u) == page = "login" /\ ~Busy("signup") /\ SendSign(s, "signup", u)

\* The header's button; nothing disables it.
LogOut(s) == User # Guest /\ SendSign(s, "out", Guest)

\* Slip: signing out leaves the tab's user as it was.
KeepUser(q, u) == IF u = Guest THEN q ELSE SetData(q, u)
SetUser(q, u) == SetData(q, u)

\* The headers of the answer set or clear the cookie.
SignHeaders(s) ==
    /\ sign[s].at = "sent"
    /\ cookie' = sign[s].who
    /\ overtaken' = (overtaken \/ Fetching(me) \/ \E t \in Signs : Answering(t))
    /\ sign' = [sign EXCEPT ![s].at = "half"]
    /\ UNCHANGED <<cartVars, me, pageVars, buyVars, refreshes>>

\* Its body names the tab's user.  A form then leads on, even when its page was
\* left meanwhile.
SignDone(s) ==
    /\ Answering(s)
    /\ me' = SetUser(me, sign[s].who)
    /\ sign' = [sign EXCEPT ![s] = [NoSign EXCEPT !.at = "over"]]
    /\ Lead(IF sign[s].who = Guest THEN page ELSE sign[s].to)
    /\ UNCHANGED <<cartVars, cookie, overtaken, owned, before, kept, refreshes>>

\* Refused, or its answer lost or broken off: a message on the form.
SignFails(s) ==
    /\ sign[s].at = "sent" \/ Answering(s)
    /\ overtaken' = (overtaken \/ Answering(s))
    /\ sign' = [sign EXCEPT ![s] = [NoSign EXCEPT !.at = "over"]]
    /\ UNCHANGED <<cartVars, me, cookie, pageVars, buyVars, refreshes>>

\* /me answers whom the cookie sent with it stands for; nobody, if that session
\* is over or accounts does not answer.
MeArrives ==
    /\ Fetching(me)
    /\ \E u \in {me.body, Guest} : me' = Arrive(me, u)
    /\ UNCHANGED <<cartVars, cookie, sign, overtaken, pageVars, buyVars, refreshes>>

MeFails ==
    /\ Fetching(me)
    /\ me' = Fail(me, 0)
    /\ UNCHANGED <<cartVars, cookie, sign, overtaken, pageVars, buyVars, refreshes>>

-----------------------------------------------------------------------------
(* Submitting a checkout.                                                  *)

\* What the page shows is what a checkout would find: nothing is under way, no
\* change went unheard, and the user's own cart is empty or is what is shown.
Calm ==
    /\ ActsQuiet /\ ~Fetching(cart) /\ cart.status = "success" /\ ~blind
    /\ \A k \in Checkouts : ~Running(k)
    /\ User = cookie
    /\ \/ kept = Guest /\ owned[cookie] = Empty
       \/ kept = cookie

\* Slip: the button works while an order is being placed.
CanSubmitAgain == page = "checkout" /\ CheckoutView = "form"
CanSubmit == page = "checkout" /\ CheckoutView = "form" /\ ~Placing

\* The filled-in form is sent; an incomplete one only gets a message.
Submit(k) ==
    /\ ck[k].at = "idle" /\ \A j \in Checkouts : j < k => ck[j].at # "idle"
    /\ CanSubmit /\ Room
    /\ ck' = [Disturbed EXCEPT
                ![k] = [NoCheckout EXCEPT !.at = "sent", !.by = "page", !.who = cookie,
                                          !.offer = IF Calm THEN Shown ELSE NoData]]
    /\ UNCHANGED <<cartVars, authVars, pageVars, owned, before, bought, kept, refreshes>>

-----------------------------------------------------------------------------
(* The server's part of a checkout.                                        *)

Refused(k) == ck' = [ck EXCEPT ![k].at = "answered", ![k].verdict = "no"]

\* The storefront: not signed in, or accounts does not answer.
Unsigned(k) ==
    /\ ck[k].at = "sent"
    /\ Refused(k)
    /\ UNCHANGED <<cartVars, authVars, pageVars, owned, before, bought, kept, refreshes>>

Plus(c, d) == [i \in Items |-> c[i] + d[i]]

\* The carts that adding some lines of d to the cart c, one by one, leaves behind.
Moved(d, lines) == [i \in Items |-> IF i \in lines THEN d[i] ELSE 0]
Filled(c, d) == {Plus(c, Moved(d, lines)) : lines \in (SUBSET {i \in Items : d[i] > 0}) \ {{}}}
OwnVersions(u) == {owned[u]} \cup before[u]

\* Slip: the lines are copied and not moved.
LeftFull(c) == c
Emptied(c) == Empty

\* The storefront moves the anonymous cart into the user's.
Merge(k) ==
    LET u == ck[k].who IN
    /\ ck[k].at = "sent" /\ u # Guest
    /\ owned' = [owned EXCEPT ![u] = Plus(@, stored)]
    /\ before' = [before EXCEPT ![u] = OwnVersions(u) \cup Filled(owned[u], stored)]
    /\ Save(Emptied(stored))
    /\ IF ck[k].offer # NoData /\ cart.data = ck[k].offer /\ ~Fetching(cart)
         THEN kept' = u /\ UNCHANGED blind
         ELSE blind' = (blind \/ stored # Empty) /\ UNCHANGED kept
    /\ ck' = [ck EXCEPT ![k].at = "merged"]
    /\ UNCHANGED <<cart, act, authVars, pageVars, bought, refreshes>>

\* Calls of the move fail, or read older carts: some lines are not added, or to an
\* older cart, or are not the lines there now; the cart is not read or not emptied.
\* The checkout goes on, and what the page showed is not what it finds.
MergeFalters(k) ==
    LET u == ck[k].who
        filled == UNION {Filled(c, d) : c \in OwnVersions(u), d \in Versions}
    IN
    /\ ck[k].at = "sent" /\ u # Guest
    /\ \/ UNCHANGED <<owned, before>>
       \/ /\ \E c \in filled : owned' = [owned EXCEPT ![u] = c]
          /\ before' = [before EXCEPT ![u] = OwnVersions(u) \cup filled]
    /\ Save(stored) \/ Save(Empty)
    /\ blind' = (blind \/ stored' # stored \/ owned' # owned)
    /\ ck' = [ck EXCEPT ![k].at = "merged", ![k].offer = NoData]
    /\ UNCHANGED <<cart, act, authVars, pageVars, bought, kept, refreshes>>

\* The checkout service: an empty cart is refused, another one is ordered.
RefuseEmpty(k) ==
    /\ ck[k].at = "merged" /\ Empty \in OwnVersions(ck[k].who)
    /\ Refused(k)
    /\ UNCHANGED <<cartVars, authVars, pageVars, owned, before, bought, kept, refreshes>>

\* The order has the lines of the cart that was read; an older one is not what
\* the page showed.
Ordered(k, at, verdict) ==
    LET u == ck[k].who IN
    /\ ck[k].at = "merged"
    /\ \E c \in OwnVersions(u) \ {Empty} :
         ck' = [ck EXCEPT ![k].at = at, ![k].verdict = verdict, ![k].lines = c,
                          ![k].offer = IF c = owned[u] THEN @ ELSE NoData]

Decline(k) ==
    /\ Ordered(k, "answered", "no")
    /\ UNCHANGED <<cartVars, authVars, pageVars, owned, before, bought, kept, refreshes>>

Place(k) ==
    /\ Ordered(k, "clearing", "placed")
    /\ bought' = (bought \/ Followed(k))
    /\ UNCHANGED <<cartVars, authVars, pageVars, owned, before, kept, refreshes>>

Cleared(c) == Empty

ClearCart(k) ==
    LET u == ck[k].who IN
    /\ ck[k].at = "clearing"
    /\ owned' = [owned EXCEPT ![u] = Cleared(@)]
    /\ before' = [before EXCEPT ![u] = OwnVersions(u)]
    /\ ck' = [ck EXCEPT ![k].at = "answered"]
    /\ UNCHANGED <<cartVars, authVars, pageVars, bought, kept, refreshes>>

\* The cart cannot be emptied; that is logged and no more.
ClearFails(k) ==
    /\ ck[k].at = "clearing"
    /\ ck' = [ck EXCEPT ![k].at = "answered"]
    /\ UNCHANGED <<cartVars, authVars, pageVars, owned, before, bought, kept, refreshes>>

\* A call of the chain fails; the order may have been made.
ChainFails(k) ==
    /\ ck[k].at \in {"merged", "clearing"}
    /\ Refused(k)
    /\ UNCHANGED <<cartVars, authVars, pageVars, owned, before, bought, kept, refreshes>>

-----------------------------------------------------------------------------
(* The answer of a checkout.                                               *)

\* Placed: the cart is read again and the tab goes to the order, wherever it is.
HearPlaced(k) ==
    /\ ck[k].at = "answered" /\ ck[k].by # "nobody" /\ ck[k].verdict = "placed"
    /\ cart' = Invalidate(cart)
    /\ page' = "shop" /\ next' = "shop"
    /\ ck' = [j \in Checkouts |-> IF j = k THEN Ended ELSE Forgotten(ck[j], "tab")]
    /\ bought' = FALSE
    /\ UNCHANGED <<stored, past, act, blind, authVars, owned, before, kept, refreshes>>

\* Declined or failed: "Payment declined." on the page, if that is still there.
HearNo(k) ==
    /\ ck[k].at = "answered" /\ ck[k].by # "nobody" /\ ck[k].verdict = "no"
    /\ ck' = [ck EXCEPT ![k] = Ended]
    /\ bought' = (bought /\ ~Followed(k))
    /\ UNCHANGED <<cartVars, authVars, pageVars, owned, before, kept, refreshes>>

\* The answer does not reach the tab, or the tab that sent it was reloaded.
NotHeard(k) ==
    /\ ck[k].at = "answered"
    /\ blind' = (blind \/ ck[k].verdict = "placed")
    /\ ck' = [ck EXCEPT ![k] = Ended]
    /\ bought' = (bought /\ ~Followed(k))
    /\ UNCHANGED <<stored, past, cart, act, authVars, pageVars, owned, before, kept, refreshes>>

-----------------------------------------------------------------------------
(* The tab is reloaded; the network comes back.                            *)

Reload ==
    /\ refreshes < MaxRefreshes /\ Room
    /\ refreshes' = refreshes + 1
    /\ ReloadCart
    /\ me' = Serve(Start(Fresh), cookie)
    /\ overtaken' = FALSE
    /\ sign' = [s \in Signs |-> IF sign[s].at = "idle" THEN NoSign ELSE [NoSign EXCEPT !.at = "over"]]
    /\ ck' = [k \in Checkouts |-> Forgotten(ck[k], "nobody")]
    /\ bought' = FALSE
    /\ UNCHANGED <<cookie, pageVars, owned, before, kept>>

\* Of the queries on the page, those old enough are read again.
Reconnect ==
    /\ refreshes < MaxRefreshes /\ Room
    /\ refreshes' = refreshes + 1
    /\ \/ cart' = Ask(cart) /\ UNCHANGED <<me, overtaken>>
       \/ /\ ~Fetching(me)
          /\ me' = Serve(Start(me), cookie)
          /\ overtaken' = (\E s \in Signs : Answering(s) /\ sign[s].who # cookie)
          /\ cart' \in {cart, Ask(cart)}
    /\ UNCHANGED <<stored, past, act, blind, cookie, sign, pageVars, buyVars>>

-----------------------------------------------------------------------------

ShopperActs ==
    \/ \E p \in Pages : Go(p)
    \/ Press
    \/ \E s \in Signs : LogOut(s) \/ \E u \in Users : LogIn(s, u) \/ SignUp(s, u)
    \/ \E k \in Checkouts : Submit(k)
    \/ Reload \/ Reconnect

ServerActs(k) ==
    \/ Unsigned(k) \/ Merge(k) \/ MergeFalters(k) \/ RefuseEmpty(k) \/ Decline(k) \/ Place(k)
    \/ ClearCart(k) \/ ClearFails(k) \/ ChainFails(k)

Answers ==
    \/ Redirect
    \/ CartNews \/ CartRead
    \/ \E s \in Signs : SignHeaders(s) \/ SignDone(s) \/ SignFails(s)
    \/ MeArrives \/ MeFails
    \/ \E k \in Checkouts : ServerActs(k) \/ HearPlaced(k) \/ HearNo(k) \/ NotHeard(k)

Next == ShopperActs \/ Answers

Spec == Init /\ [][Next]_vars

-----------------------------------------------------------------------------

\* Nothing that changes or reads a cart is under way.
Quiet ==
    /\ ActsQuiet /\ ~Fetching(cart)
    /\ \A k \in Checkouts : ~Running(k)

\* Once nothing is under way, the cart on the screen is the cart in the cart
\* service, or the lines a declined checkout moved into the user's own cart;
\* unless the cart could not be read, its last read found an older cart
\* (awskv.go:51), or a change of it was never heard of.  Overlapping mutations
\* may be answered in any order (CartContext.tsx:95).
ShownIsStored ==
    Quiet /\ cart.status = "success" /\ ~blind =>
        cart.data = IF kept = Guest THEN stored ELSE owned[kept]

\* An order has the lines the page showed when it was submitted, also one made
\* by a second try after a decline (Checkout.tsx:56), if what was shown then was
\* all there was to buy, the lines were moved and fetched without a failing call
\* or an older cart being read, and the shopper did nothing else meanwhile.
OrderIsOffer ==
    \A k \in Checkouts :
        ck[k].offer # NoData /\ ck[k].lines # NoData => ck[k].lines = ck[k].offer

\* One visit of the checkout page has at most one order placed: the button is
\* disabled while an order is under way (Checkout.tsx:284), and an order that was
\* placed leads the tab away (Checkout.tsx:53).  Only after the page was told that
\* its checkout failed, or heard nothing of it, may a second order be placed.
BoughtOnce ==
    [][\A k \in Checkouts : Followed(k) /\ Place(k) => ~bought]_vars

\* A tab that shows somebody as signed in holds the cookie of that user, once no
\* sign-in or sign-out is being answered, unless one was answered while the
\* sign-in state was being read, while another one was being answered, or only
\* by its headers (AuthContext.tsx:54-66).
UserShownTrue ==
    /\ ~Fetching(me) /\ \A s \in Signs : ~Answering(s)
    /\ me.status = "success" /\ User # Guest /\ ~overtaken
    => User = cookie

====
