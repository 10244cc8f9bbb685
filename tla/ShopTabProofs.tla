---- MODULE ShopTabProofs ----
(***************************************************************************)
(* Theorems about a tab of the shop, for any sets of items and users and   *)
(* any bounds: its types, and each property the run checks.                *)
(***************************************************************************)
EXTENDS ShopTab, TLAPS

-----------------------------------------------------------------------------
(* The operations on a query.                                              *)

LEMMA QueryTypes ==
  ASSUME NEW D, NEW q \in Queries(D), NEW d \in D \cup {NoData}, NEW n \in Nat
  PROVE  /\ Fresh \in Queries(D)
         /\ Start(q) \in Queries(D) /\ Ask(q) \in Queries(D) /\ Invalidate(q) \in Queries(D)
         /\ SetData(q, d) \in Queries(D) /\ Serve(q, d) \in Queries(D)
         /\ Arrive(q, d) \in Queries(D) /\ Fail(q, n) \in Queries(D)
<1> USE DEF Queries, Statuses
<1>1. Fresh \in Queries(D)
  BY DEF Fresh
<1>2. Start(q) \in Queries(D)
  BY DEF Start
<1>3. Ask(q) \in Queries(D) /\ Invalidate(q) \in Queries(D)
  BY <1>2 DEF Ask, Invalidate
<1>4. SetData(q, d) \in Queries(D)
  BY DEF SetData
<1>5. Serve(q, d) \in Queries(D)
  BY DEF Serve
<1>6. Arrive(q, d) \in Queries(D)
  BY DEF Arrive
<1>7. Fail(q, n) \in Queries(D)
  <2>1. q.tries \in Nat /\ q.tries + 1 \in Nat
    OBVIOUS
  <2>2. CASE q.tries < n
    BY <2>1, <2>2 DEF Fail
  <2>3. CASE ~(q.tries < n)
    BY <2>3 DEF Fail
  <2> QED BY <2>2, <2>3
<1> QED BY <1>1, <1>2, <1>3, <1>4, <1>5, <1>6, <1>7

\* A value that was cached stays, and an invalidated query with one is asked again.
LEMMA QueryFacts ==
  ASSUME NEW D, NEW q \in Queries(D), NEW d \in D, NEW n \in Nat
  PROVE  /\ Start(q).data = q.data /\ Start(q).fetch = "asked"
         /\ Ask(q).data = q.data /\ (Ask(q) = q \/ Ask(q).fetch = "asked")
         /\ Invalidate(q).data = q.data
         /\ q.data # NoData => Invalidate(q).fetch = "asked"
         /\ SetData(q, d).data = d /\ SetData(q, d).status = "success"
         /\ SetData(q, d).fetch = q.fetch /\ SetData(q, d).body = q.body
         /\ Serve(q, d).data = q.data /\ Serve(q, d).fetch = "served" /\ Serve(q, d).body = d
         /\ Arrive(q, d).data = d /\ Arrive(q, d).fetch = "idle"
         /\ Fail(q, n).data = q.data
         /\ \/ Fail(q, n).fetch = "asked"
            \/ Fail(q, n).fetch = "idle" /\ Fail(q, n).status = "error"
<1> USE DEF Queries, Statuses
<1>1. Start(q).data = q.data /\ Start(q).fetch = "asked"
  BY DEF Start
<1>2. /\ Ask(q).data = q.data /\ (Ask(q) = q \/ Ask(q).fetch = "asked")
      /\ Invalidate(q).data = q.data
      /\ q.data # NoData => Invalidate(q).fetch = "asked"
  BY <1>1 DEF Ask, Invalidate
<1>3. /\ SetData(q, d).data = d /\ SetData(q, d).status = "success"
      /\ SetData(q, d).fetch = q.fetch /\ SetData(q, d).body = q.body
  BY DEF SetData
<1>4. Serve(q, d).data = q.data /\ Serve(q, d).fetch = "served" /\ Serve(q, d).body = d
  BY DEF Serve
<1>5. Arrive(q, d).data = d /\ Arrive(q, d).fetch = "idle"
  BY DEF Arrive
<1>6. /\ Fail(q, n).data = q.data
      /\ \/ Fail(q, n).fetch = "asked"
         \/ Fail(q, n).fetch = "idle" /\ Fail(q, n).status = "error"
  BY DEF Fail
<1> QED BY <1>1, <1>2, <1>3, <1>4, <1>5, <1>6

LEMMA FreshStart ==
  ASSUME NEW D
  PROVE  /\ Fresh \in Queries(D)
         /\ Start(Fresh) \in Queries(D)
         /\ Start(Fresh).fetch = "asked" /\ Start(Fresh).data = NoData
<1>1. Fresh \in Queries(D) /\ Fresh.data = NoData
  BY DEF Fresh, Queries, Statuses
<1> QED BY <1>1 DEF Start, Queries, Statuses

-----------------------------------------------------------------------------
(* Type correctness.                                                       *)

LEMMA CartFacts ==
  /\ Empty \in Carts /\ NoAct \in ActRecords
  /\ \A c, d \in Carts : Plus(c, d) \in Carts
  /\ \A c \in Carts, r \in ActRecords : Applied(c, r) \in Carts
  /\ \A r \in ActRecords : Over(r) \in ActRecords /\ Abandoned(r) \in ActRecords
  /\ \A d \in Carts, lines \in SUBSET Items : Moved(d, lines) \in Carts
<1>1. AnyItem \in Items
  BY CartCacheConstants DEF AnyItem
<1>2. ASSUME NEW c \in Carts, NEW r \in ActRecords PROVE Applied(c, r) \in Carts
  BY <1>2 DEF Applied, Carts, ActRecords
<1>3. Empty \in Carts /\ \A c, d \in Carts : Plus(c, d) \in Carts
  BY DEF Empty, Carts, Plus
<1>4. NoAct \in ActRecords
  BY <1>1 DEF NoAct, ActRecords
<1>5. ASSUME NEW r \in ActRecords PROVE Over(r) \in ActRecords
  BY <1>4, <1>5 DEF Over, ActRecords
<1>6. ASSUME NEW r \in ActRecords PROVE Abandoned(r) \in ActRecords
  BY <1>5, <1>6 DEF Abandoned, ActRecords
<1>7. \A d \in Carts, lines \in SUBSET Items : Moved(d, lines) \in Carts
  BY DEF Carts, Moved
<1> QED BY <1>2, <1>3, <1>4, <1>5, <1>6, <1>7

\* Every version of the visitor's cart is a cart, whatever a call makes of one.
LEMMA VersionsType ==
  ASSUME CartTypeOK
  PROVE  /\ stored \in Versions /\ Versions \subseteq Carts
         /\ \A c \in Carts : Save(c) => stored' \in Carts /\ past' \subseteq Carts
  BY DEF CartTypeOK, Versions, Save

LEMMA CallType ==
  ASSUME CartTypeOK, NEW c \in Versions, NEW r \in ActRecords, Call(c, r)
  PROVE  Applied(c, r) \in Carts /\ stored' \in Carts /\ past' \subseteq Carts
<1>1. c \in Carts /\ stored \in Carts
  BY VersionsType DEF CartTypeOK
<1>2. Applied(c, r) \in Carts
  BY <1>1, CartFacts
<1>3. (IF Saves(c, r) THEN Applied(c, r) ELSE stored) \in Carts
  BY <1>1, <1>2
<1> QED BY <1>2, <1>3, VersionsType DEF Call

\* So is what the storefront makes of a user's own.
LEMMA FilledType ==
  ASSUME NEW c \in Carts, NEW d \in Carts
  PROVE  Filled(c, d) \subseteq Carts
  BY CartFacts DEF Filled

LEMMA OwnType ==
  ASSUME TypeOK, NEW u \in Users
  PROVE  owned[u] \in OwnVersions(u) /\ OwnVersions(u) \subseteq Carts
  BY DEF TypeOK, OwnVersions

LEMMA ShownType == CartTypeOK => Shown \in Carts
  BY CartFacts DEF CartTypeOK, Queries, Shown, DataOr

LEMMA InitType == Init => TypeOK
<1> SUFFICES ASSUME Init PROVE TypeOK
  OBVIOUS
<1>1. stored \in Carts /\ past = {}
  BY CartCacheConstants DEF Init, CartInit, Carts
<1>2. cart \in Queries(Carts)
  BY FreshStart DEF Init, CartInit
<1>3. me \in Queries(Visitors)
  <2>1. Start(Fresh) \in Queries(Visitors) /\ cookie \in Visitors
    BY FreshStart DEF Init
  <2> QED BY <2>1, QueryTypes, ShopTabConstants DEF Init
<1>4. CartTypeOK
  BY <1>1, <1>2, CartFacts DEF Init, CartInit, CartTypeOK
<1>5. NoSign \in SignRecords /\ NoCheckout \in CheckoutRecords
  BY DEF NoSign, NoCheckout, SignRecords, CheckoutRecords, Pages, Visitors
<1>6. sign \in [Signs -> SignRecords] /\ ck \in [Checkouts -> CheckoutRecords]
  BY <1>5 DEF Init
<1>7. refreshes \in 0..MaxRefreshes
  BY ShopTabConstants DEF Init
<1>8. owned \in [Users -> Carts] /\ before \in [Users -> SUBSET Carts]
  BY CartFacts DEF Init
<1> QED
  BY <1>3, <1>4, <1>6, <1>7, <1>8 DEF Init, TypeOK, Pages, Visitors

\* Leaving the checkout page keeps the records of the checkouts.
LEMMA ForgottenType ==
  ASSUME NEW r \in CheckoutRecords, NEW by \in {"page", "tab", "nobody"}
  PROVE  Forgotten(r, by) \in CheckoutRecords
  BY DEF Forgotten, CheckoutRecords

LEMMA LeaveType ==
  ASSUME TypeOK, NEW p \in Pages, NEW n \in Pages, LeaveTo(p, n)
  PROVE  page' \in Pages /\ next' \in Pages /\ ck' \in [Checkouts -> CheckoutRecords] /\ bought' \in BOOLEAN
  BY ForgottenType DEF TypeOK, LeaveTo

\* Moving between pages.
LEMMA MoveType ==
  ASSUME TypeOK, Redirect \/ \E p \in Pages : Go(p)
  PROVE  TypeOK'
<1>1. /\ page' \in Pages /\ next' \in Pages /\ ck' \in [Checkouts -> CheckoutRecords] /\ bought' \in BOOLEAN
      /\ UNCHANGED <<cartVars, authVars, owned, before, kept, refreshes>>
  BY LeaveType DEF Redirect, Go, Pages
<1> QED BY <1>1 DEF TypeOK, CartTypeOK, cartVars, authVars

\* The mutations of the cart, and what is heard of them.
LEMMA FireType ==
  ASSUME CartTypeOK, NEW a \in Acts, NEW i \in Items, NEW op \in {"add", "set", "remove"},
         NEW q \in Nat, Fire(a, op, i, q)
  PROVE  CartTypeOK'
<1>1. [NoAct EXCEPT !.at = "sent", !.op = op, !.item = i, !.qty = q] \in ActRecords
  BY CartFacts DEF ActRecords
<1> QED BY <1>1 DEF Fire, CartTypeOK

LEMMA PressType == ASSUME TypeOK, Press PROVE TypeOK'
<1>1. CartTypeOK
  BY DEF TypeOK
<1>2. ASSUME NEW i \in Items, Shown[i] > 0
      PROVE  Shown[i] + 1 \in Nat /\ Shown[i] + -1 \in Nat
  <2>1. Shown[i] \in Nat
    BY <1>1, ShownType DEF Carts
  <2> QED BY <2>1, <1>2
<1>3. CartTypeOK'
  <2>1. PICK a \in Acts, i \in Items :
          PressAdd(a, i) \/ PressStep(a, i, 1) \/ PressStep(a, i, -1) \/ PressRemove(a, i)
    BY DEF Press
  <2>2. CASE PressAdd(a, i)
    BY <2>2, <1>1, FireType DEF PressAdd
  <2>3. CASE PressStep(a, i, 1)
    BY <2>3, <1>1, <1>2, FireType DEF PressStep
  <2>4. CASE PressStep(a, i, -1)
    BY <2>4, <1>1, <1>2, FireType DEF PressStep
  <2>5. CASE PressRemove(a, i)
    BY <2>5, <1>1, FireType DEF PressRemove
  <2> QED BY <2>1, <2>2, <2>3, <2>4, <2>5
<1>4. Disturbed \in [Checkouts -> CheckoutRecords]
  BY DEF Disturbed, TypeOK, CheckoutRecords
<1> QED BY <1>3, <1>4 DEF Press, TypeOK, authVars, pageVars

\* What happens to one mutation, or to the read of the cart.
CartStep ==
    \/ \E a \in Acts : ServeAct(a) \/ ServeAdrift(a) \/ DropAdrift(a) \/ ActDone(a) \/ ActFails(a)
    \/ ServeCart \/ CartArrives \/ CartFails

LEMMA CartStepType == ASSUME CartTypeOK, CartStep PROVE CartTypeOK'
<1> USE DEF CartTypeOK
<1>1. ASSUME NEW a \in Acts, ServeAct(a) PROVE CartTypeOK'
  <2>1. PICK c \in Versions :
          /\ Call(c, act[a])
          /\ act' = [act EXCEPT ![a] = [act[a] EXCEPT !.at = "served", !.env = Applied(c, act[a])]]
    BY <1>1 DEF ServeAct
  <2>2. Applied(c, act[a]) \in Carts /\ stored' \in Carts /\ past' \subseteq Carts
    BY <2>1, CallType
  <2>3. [act[a] EXCEPT !.at = "served", !.env = Applied(c, act[a])] \in ActRecords
    BY <2>2 DEF ActRecords
  <2> QED BY <1>1, <2>1, <2>2, <2>3 DEF ServeAct
<1>2. ASSUME NEW a \in Acts, ServeAdrift(a) PROVE CartTypeOK'
  <2>1. PICK c \in Versions : Call(c, act[a])
    BY <1>2 DEF ServeAdrift
  <2>2. stored' \in Carts /\ past' \subseteq Carts
    BY <2>1, CallType
  <2> QED BY <1>2, <2>2, CartFacts DEF ServeAdrift
<1>3. ASSUME NEW a \in Acts, DropAdrift(a) PROVE CartTypeOK'
  BY <1>3, CartFacts DEF DropAdrift
<1>4. ASSUME NEW a \in Acts, ActDone(a) PROVE CartTypeOK'
  <2>1. act[a].env \in Carts \cup {NoData}
    BY DEF ActRecords
  <2>2. SetData(cart, act[a].env) \in Queries(Carts)
    BY <2>1, QueryTypes
  <2>3. cart' \in Queries(Carts)
    BY <1>4, <2>2, <2>1, QueryTypes DEF ActDone, Answer
  <2> QED BY <1>4, <2>3, CartFacts DEF ActDone
<1>5. ASSUME NEW a \in Acts, ActFails(a) PROVE CartTypeOK'
  BY <1>5, CartFacts DEF ActFails
<1>6. CASE ServeCart
  <2>1. PICK c \in Versions : cart' = Serve(cart, c) /\ blind' = (c # stored)
    BY <1>6 DEF ServeCart
  <2>2. c \in Carts
    BY VersionsType
  <2> QED BY <1>6, <2>1, <2>2, QueryTypes DEF ServeCart
<1>7. CASE CartArrives
  <2>1. cart.body \in Carts \cup {NoData}
    BY DEF Queries
  <2> QED BY <1>7, <2>1, QueryTypes DEF CartArrives
<1>8. CASE CartFails
  BY <1>8, QueryTypes, CartCacheConstants DEF CartFails
<1> QED BY <1>1, <1>2, <1>3, <1>4, <1>5, <1>6, <1>7, <1>8 DEF CartStep

LEMMA CartNewsType == ASSUME TypeOK, CartNews \/ CartRead PROVE TypeOK'
<1>1. CartTypeOK'
  BY CartStepType DEF TypeOK, CartNews, CartRead, CartStep
<1> QED BY <1>1 DEF TypeOK, CartNews, CartRead, authVars, pageVars, buyVars, Visitors

\* Signing in and out.
LEMMA SignType ==
  ASSUME TypeOK,
         \/ \E s \in Signs : LogOut(s) \/ SignHeaders(s) \/ SignDone(s) \/ SignFails(s)
                              \/ \E u \in Users : LogIn(s, u) \/ SignUp(s, u)
         \/ MeArrives \/ MeFails
  PROVE  TypeOK'
<1> USE DEF TypeOK
<1>1. Users \subseteq Visitors /\ Guest \in Visitors
  BY DEF Visitors
<1>2. ASSUME NEW s \in Signs, NEW u \in Visitors, NEW f \in Forms \cup {"out"}, SendSign(s, f, u) PROVE TypeOK'
  <2>1. [at |-> "sent", by |-> f, who |-> u, to |-> next] \in SignRecords
    BY DEF SignRecords
  <2> QED BY <1>2, <2>1 DEF SendSign, CartTypeOK, cartVars, pageVars, buyVars
<1>3. [NoSign EXCEPT !.at = "over"] \in SignRecords
  BY <1>1 DEF NoSign, SignRecords, Pages
<1>4. ASSUME NEW s \in Signs, SignFails(s) \/ SignHeaders(s) PROVE TypeOK'
  <2>1. CASE SignFails(s)
    BY <1>3, <2>1 DEF SignFails, Answering, CartTypeOK, cartVars, pageVars, buyVars
  <2>2. CASE SignHeaders(s)
    <3>1. sign[s].who \in Visitors /\ [sign[s] EXCEPT !.at = "half"] \in SignRecords
      BY DEF SignRecords
    <3> QED BY <2>2, <3>1 DEF SignHeaders, CartTypeOK, cartVars, pageVars, buyVars
  <2> QED BY <1>4, <2>1, <2>2
<1>5. ASSUME NEW s \in Signs, SignDone(s) PROVE TypeOK'
  <2>1. sign[s].who \in Visitors /\ sign[s].to \in Pages
    BY DEF SignRecords
  <2>2. me' \in Queries(Visitors)
    BY <1>5, <2>1, QueryTypes, ShopTabConstants DEF SignDone, SetUser
  <2>3. page' \in Pages /\ next' \in Pages /\ ck' \in [Checkouts -> CheckoutRecords] /\ bought' \in BOOLEAN
    <3>1. ASSUME NEW p \in Pages, Lead(p)
          PROVE  page' \in Pages /\ next' \in Pages /\ ck' \in [Checkouts -> CheckoutRecords] /\ bought' \in BOOLEAN
      BY <3>1, LeaveType DEF Lead, Pages
    <3> QED BY <3>1, <2>1, <1>5 DEF SignDone
  <2>4. sign' \in [Signs -> SignRecords]
    BY <1>5, <1>3 DEF SignDone
  <2> QED BY <1>5, <2>1, <2>2, <2>3, <2>4 DEF SignDone, CartTypeOK, cartVars
<1>6. CASE MeArrives
  <2>1. PICK u \in {me.body, Guest} : me' = Arrive(me, u)
    BY <1>6 DEF MeArrives
  <2>2. u \in Visitors \cup {NoData}
    BY <2>1, <1>1 DEF Queries
  <2>3. me' \in Queries(Visitors)
    BY <2>1, <2>2, QueryTypes
  <2> QED BY <1>6, <2>3 DEF MeArrives, CartTypeOK, cartVars, pageVars, buyVars
<1>7. CASE MeFails
  <2>1. me' \in Queries(Visitors)
    BY <1>7, QueryTypes DEF MeFails
  <2> QED BY <1>7, <2>1 DEF MeFails, CartTypeOK, cartVars, pageVars, buyVars
<1>8. {"login", "signup", "out"} \subseteq Forms \cup {"out"}
  BY DEF Forms
<1>9. ASSUME NEW s \in Signs, NEW u \in Users, LogOut(s) \/ LogIn(s, u) \/ SignUp(s, u)
      PROVE  \E v \in Visitors, f \in Forms \cup {"out"} : SendSign(s, f, v)
  BY <1>1, <1>8, <1>9 DEF LogOut, LogIn, SignUp
<1>10. ASSUME NEW s \in Signs, LogOut(s) PROVE \E f \in Forms \cup {"out"} : SendSign(s, f, Guest)
  BY <1>8, <1>10 DEF LogOut
<1> QED BY <1>1, <1>2, <1>4, <1>5, <1>6, <1>7, <1>9, <1>10

\* Checkouts: sent, carried through by the server, and answered.
LEMMA SubmitType == ASSUME TypeOK, NEW k \in Checkouts, Submit(k) PROVE TypeOK'
<1> USE DEF TypeOK
<1>1. Disturbed \in [Checkouts -> CheckoutRecords]
  BY DEF Disturbed, CheckoutRecords
<1>2. (IF Calm THEN Shown ELSE NoData) \in Carts \cup {NoData}
  BY ShownType
<1>3. [NoCheckout EXCEPT !.at = "sent", !.by = "page", !.who = cookie,
                         !.offer = IF Calm THEN Shown ELSE NoData] \in CheckoutRecords
  BY <1>2 DEF NoCheckout, CheckoutRecords
<1>4. ck' \in [Checkouts -> CheckoutRecords]
  BY <1>1, <1>3 DEF Submit
<1> QED BY <1>4 DEF Submit, CartTypeOK, cartVars, authVars, pageVars

\* The server knows whom it orders for, and what became of the order.
Carried == \A k \in Checkouts :
    /\ ck[k].at \in {"merged", "clearing"} => ck[k].who \in Users
    /\ ck[k].at = "clearing" => ck[k].verdict = "placed"

TypeInv == TypeOK /\ Carried

LEMMA RecordType ==
  ASSUME NEW r \in CheckoutRecords,
         NEW at \in {"merged", "clearing", "answered"}, NEW v \in {"none", "no", "placed"},
         NEW l \in Carts \cup {NoData}
  PROVE  /\ [r EXCEPT !.at = at] \in CheckoutRecords
         /\ [r EXCEPT !.at = at, !.verdict = v] \in CheckoutRecords
         /\ [r EXCEPT !.at = at, !.verdict = v, !.lines = l] \in CheckoutRecords
  BY DEF CheckoutRecords

LEMMA RefusedType ==
  ASSUME TypeInv, NEW k \in Checkouts, Refused(k)
  PROVE  ck' \in [Checkouts -> CheckoutRecords] /\ Carried'
<1>1. ck \in [Checkouts -> CheckoutRecords]
  BY DEF TypeInv, TypeOK
<1>2. ck' = [ck EXCEPT ![k] = [ck[k] EXCEPT !.at = "answered", !.verdict = "no"]]
  BY <1>1 DEF Refused
<1>3. [ck[k] EXCEPT !.at = "answered", !.verdict = "no"] \in CheckoutRecords
  BY <1>1, RecordType
<1>4. ck' \in [Checkouts -> CheckoutRecords]
  BY <1>1, <1>2, <1>3
<1>5. \A j \in Checkouts : j # k => ck'[j] = ck[j]
  BY <1>1, <1>2
<1>6. ck'[k].at = "answered"
  BY <1>1, <1>2 DEF CheckoutRecords
<1> QED BY <1>4, <1>5, <1>6 DEF Carried, TypeInv

\* Only a checkout whose lines were moved is ordered.
LEMMA OrderedAt ==
  ASSUME NEW k \in Checkouts, Decline(k) \/ Place(k)
  PROVE  ck[k].at = "merged"
<1>1. ASSUME NEW at, NEW v, Ordered(k, at, v) PROVE ck[k].at = "merged"
  BY <1>1 DEF Ordered
<1> QED BY <1>1 DEF Decline, Place

\* A verdict of the payment, with the lines it was about.
LEMMA VerdictType ==
  ASSUME TypeInv, NEW k \in Checkouts, ck[k].at = "merged", NEW at \in {"answered", "clearing"},
         NEW v \in {"no", "placed"}, at = "clearing" => v = "placed",
         Ordered(k, at, v)
  PROVE  /\ ck' \in [Checkouts -> CheckoutRecords] /\ Carried'
         /\ ck'[k].by = ck[k].by /\ ck'[k].who = ck[k].who /\ ck'[k].at = at /\ ck'[k].verdict = v
         /\ ck'[k].offer # NoData => ck'[k].offer = ck[k].offer /\ ck'[k].lines = owned[ck[k].who]
         /\ \A j \in Checkouts \ {k} : ck'[j] = ck[j]
<1>1. ck \in [Checkouts -> CheckoutRecords] /\ ck[k].who \in Users
  BY DEF TypeInv, TypeOK, Carried
<1> DEFINE u == ck[k].who
<1>0. PICK c \in OwnVersions(u) :
        ck' = [ck EXCEPT ![k] = [ck[k] EXCEPT !.at = at, !.verdict = v, !.lines = c,
                                 !.offer = IF c = owned[u] THEN ck[k].offer ELSE NoData]]
  BY <1>1 DEF Ordered
<1> DEFINE offer == IF c = owned[u] THEN ck[k].offer ELSE NoData
           r == [ck[k] EXCEPT !.at = at, !.verdict = v, !.lines = c, !.offer = offer]
<1>2. ck' = [ck EXCEPT ![k] = r]
  BY <1>0
<1>3. /\ r \in CheckoutRecords /\ r.by = ck[k].by /\ r.offer = offer /\ r.lines = c
  <2>1. c \in Carts /\ offer \in Carts \cup {NoData}
    BY <1>1, OwnType DEF TypeInv, CheckoutRecords
  <2> HIDE DEF offer
  <2> QED BY <1>1, <2>1 DEF CheckoutRecords
<1>4. r.at = at /\ r.verdict = v /\ r.who = ck[k].who
  BY <1>1 DEF CheckoutRecords
<1>5. ck' \in [Checkouts -> CheckoutRecords]
  BY <1>1, <1>2, <1>3
<1>6. ck'[k] = r /\ \A j \in Checkouts : j # k => ck'[j] = ck[j]
  BY <1>1, <1>2
<1>7. offer # NoData => offer = ck[k].offer /\ c = owned[u]
  OBVIOUS
<1> HIDE DEF r, offer
<1> QED BY <1>3, <1>4, <1>5, <1>6, <1>7 DEF Carried, TypeInv

\* A checkout that goes on without a verdict of its own.
LEMMA OnwardType ==
  ASSUME TypeInv, NEW k \in Checkouts, NEW at \in {"merged", "answered"},
         at = "merged" => ck[k].who \in Users, ck' = [ck EXCEPT ![k].at = at]
  PROVE  ck' \in [Checkouts -> CheckoutRecords] /\ Carried'
<1>1. ck \in [Checkouts -> CheckoutRecords]
  BY DEF TypeInv, TypeOK
<1>2. ck' = [ck EXCEPT ![k] = [ck[k] EXCEPT !.at = at]]
  BY <1>1
<1>3. [ck[k] EXCEPT !.at = at] \in CheckoutRecords
  BY <1>1, RecordType
<1>4. ck' \in [Checkouts -> CheckoutRecords]
  BY <1>1, <1>2, <1>3
<1>5. \A j \in Checkouts : j # k => ck'[j] = ck[j]
  BY <1>1, <1>2
<1>6. ck'[k].at = at /\ ck'[k].who = ck[k].who
  BY <1>1, <1>2 DEF CheckoutRecords
<1> QED BY <1>4, <1>5, <1>6 DEF Carried, TypeInv

\* A move that failed in part: the checkout goes on, and is no longer undisturbed.
LEMMA FalterType ==
  ASSUME TypeInv, NEW k \in Checkouts, ck[k].who \in Users,
         ck' = [ck EXCEPT ![k].at = "merged", ![k].offer = NoData]
  PROVE  ck' \in [Checkouts -> CheckoutRecords] /\ Carried'
<1> DEFINE r == [ck[k] EXCEPT !.at = "merged", !.offer = NoData]
<1>1. ck \in [Checkouts -> CheckoutRecords]
  BY DEF TypeInv, TypeOK
<1>2. ck' = [ck EXCEPT ![k] = r]
  BY <1>1
<1>3. r \in CheckoutRecords /\ r.at = "merged" /\ r.who = ck[k].who
  BY <1>1 DEF CheckoutRecords
<1>4. ck' \in [Checkouts -> CheckoutRecords]
  BY <1>1, <1>2, <1>3
<1>5. ck'[k] = r /\ \A j \in Checkouts : j # k => ck'[j] = ck[j]
  BY <1>1, <1>2
<1> HIDE DEF r
<1> QED BY <1>3, <1>4, <1>5 DEF Carried, TypeInv

LEMMA ServerType == ASSUME TypeInv, NEW k \in Checkouts, ServerActs(k) PROVE TypeInv'
<1> USE DEF TypeInv, TypeOK
<1>1. CASE Unsigned(k)
  BY <1>1, RefusedType DEF Unsigned, CartTypeOK, cartVars, authVars, pageVars
<1>2. CASE Merge(k)
  <2>1. ck[k].who \in Users
    BY <1>2 DEF Merge, CheckoutRecords, Visitors
  <2>2. stored' \in Carts /\ past' \subseteq Carts
    BY <1>2, VersionsType, CartFacts DEF Merge, Emptied
  <2>5. owned' \in [Users -> Carts] /\ before' \in [Users -> SUBSET Carts]
    <3>1. owned[ck[k].who] \in Carts /\ stored \in Carts
      BY <2>1 DEF CartTypeOK
    <3>2. Plus(owned[ck[k].who], stored) \in Carts
          /\ OwnVersions(ck[k].who) \cup Filled(owned[ck[k].who], stored) \subseteq Carts
      BY <2>1, <3>1, OwnType, FilledType, CartFacts
    <3> QED BY <1>2, <2>1, <3>2 DEF Merge
  <2>3. kept' \in Visitors /\ blind' \in BOOLEAN
    BY <1>2, <2>1 DEF Merge, CartTypeOK, Visitors
  <2>4. ck' \in [Checkouts -> CheckoutRecords] /\ Carried'
    BY <1>2, <2>1, OnwardType DEF Merge
  <2> QED BY <1>2, <2>2, <2>3, <2>4, <2>5 DEF Merge, CartTypeOK, authVars, pageVars
<1>3. CASE RefuseEmpty(k)
  BY <1>3, RefusedType DEF RefuseEmpty, CartTypeOK, cartVars, authVars, pageVars
<1>4. CASE Decline(k)
  <2>1. ck' \in [Checkouts -> CheckoutRecords] /\ Carried'
    BY <1>4, VerdictType DEF Decline, Ordered
  <2> QED BY <1>4, <2>1 DEF Decline, CartTypeOK, cartVars, authVars, pageVars
<1>5. CASE Place(k)
  <2>1. ck' \in [Checkouts -> CheckoutRecords] /\ Carried'
    BY <1>5, VerdictType DEF Place, Ordered
  <2> QED BY <1>5, <2>1 DEF Place, Followed, CartTypeOK, cartVars, authVars, pageVars
<1>6. CASE ClearCart(k)
  <2>1. ck' \in [Checkouts -> CheckoutRecords] /\ Carried'
    BY <1>6, OnwardType DEF ClearCart
  <2>2. owned' \in [Users -> Carts] /\ before' \in [Users -> SUBSET Carts]
    <3>1. ck[k].who \in Users
      BY <1>6 DEF ClearCart, Carried
    <3>2. OwnVersions(ck[k].who) \subseteq Carts
      BY <3>1, OwnType
    <3> QED BY <1>6, <3>2, CartFacts DEF ClearCart, Cleared
  <2> QED BY <1>6, <2>1, <2>2 DEF ClearCart, CartTypeOK, cartVars, authVars, pageVars
<1>7. CASE ClearFails(k)
  <2>1. ck' \in [Checkouts -> CheckoutRecords] /\ Carried'
    BY <1>7, OnwardType DEF ClearFails
  <2> QED BY <1>7, <2>1 DEF ClearFails, CartTypeOK, cartVars, authVars, pageVars
<1>8. CASE ChainFails(k)
  <2>1. ck' \in [Checkouts -> CheckoutRecords] /\ Carried'
    BY <1>8, RefusedType DEF ChainFails
  <2> QED BY <1>8, <2>1 DEF ChainFails, CartTypeOK, cartVars, authVars, pageVars
<1>9. CASE MergeFalters(k)
  <2>1. ck[k].who \in Users
    BY <1>9 DEF MergeFalters, CheckoutRecords, Visitors
  <2> DEFINE u == ck[k].who
             filled == UNION {Filled(c, d) : c \in OwnVersions(u), d \in Versions}
  <2>5. filled \subseteq Carts /\ OwnVersions(u) \subseteq Carts
    <3>1. OwnVersions(u) \subseteq Carts /\ Versions \subseteq Carts
      BY <2>1, OwnType, VersionsType
    <3>2. \A c \in OwnVersions(u), d \in Versions : Filled(c, d) \subseteq Carts
      BY <3>1, FilledType
    <3> QED BY <3>1, <3>2
  <2>6. \/ UNCHANGED <<owned, before>>
        \/ /\ \E c \in filled : owned' = [owned EXCEPT ![u] = c]
           /\ before' = [before EXCEPT ![u] = OwnVersions(u) \cup filled]
    BY <1>9 DEF MergeFalters
  <2>7. owned' \in [Users -> Carts] /\ before' \in [Users -> SUBSET Carts]
    <3> HIDE DEF filled
    <3> QED BY <2>1, <2>5, <2>6
  <2>8. Save(stored) \/ Save(Empty)
    BY <1>9 DEF MergeFalters
  <2>2. stored' \in Carts /\ past' \subseteq Carts
    BY <2>8, VersionsType, CartFacts DEF CartTypeOK
  <2>3. blind' \in BOOLEAN
    BY <1>9 DEF MergeFalters, CartTypeOK
  <2>4. ck' \in [Checkouts -> CheckoutRecords] /\ Carried'
    BY <1>9, <2>1, FalterType DEF MergeFalters
  <2> QED BY <1>9, <2>2, <2>3, <2>4, <2>7 DEF MergeFalters, CartTypeOK, authVars, pageVars
<1> QED BY <1>1, <1>2, <1>3, <1>4, <1>5, <1>6, <1>7, <1>8, <1>9 DEF ServerActs

-----------------------------------------------------------------------------
(* How the records of the checkouts change where no checkout advances.     *)

\* The part of a record that only the server writes.
Course(r) == <<r.at, r.who, r.verdict, r.lines>>

\* Whoever followed a checkout from a page that is left, follows it no more.
LEMMA ForgottenCourse ==
  ASSUME NEW r \in CheckoutRecords, NEW by \in {"tab", "nobody"}
  PROVE  /\ Course(Forgotten(r, by)) = Course(r)
         /\ Forgotten(r, by).offer = r.offer
         /\ Forgotten(r, by).by # "page"
         /\ Forgotten(r, by).by # "nobody" => r.by # "nobody"
         /\ by = "nobody" => Forgotten(r, by).by = "nobody"
  BY DEF Course, Forgotten, CheckoutRecords

LEMMA Leaving ==
  ASSUME TypeOK, NEW p, NEW n, LeaveTo(p, n)
  PROVE  \A j \in Checkouts :
           /\ Course(ck'[j]) = Course(ck[j]) /\ ck'[j].offer = ck[j].offer
           /\ ck'[j].by # "page" /\ (ck'[j].by # "nobody" => ck[j].by # "nobody")
  BY ForgottenCourse DEF LeaveTo, TypeOK

LEMMA Disturbing ==
  ASSUME TypeOK
  PROVE  /\ Disturbed \in [Checkouts -> CheckoutRecords]
         /\ \A j \in Checkouts :
              /\ Course(Disturbed[j]) = Course(ck[j]) /\ Disturbed[j].offer = NoData
              /\ Disturbed[j].by = ck[j].by
  BY DEF Disturbed, TypeOK, Course, CheckoutRecords

\* What is submitted.
LEMMA Submitting ==
  ASSUME TypeOK, NEW k \in Checkouts, Submit(k)
  PROVE  /\ ck' \in [Checkouts -> CheckoutRecords]
         /\ ck'[k].at = "sent" /\ ck'[k].by = "page" /\ ck'[k].who = cookie
         /\ ck'[k].verdict = "none" /\ ck'[k].lines = NoData
         /\ ck'[k].offer = IF Calm THEN Shown ELSE NoData
         /\ \A j \in Checkouts \ {k} :
              Course(ck'[j]) = Course(ck[j]) /\ ck'[j].offer = NoData /\ ck'[j].by = ck[j].by
<1> DEFINE offer == IF Calm THEN Shown ELSE NoData
           r == [NoCheckout EXCEPT !.at = "sent", !.by = "page", !.who = cookie, !.offer = offer]
<1>1. offer \in Carts \cup {NoData} /\ cookie \in Visitors
  BY ShownType DEF TypeOK
<1> HIDE DEF offer
<1>2. /\ r \in CheckoutRecords
      /\ r.at = "sent" /\ r.by = "page" /\ r.who = cookie /\ r.verdict = "none"
      /\ r.lines = NoData /\ r.offer = offer
  BY <1>1 DEF NoCheckout, CheckoutRecords
<1>3. ck' = [Disturbed EXCEPT ![k] = r]
  BY DEF Submit, offer
<1> HIDE DEF r
<1> QED BY <1>2, <1>3, Disturbing DEF offer

\* What is left of a checkout that was heard of, or never will be.
LEMMA EndedRecord ==
  Ended \in CheckoutRecords /\ Ended.at = "over" /\ Ended.by = "nobody" /\ Ended.offer = NoData
  BY DEF Ended, NoCheckout, CheckoutRecords, Visitors

LEMMA Ending ==
  ASSUME TypeOK, NEW k \in Checkouts, ck' = [ck EXCEPT ![k] = Ended]
  PROVE  /\ ck' \in [Checkouts -> CheckoutRecords]
         /\ ck'[k] = Ended /\ \A j \in Checkouts \ {k} : ck'[j] = ck[j]
  BY EndedRecord DEF TypeOK

LEMMA HearingPlaced ==
  ASSUME TypeOK, NEW k \in Checkouts, HearPlaced(k)
  PROVE  /\ ck' \in [Checkouts -> CheckoutRecords]
         /\ ck'[k] = Ended
         /\ \A j \in Checkouts \ {k} :
              /\ Course(ck'[j]) = Course(ck[j]) /\ ck'[j].offer = ck[j].offer
              /\ ck'[j].by # "page" /\ (ck'[j].by # "nobody" => ck[j].by # "nobody")
  BY EndedRecord, ForgottenType, ForgottenCourse DEF HearPlaced, TypeOK

LEMMA Reloading ==
  ASSUME TypeOK, Reload
  PROVE  /\ ck' \in [Checkouts -> CheckoutRecords]
         /\ \A j \in Checkouts :
              /\ Course(ck'[j]) = Course(ck[j]) /\ ck'[j].offer = ck[j].offer
              /\ ck'[j].by = "nobody"
  BY ForgottenType, ForgottenCourse DEF Reload, TypeOK

-----------------------------------------------------------------------------
(* Type correctness, of every step.                                        *)

LEMMA SameCourseCarried ==
  ASSUME Carried, \A j \in Checkouts : Course(ck'[j]) = Course(ck[j])
  PROVE  Carried'
  BY DEF Carried, Course

LEMMA ReloadType == ASSUME TypeOK, Reload PROVE TypeOK'
<1> USE DEF TypeOK
<1>1. stored' \in Carts /\ past' \subseteq Carts /\ blind' \in BOOLEAN /\ cart' \in Queries(Carts)
  BY FreshStart DEF Reload, ReloadCart, CartTypeOK
<1>2. act' \in [Acts -> ActRecords]
  BY CartFacts DEF Reload, ReloadCart, CartTypeOK
<1>3. me' \in Queries(Visitors)
  <2>1. cookie \in Visitors
    OBVIOUS
  <2> QED BY <2>1, FreshStart, QueryTypes DEF Reload
<1>4. NoSign \in SignRecords /\ [NoSign EXCEPT !.at = "over"] \in SignRecords
  BY DEF NoSign, SignRecords, Pages, Visitors
<1>5. sign' \in [Signs -> SignRecords]
  BY <1>4 DEF Reload
<1>6. refreshes' \in 0..MaxRefreshes
  BY ShopTabConstants DEF Reload
<1>7. page' \in Pages /\ next' \in Pages /\ cookie' \in Visitors /\ overtaken' \in BOOLEAN
      /\ owned' \in [Users -> Carts] /\ before' \in [Users -> SUBSET Carts]
      /\ bought' \in BOOLEAN /\ kept' \in Visitors
  BY DEF Reload, pageVars
<1> QED BY <1>1, <1>2, <1>3, <1>5, <1>6, <1>7, Reloading DEF CartTypeOK

LEMMA ReconnectType == ASSUME TypeOK, Reconnect PROVE TypeOK'
<1> USE DEF TypeOK
<1>1. cart' \in Queries(Carts)
  BY QueryTypes DEF Reconnect, CartTypeOK
<1>2. me' \in Queries(Visitors) /\ overtaken' \in BOOLEAN
  <2>1. Start(me) \in Queries(Visitors) /\ cookie \in Visitors
    BY QueryTypes
  <2>2. Serve(Start(me), cookie) \in Queries(Visitors)
    BY <2>1, QueryTypes
  <2> QED BY <2>2 DEF Reconnect
<1>3. refreshes' \in 0..MaxRefreshes
  BY ShopTabConstants DEF Reconnect
<1>4. CartTypeOK'
  BY <1>1 DEF Reconnect, CartTypeOK
<1> QED BY <1>2, <1>3, <1>4 DEF Reconnect, pageVars, buyVars

LEMMA AnswerType ==
  ASSUME TypeOK, NEW k \in Checkouts, HearPlaced(k) \/ HearNo(k) \/ NotHeard(k)
  PROVE  TypeOK'
<1> USE DEF TypeOK
<1>1. CASE HearPlaced(k)
  <2>1. cart' \in Queries(Carts)
    BY <1>1, QueryTypes DEF HearPlaced, CartTypeOK
  <2> QED BY <1>1, <2>1, HearingPlaced DEF HearPlaced, CartTypeOK, authVars, Pages
<1>2. CASE HearNo(k)
  BY <1>2, Ending DEF HearNo, CartTypeOK, cartVars, authVars, pageVars
<1>3. CASE NotHeard(k)
  BY <1>3, Ending DEF NotHeard, CartTypeOK, authVars, pageVars
<1> QED BY <1>1, <1>2, <1>3

LEMMA LeadCourse ==
  ASSUME TypeOK, NEW p \in Pages, Lead(p)
  PROVE  \A j \in Checkouts :
           /\ Course(ck'[j]) = Course(ck[j]) /\ ck'[j].offer = ck[j].offer
           /\ (ck'[j].by # "nobody" => ck[j].by # "nobody")
  BY Leaving DEF Lead

\* The records of the checkouts keep their course in every step of the shopper and of the cart.
LEMMA CourseKept ==
  ASSUME TypeOK,
         \/ Redirect \/ \E p \in Pages : Go(p)
         \/ Press \/ CartNews \/ CartRead
         \/ \E s \in Signs : LogOut(s) \/ SignHeaders(s) \/ SignDone(s) \/ SignFails(s) \/ \E u \in Users : LogIn(s, u) \/ SignUp(s, u)
         \/ MeArrives \/ MeFails \/ Reload \/ Reconnect \/ UNCHANGED vars
  PROVE  \A j \in Checkouts :
           /\ Course(ck'[j]) = Course(ck[j]) /\ ck'[j].offer \in {ck[j].offer, NoData}
           /\ (ck'[j].by # "nobody" => ck[j].by # "nobody")
<1>1. CASE Redirect \/ \E p \in Pages : Go(p)
  BY <1>1, Leaving DEF Redirect, Go
<1>2. CASE Press
  BY <1>2, Disturbing DEF Press
<1>3. ASSUME NEW s \in Signs, SignDone(s)
      PROVE  \A j \in Checkouts :
               /\ Course(ck'[j]) = Course(ck[j]) /\ ck'[j].offer = ck[j].offer
               /\ (ck'[j].by # "nobody" => ck[j].by # "nobody")
  <2>1. (IF sign[s].who = Guest THEN page ELSE sign[s].to) \in Pages
    BY DEF TypeOK, SignRecords
  <2> QED BY <2>1, <1>3, LeadCourse DEF SignDone
<1>4. CASE Reload
  BY <1>4, Reloading
<1>5. CASE \/ CartNews \/ CartRead
           \/ \E s \in Signs : LogOut(s) \/ SignHeaders(s) \/ SignFails(s) \/ \E u \in Users : LogIn(s, u) \/ SignUp(s, u)
           \/ MeArrives \/ MeFails \/ Reconnect \/ UNCHANGED vars
  <2>1. UNCHANGED ck
    BY <1>5 DEF CartNews, CartRead, LogOut, LogIn, SignUp, SendSign, SignHeaders, SignFails, MeArrives, MeFails, Reconnect,
                vars, buyVars
  <2> QED BY <2>1
<1> QED BY <1>1, <1>2, <1>3, <1>4, <1>5

LEMMA StepType == TypeInv /\ [Next]_vars => TypeInv'
<1> SUFFICES ASSUME TypeInv, [Next]_vars PROVE TypeInv'
  OBVIOUS
<1>0. TypeOK /\ Carried
  BY DEF TypeInv
<1>1. ASSUME NEW k \in Checkouts, ServerActs(k) PROVE TypeInv'
  BY <1>1, ServerType
<1>2. ASSUME NEW k \in Checkouts, Submit(k) PROVE TypeInv'
  <2>1. Carried'
    BY <1>0, <1>2, Submitting DEF Carried, Course
  <2> QED BY <1>0, <1>2, <2>1, SubmitType DEF TypeInv
<1>3. ASSUME NEW k \in Checkouts, HearPlaced(k) PROVE TypeInv'
  <2>1. Carried'
    BY <1>0, <1>3, HearingPlaced, EndedRecord DEF Carried, Course
  <2> QED BY <1>0, <1>3, <2>1, AnswerType DEF TypeInv
<1>4. ASSUME NEW k \in Checkouts, HearNo(k) \/ NotHeard(k) PROVE TypeInv'
  <2>1. Carried'
    BY <1>0, <1>4, Ending, EndedRecord DEF Carried, HearNo, NotHeard
  <2> QED BY <1>0, <1>4, <2>1, AnswerType DEF TypeInv
<1>5. CASE \/ Redirect \/ \E p \in Pages : Go(p)
           \/ Press \/ CartNews \/ CartRead
           \/ \E s \in Signs : LogOut(s) \/ SignHeaders(s) \/ SignDone(s) \/ SignFails(s) \/ \E u \in Users : LogIn(s, u) \/ SignUp(s, u)
           \/ MeArrives \/ MeFails \/ Reload \/ Reconnect \/ UNCHANGED vars
  <2>1. Carried'
    BY <1>0, <1>5, CourseKept, SameCourseCarried
  <2>2. TypeOK'
    <3>1. CASE UNCHANGED vars
      BY <1>0, <3>1 DEF TypeOK, CartTypeOK, vars, cartVars, authVars, pageVars, buyVars
    <3> QED BY <1>0, <1>5, <3>1, MoveType, PressType, CartNewsType, SignType, ReloadType, ReconnectType
  <2> QED BY <2>1, <2>2 DEF TypeInv
<1> QED BY <1>1, <1>2, <1>3, <1>4, <1>5 DEF Next, ShopperActs, Answers

\* The tab's variables keep their types, with a cart and a session in every answer.
THEOREM TabTypes == Spec => []TypeOK
<1>1. Init => TypeInv
  BY InitType DEF Init, TypeInv, Carried, NoCheckout
<1>2. TypeInv => TypeOK
  BY DEF TypeInv
<1> QED BY <1>1, <1>2, StepType, PTL DEF Spec

-----------------------------------------------------------------------------
(* Who is shown as signed in.                                              *)

\* While /me is read, its answer will be the cookie's user; read, it was, but for
\* an answer of which the headers arrived, and those set the cookie.
Half == \E s \in Signs : Answering(s)
SessionInv ==
    /\ me.fetch \in {"idle", "served"}
    /\ ~overtaken =>
          /\ \A s \in Signs : Answering(s) => sign[s].who = cookie
          /\ Fetching(me) => me.body = cookie
          /\ ~Fetching(me) /\ ~Half /\ me.status = "success" /\ User # Guest => User = cookie

LEMMA SessionStep == TypeInv /\ SessionInv /\ [Next]_vars => SessionInv'
<1> SUFFICES ASSUME TypeInv, SessionInv, [Next]_vars PROVE SessionInv'
  OBVIOUS
<1>0. /\ me \in Queries(Visitors) /\ cookie \in Visitors /\ sign \in [Signs -> SignRecords]
      /\ \A s \in Signs : sign[s].who \in Visitors
      /\ \A q \in Queries(Visitors) : q.tries \in Nat
  BY DEF TypeInv, TypeOK, SignRecords, Queries
<1>1. ASSUME NEW s \in Signs, SignDone(s) PROVE SessionInv'
  <2>1. /\ me' = SetData(me, sign[s].who) /\ Answering(s) /\ UNCHANGED <<cookie, overtaken>>
        /\ sign' = [sign EXCEPT ![s] = [NoSign EXCEPT !.at = "over"]]
    BY <1>1 DEF SignDone, SetUser
  <2>2. me'.data = sign[s].who /\ me'.fetch = me.fetch /\ me'.body = me.body
    BY <1>0, <2>1, QueryFacts
  <2>3. ~Answering(s)' /\ \A t \in Signs \ {s} : sign'[t] = sign[t]
    BY <1>0, <2>1 DEF Answering, NoSign
  <2>4. \A t \in Signs : Answering(t)' => Answering(t) /\ sign'[t] = sign[t]
    BY <2>3 DEF Answering
  <2>5. ~overtaken => sign[s].who = cookie
    BY <2>1 DEF SessionInv
  <2>6. User' # Guest => User' = sign[s].who
    BY <2>2 DEF User
  <2> QED BY <2>1, <2>2, <2>4, <2>5, <2>6 DEF SessionInv, Fetching
<1>8. ASSUME NEW s \in Signs, SignHeaders(s) PROVE SessionInv'
  <2>1. /\ cookie' = sign[s].who /\ UNCHANGED me
        /\ overtaken' = (overtaken \/ Fetching(me) \/ \E t \in Signs : Answering(t))
        /\ sign' = [sign EXCEPT ![s] = [sign[s] EXCEPT !.at = "half"]]
    BY <1>8 DEF SignHeaders
  <2>2. Answering(s)' /\ sign'[s].who = cookie' /\ \A t \in Signs \ {s} : sign'[t] = sign[t]
    BY <1>0, <2>1 DEF Answering, SignRecords
  <2>3. CASE overtaken'
    BY <2>1, <2>3 DEF SessionInv
  <2>4. CASE ~overtaken'
    <3>1. ~Fetching(me) /\ \A t \in Signs : ~Answering(t)
      BY <2>1, <2>4
    <3>2. \A t \in Signs : Answering(t)' => t = s
      BY <2>2, <3>1 DEF Answering
    <3> QED BY <2>1, <2>2, <3>1, <3>2 DEF SessionInv, Half, Fetching
  <2> QED BY <2>3, <2>4
<1>9. ASSUME NEW s \in Signs, SignFails(s) PROVE SessionInv'
  <2>1. /\ UNCHANGED <<me, cookie>> /\ overtaken' = (overtaken \/ Answering(s))
        /\ sign' = [sign EXCEPT ![s] = [NoSign EXCEPT !.at = "over"]]
    BY <1>9 DEF SignFails
  <2>2. ~Answering(s)' /\ \A t \in Signs \ {s} : sign'[t] = sign[t]
    BY <1>0, <2>1 DEF Answering, NoSign
  <2>3. CASE overtaken'
    BY <2>1, <2>3 DEF SessionInv
  <2>4. CASE ~overtaken'
    <3>1. ~overtaken /\ ~Answering(s)
      BY <2>1, <2>4
    <3>2. \A t \in Signs : Answering(t)' = Answering(t)
      BY <2>2, <3>1 DEF Answering
    <3>3. \A t \in Signs : Answering(t)' => sign'[t] = sign[t]
      BY <2>2
    <3>4. Half' = Half /\ User' = User
      BY <2>1, <3>2 DEF Half, User
    <3> QED BY <2>1, <3>1, <3>2, <3>3, <3>4 DEF SessionInv, Fetching
  <2> QED BY <2>3, <2>4
<1>2. CASE MeArrives
  <2>1. PICK u \in {me.body, Guest} : me' = Arrive(me, u)
    BY <1>2 DEF MeArrives
  <2>2. me'.data = u /\ me'.fetch = "idle"
    BY <1>0, <2>1 DEF Arrive, Queries
  <2>3. UNCHANGED <<cookie, sign, overtaken>> /\ Fetching(me)
    BY <1>2 DEF MeArrives
  <2>4. ~Fetching(me)' /\ me'.fetch = "idle" /\ User' \in {me.body, Guest}
    BY <2>1, <2>2 DEF Fetching, User
  <2> QED BY <2>3, <2>4 DEF SessionInv, Answering
<1>3. CASE MeFails
  <2>1. ~(me.tries < 0)
    BY <1>0
  <2>2. me' = [me EXCEPT !.fetch = "idle", !.body = NoData, !.tries = 0, !.status = "error"]
    BY <1>3, <2>1 DEF MeFails, Fail
  <2>3. me'.fetch = "idle" /\ me'.status = "error"
    BY <1>0, <2>2 DEF Queries
  <2> QED BY <1>3, <2>3 DEF MeFails, SessionInv, Fetching, Answering
<1>4. CASE Reload
  <2>1. me'.fetch = "served" /\ me'.body = cookie
    BY <1>0, <1>4, FreshStart, QueryFacts DEF Reload
  <2>2. \A s \in Signs : ~Answering(s)'
    BY <1>4 DEF Reload, Answering, NoSign
  <2> QED BY <2>1, <2>2, <1>4 DEF Reload, SessionInv, Fetching
<1>5. CASE Reconnect
  <2>1. CASE UNCHANGED <<me, overtaken>>
    BY <1>5, <2>1 DEF Reconnect, SessionInv, User, Half, Answering, Fetching
  <2>2. CASE /\ me' = Serve(Start(me), cookie)
             /\ overtaken' = (\E s \in Signs : Answering(s) /\ sign[s].who # cookie)
    <3>1. me'.fetch = "served" /\ me'.body = cookie
      BY <1>0, <2>2, QueryTypes, QueryFacts
    <3>2. UNCHANGED <<cookie, sign>>
      BY <1>5 DEF Reconnect
    <3> QED BY <2>2, <3>1, <3>2 DEF SessionInv, Fetching, Answering
  <2> QED BY <1>5, <2>1, <2>2 DEF Reconnect
<1>6. CASE UNCHANGED <<me, cookie, overtaken, sign>>
  BY <1>6 DEF SessionInv, User, Half, Answering, Fetching
<1>10. ASSUME NEW s \in Signs, NEW f, NEW u, SendSign(s, f, u) PROVE SessionInv'
  <2>1. /\ UNCHANGED <<me, cookie, overtaken>> /\ sign[s].at = "idle"
        /\ sign' = [sign EXCEPT ![s] = [at |-> "sent", by |-> f, who |-> u, to |-> next]]
    BY <1>10 DEF SendSign
  <2>2. /\ ~Answering(s) /\ ~Answering(s)' /\ \A t \in Signs \ {s} : sign'[t] = sign[t]
    BY <1>0, <2>1 DEF Answering
  <2>3. \A t \in Signs : Answering(t)' = Answering(t) /\ (Answering(t) => sign'[t] = sign[t])
    BY <2>2 DEF Answering
  <2>4. Half' = Half /\ User' = User
    BY <2>1, <2>3 DEF Half, User
  <2> QED BY <2>1, <2>3, <2>4 DEF SessionInv, Fetching
<1>7. CASE \/ Redirect \/ \E p \in Pages : Go(p)
           \/ Press \/ CartNews \/ CartRead
           \/ \E k \in Checkouts : Submit(k) \/ ServerActs(k) \/ HearPlaced(k) \/ HearNo(k) \/ NotHeard(k)
           \/ UNCHANGED vars
  <2>1. UNCHANGED <<me, cookie, overtaken, sign>>
    <3>1. ASSUME NEW k \in Checkouts, ServerActs(k) PROVE UNCHANGED authVars
      BY <3>1 DEF ServerActs, Unsigned, Merge, MergeFalters, RefuseEmpty, Decline, Place, ClearCart, ClearFails,
                  ChainFails
    <3>2. ASSUME NEW k \in Checkouts, Submit(k) \/ HearPlaced(k) \/ HearNo(k) \/ NotHeard(k) PROVE UNCHANGED authVars
      BY <3>2 DEF Submit, HearPlaced, HearNo, NotHeard
    <3>3. Press \/ CartNews \/ CartRead \/ Redirect \/ (\E p \in Pages : Go(p)) => UNCHANGED authVars
      BY DEF Press, CartNews, CartRead, Redirect, Go
    <3> QED BY <1>7, <3>1, <3>2, <3>3 DEF vars, authVars
  <2> QED BY <2>1, <1>6
<1>11. ASSUME NEW s \in Signs, NEW u \in Users, LogOut(s) \/ LogIn(s, u) \/ SignUp(s, u) PROVE SessionInv'
  BY <1>10, <1>11 DEF LogOut, LogIn, SignUp
<1>12. ASSUME NEW s \in Signs, LogOut(s) PROVE SessionInv'
  BY <1>10, <1>12 DEF LogOut
<1> QED BY <1>1, <1>2, <1>3, <1>4, <1>5, <1>7, <1>8, <1>9, <1>11, <1>12 DEF Next, ShopperActs, Answers

\* A tab that shows somebody as signed in holds that user's cookie once no sign-in
\* or sign-out is being answered, unless one was answered while the sign-in state
\* was being read or another one was answered, or by its headers alone
\* (AuthContext.tsx:54-66).
THEOREM ShownUserIsTrue == Spec => []UserShownTrue
<1>1. Init => TypeInv /\ SessionInv
  <2> SUFFICES ASSUME Init PROVE TypeInv /\ SessionInv
    OBVIOUS
  <2>1. me = Serve(Start(Fresh), cookie) /\ cookie \in Visitors
    BY DEF Init
  <2>2. Start(Fresh) \in Queries(Visitors)
    BY FreshStart
  <2>3. me.fetch = "served" /\ me.body = cookie
    BY <2>1, <2>2, QueryFacts
  <2>4. \A s \in Signs : ~Answering(s)
    BY DEF Init, Answering, NoSign
  <2> QED BY <2>3, <2>4, InitType DEF Init, TypeInv, Carried, NoCheckout, SessionInv, Fetching
<1>2. SessionInv => UserShownTrue
  BY DEF SessionInv, UserShownTrue, Half
<1> QED BY <1>1, <1>2, StepType, SessionStep, PTL DEF Spec

-----------------------------------------------------------------------------
(* One page has one order placed.                                          *)

\* At most one checkout is followed by its page, and an order that was placed is
\* one of such a checkout, which is past the payment.
BuyInv ==
    /\ \A j, k \in Checkouts : Followed(j) /\ Followed(k) => j = k
    /\ bought => \E k \in Checkouts : Followed(k) /\ ck[k].at \in {"clearing", "answered"}

\* Once no page follows a checkout, no page has an order placed.
LEMMA NobodyFollows ==
  ASSUME BuyInv, \A k \in Checkouts : ck'[k].by # "page", bought' = FALSE
  PROVE  BuyInv'
  BY DEF BuyInv, Followed

LEMMA LeadBuys ==
  ASSUME TypeOK, BuyInv, NEW p \in Pages, Lead(p)
  PROVE  BuyInv'
<1>1. CASE p = page
  BY <1>1 DEF Lead, BuyInv, Followed
<1>2. CASE p # page
  <2>1. LeaveTo(p, "shop")
    BY <1>2 DEF Lead
  <2> QED BY <2>1, Leaving, NobodyFollows DEF LeaveTo
<1> QED BY <1>1, <1>2

LEMMA ServerBuys ==
  ASSUME TypeInv, BuyInv, NEW k \in Checkouts, ServerActs(k)
  PROVE  BuyInv'
<1>1. /\ ck \in [Checkouts -> CheckoutRecords]
      /\ \A j \in Checkouts : ck'[j].by = ck[j].by
      /\ \A j \in Checkouts \ {k} : ck'[j] = ck[j]
  <2>1. ck \in [Checkouts -> CheckoutRecords]
    BY DEF TypeInv, TypeOK
  <2>2. CASE Decline(k) \/ Place(k)
    <3>1. ck'[k].by = ck[k].by /\ \A j \in Checkouts \ {k} : ck'[j] = ck[j]
      BY <2>2, VerdictType DEF Decline, Place, Ordered
    <3> QED BY <2>1, <3>1
  <2>3. CASE ~(Decline(k) \/ Place(k))
    BY <2>1, <2>3 DEF CheckoutRecords, ServerActs, Unsigned, Merge, MergeFalters, RefuseEmpty,
       ClearCart, ClearFails, ChainFails, Refused
  <2> QED BY <2>1, <2>2, <2>3
<1>2. CASE Unsigned(k) \/ Merge(k) \/ MergeFalters(k) \/ RefuseEmpty(k) \/ Decline(k)
  <2>1. ck[k].at \notin {"clearing", "answered"}
    BY <1>2, OrderedAt DEF Unsigned, Merge, MergeFalters, RefuseEmpty
  <2>2. UNCHANGED bought
    BY <1>2 DEF Unsigned, Merge, MergeFalters, RefuseEmpty, Decline
  <2> QED BY <1>1, <2>1, <2>2 DEF BuyInv, Followed
<1>3. CASE Place(k)
  <2>1. ck[k].at = "merged" /\ ck'[k].at = "clearing" /\ bought' = (bought \/ Followed(k))
    BY <1>3, VerdictType DEF Place, Ordered
  <2> QED BY <1>1, <2>1 DEF BuyInv, Followed
<1>4. CASE ClearCart(k) \/ ClearFails(k) \/ ChainFails(k)
  <2>1. ck'[k].at = "answered" /\ UNCHANGED bought
    BY <1>1, <1>4 DEF ClearCart, ClearFails, ChainFails, Refused, CheckoutRecords
  <2> QED BY <1>1, <2>1 DEF BuyInv, Followed
<1> QED BY <1>2, <1>3, <1>4 DEF ServerActs

LEMMA BuyStep == TypeInv /\ BuyInv /\ [Next]_vars => BuyInv'
<1> SUFFICES ASSUME TypeInv, BuyInv, [Next]_vars PROVE BuyInv'
  OBVIOUS
<1>0. TypeOK
  BY DEF TypeInv
<1>1. ASSUME NEW k \in Checkouts, Submit(k) PROVE BuyInv'
  <2>1. ~Placing /\ UNCHANGED bought
    BY <1>1 DEF Submit, CanSubmit
  <2>2. \A j \in Checkouts : ~Followed(j)
    BY <2>1 DEF Placing
  <2>3. \A j \in Checkouts \ {k} : ck'[j].by = ck[j].by
    BY <1>0, <1>1, Submitting
  <2> QED BY <2>1, <2>2, <2>3 DEF BuyInv, Followed
<1>2. ASSUME NEW k \in Checkouts, HearPlaced(k) PROVE BuyInv'
  <2>1. \A j \in Checkouts : ck'[j].by # "page"
    BY <1>0, <1>2, HearingPlaced, EndedRecord
  <2> QED BY <1>2, <2>1, NobodyFollows DEF HearPlaced
<1>3. ASSUME NEW k \in Checkouts, HearNo(k) \/ NotHeard(k) PROVE BuyInv'
  <2>1. ck' = [ck EXCEPT ![k] = Ended] /\ bought' = (bought /\ ~Followed(k))
    BY <1>3 DEF HearNo, NotHeard
  <2>2. ck'[k] = Ended /\ \A j \in Checkouts \ {k} : ck'[j] = ck[j]
    BY <1>0, <2>1, Ending
  <2> QED BY <2>1, <2>2, EndedRecord DEF BuyInv, Followed
<1>4. CASE Redirect \/ \E p \in Pages : Go(p)
  <2>1. PICK p, n : LeaveTo(p, n)
    BY <1>4 DEF Redirect, Go
  <2> QED BY <1>0, <2>1, Leaving, NobodyFollows DEF LeaveTo
<1>5. ASSUME NEW s \in Signs, SignDone(s) PROVE BuyInv'
  <2>1. (IF sign[s].who = Guest THEN page ELSE sign[s].to) \in Pages
    BY <1>0 DEF TypeOK, SignRecords
  <2> QED BY <1>0, <1>5, <2>1, LeadBuys DEF SignDone
<1>6. CASE Press
  <2>1. ck' = Disturbed /\ UNCHANGED bought
    BY <1>6 DEF Press
  <2>2. \A j \in Checkouts : Course(ck'[j]) = Course(ck[j]) /\ ck'[j].by = ck[j].by
    BY <1>0, <2>1, Disturbing
  <2> QED BY <2>1, <2>2 DEF BuyInv, Followed, Course
<1>7. CASE Reload
  <2>1. \A k \in Checkouts : ck'[k].by # "page"
    BY <1>0, <1>7, Reloading
  <2> QED BY <1>7, <2>1, NobodyFollows DEF Reload
<1>8. CASE \/ CartNews \/ CartRead
           \/ \E s \in Signs : LogOut(s) \/ SignHeaders(s) \/ SignFails(s) \/ \E u \in Users : LogIn(s, u) \/ SignUp(s, u)
           \/ MeArrives \/ MeFails \/ Reconnect \/ UNCHANGED vars
  <2>1. UNCHANGED <<ck, bought>>
    BY <1>8 DEF CartNews, CartRead, LogOut, LogIn, SignUp, SendSign, SignHeaders, SignFails, MeArrives, MeFails, Reconnect,
                vars, buyVars
  <2> QED BY <2>1 DEF BuyInv, Followed
<1> QED BY <1>1, <1>2, <1>3, <1>4, <1>5, <1>6, <1>7, <1>8, ServerBuys DEF Next, ShopperActs, Answers

\* One visit of the checkout page has at most one order placed, until the page is
\* told that its checkout failed or hears nothing of it (Checkout.tsx:284).
THEOREM NotBoughtTwice == Spec => BoughtOnce
<1>1. Init => TypeInv /\ BuyInv
  BY InitType DEF Init, TypeInv, Carried, BuyInv, Followed, NoCheckout
<1>2. BuyInv => \A k \in Checkouts : Followed(k) /\ Place(k) => ~bought
  BY DEF BuyInv, Place, Ordered
<1> QED BY <1>1, <1>2, StepType, BuyStep, PTL DEF Spec, BoughtOnce

-----------------------------------------------------------------------------
(* What the screen shows, and what is ordered: why the screen may differ   *)
(* from the stored cart, and from what.                                    *)

\* What the screen should show: the cart of the visit, or the lines that a
\* checkout moved from it into the user's own.
Ref == IF kept = Guest THEN stored ELSE owned[kept]

\* Reasons for which the screen may differ for a while: an answer on its way.
Told    == \E a \in Acts : act[a].at = "served"
Unheard == \E k \in Checkouts : ck[k].at = "answered" /\ ck[k].verdict = "placed"

Bodies ==
    /\ cart.fetch = "served" => cart.body \in Carts
    /\ \A a \in Acts : act[a].at = "served" => act[a].env \in Carts
    /\ \A k \in Checkouts : ck[k].by # "nobody" => cart.data # NoData

Sync ==
    \/ blind \/ Told \/ Unheard
    \/ cart.fetch = "asked"
    \/ cart.fetch = "served" /\ cart.body = Ref
    \/ cart.fetch = "idle" /\ (cart.status = "success" => cart.data = Ref)

\* While moved lines are shown, the cart of the visit is empty, or about to be read.
KeptInv ==
    kept # Guest =>
        /\ cart.fetch # "served"
        /\ \/ stored = Empty \/ blind \/ Told
           \/ cart.fetch = "asked"
           \/ cart.fetch = "idle" /\ cart.status = "error"

\* What an undisturbed checkout shows is what it will find, then what it has found.
OfferInv ==
    \A k \in Checkouts : ck[k].offer # NoData =>
        /\ ck[k].at \in {"sent", "merged"} => \A j \in Checkouts \ {k} : ~Running(j)
        /\ ck[k].at = "sent" =>
              /\ ActsQuiet /\ ck[k].who \in Users
              /\ ck[k].offer = Plus(owned[ck[k].who], stored)
        /\ ck[k].at = "merged" => ck[k].offer = owned[ck[k].who]
        /\ ck[k].lines # NoData => ck[k].lines = ck[k].offer

ScreenInv == Bodies /\ Sync /\ KeptInv /\ OfferInv

LEMMA PlusEmpty == \A c \in Carts : Plus(c, Empty) = c /\ Plus(Empty, c) = c
<1> SUFFICES ASSUME NEW c \in Carts PROVE Plus(c, Empty) = c /\ Plus(Empty, c) = c
  OBVIOUS
<1>1. c = [i \in Items |-> c[i]] /\ \A i \in Items : c[i] + 0 = c[i] /\ 0 + c[i] = c[i]
  BY DEF Carts
<1>2. \A i \in Items : Empty[i] = 0
  BY DEF Empty
<1>3. Plus(c, Empty) = [i \in Items |-> c[i]] /\ Plus(Empty, c) = [i \in Items |-> c[i]]
  BY <1>1, <1>2 DEF Plus
<1> QED BY <1>1, <1>3

\* Steps that leave the carts alone, and no checkout further.
LEMMA ScreenFrame ==
  ASSUME ScreenInv, UNCHANGED <<stored, cart, act, blind, owned, kept>>,
         \A j \in Checkouts :
            /\ Course(ck'[j]) = Course(ck[j]) /\ ck'[j].offer \in {ck[j].offer, NoData}
            /\ (ck'[j].by # "nobody" => ck[j].by # "nobody")
  PROVE  ScreenInv'
<1>1. Bodies'
  BY DEF ScreenInv, Bodies
<1>2. Sync' /\ KeptInv'
  BY DEF ScreenInv, Sync, KeptInv, Told, Unheard, Ref, Course
<1>3. OfferInv'
  BY DEF ScreenInv, OfferInv, Running, ActsQuiet, Course
<1> QED BY <1>1, <1>2, <1>3 DEF ScreenInv

\* What ScreenInv needs of the constants.
LEMMA CartsKnown == NoData \notin Carts
  BY CartCacheConstants DEF Carts

-----------------------------------------------------------------------------
(* The mutations and the read of the cart.                                 *)

\* The record of one mutation is replaced.
LEMMA ActOnly ==
  ASSUME TypeOK, NEW a \in Acts, NEW r, act' = [act EXCEPT ![a] = r]
  PROVE  act'[a] = r /\ \A b \in Acts \ {a} : act'[b] = act[b]
  BY DEF TypeOK, CartTypeOK

LEMMA OverRecord == ASSUME NEW r PROVE Over(r).at = "over"
  BY DEF Over, NoAct

\* While an offer waits for its merge, no mutation is anything but idle or over.
LEMMA OfferWaits ==
  ASSUME ScreenInv, NEW a \in Acts, act[a].at \notin {"idle", "over"}
  PROVE  \A k \in Checkouts : ck[k].offer # NoData => ck[k].at # "sent"
  BY DEF ScreenInv, OfferInv, ActsQuiet

\* Such offers do not mind a change of the stored cart.
LEMMA OfferFrame ==
  ASSUME ScreenInv, UNCHANGED <<ck, owned>>,
         \A k \in Checkouts : ck[k].offer # NoData => ck[k].at # "sent"
  PROVE  OfferInv'
  BY DEF ScreenInv, OfferInv, Running

LEMMA ScreenPress == ASSUME TypeInv, ScreenInv, Press PROVE ScreenInv'
<1>0. TypeOK
  BY DEF TypeInv
<1>1. PICK a, r : /\ a \in Acts /\ act[a].at = "idle" /\ r.at = "sent"
                  /\ act' = [act EXCEPT ![a] = r] /\ UNCHANGED <<stored, cart, blind>>
  <2>1. PICK a, i, op, q : a \in Acts /\ Fire(a, op, i, q)
    BY DEF Press, PressAdd, PressStep, PressRemove
  <2>2. [NoAct EXCEPT !.at = "sent", !.op = op, !.item = i, !.qty = q].at = "sent"
    BY DEF NoAct
  <2> QED BY <2>1, <2>2 DEF Fire
<1>2. act'[a].at = "sent" /\ \A b \in Acts \ {a} : act'[b] = act[b]
  BY <1>0, <1>1, ActOnly
<1>3. UNCHANGED <<owned, kept>> /\ ck' = Disturbed
  BY DEF Press
<1>4. \A j \in Checkouts :
        /\ Course(ck'[j]) = Course(ck[j]) /\ ck'[j].offer = NoData /\ ck'[j].by = ck[j].by
  BY <1>0, <1>3, Disturbing
<1>5. Told' = Told
  BY <1>1, <1>2 DEF Told
<1>6. Unheard' = Unheard
  BY <1>4 DEF Unheard, Course
<1>7. Bodies'
  BY <1>1, <1>2, <1>4 DEF ScreenInv, Bodies
<1>8. Sync' /\ KeptInv'
  BY <1>1, <1>3, <1>5, <1>6 DEF ScreenInv, Sync, KeptInv, Ref
<1>9. OfferInv'
  BY <1>4 DEF OfferInv
<1> QED BY <1>7, <1>8, <1>9 DEF ScreenInv

LEMMA ScreenServe ==
  ASSUME TypeInv, ScreenInv, NEW a \in Acts, ServeAct(a) \/ ServeAdrift(a), UNCHANGED buyVars
  PROVE  ScreenInv'
<1>0. TypeOK /\ UNCHANGED <<ck, owned, kept, cart>>
  BY DEF TypeInv, buyVars, ServeAct, ServeAdrift
<1>1. act[a] \in ActRecords
  BY <1>0 DEF TypeOK, CartTypeOK
<1>2. act[a].at \notin {"idle", "over"}
  BY DEF ServeAct, ServeAdrift
<1>3. OfferInv'
  BY <1>0, <1>2, OfferWaits, OfferFrame
<1>4. /\ act'[a].at = "served" => act'[a].env \in Carts
      /\ act'[a].at = "served" \/ blind'
      /\ \A b \in Acts \ {a} : act'[b] = act[b]
  <2>1. CASE ServeAct(a)
    <3>1. PICK c \in Versions :
            /\ Call(c, act[a])
            /\ act' = [act EXCEPT ![a] = [act[a] EXCEPT !.at = "served", !.env = Applied(c, act[a])]]
      BY <2>1 DEF ServeAct
    <3> DEFINE env == Applied(c, act[a])
    <3>2. env \in Carts
      BY <1>0, <1>1, <3>1, CallType DEF TypeOK
    <3> HIDE DEF env
    <3>3. [act[a] EXCEPT !.at = "served", !.env = env].env = env
          /\ [act[a] EXCEPT !.at = "served", !.env = env].at = "served"
      BY <1>1 DEF ActRecords
    <3> QED BY <1>0, <3>1, <3>2, <3>3, ActOnly DEF env
  <2>2. CASE ServeAdrift(a)
    BY <1>0, <2>2, ActOnly, OverRecord DEF ServeAdrift
  <2> QED BY <2>1, <2>2
<1>5. Bodies'
  BY <1>0, <1>4 DEF ScreenInv, Bodies
<1>6. Told' \/ blind'
  BY <1>4 DEF Told
<1>7. Sync' /\ KeptInv'
  BY <1>0, <1>6 DEF ScreenInv, Sync, KeptInv
<1> QED BY <1>3, <1>5, <1>7 DEF ScreenInv

LEMMA ScreenHear ==
  ASSUME TypeInv, ScreenInv, NEW a \in Acts, ActDone(a) \/ ActFails(a) \/ DropAdrift(a), UNCHANGED buyVars
  PROVE  ScreenInv'
<1>0. TypeOK /\ UNCHANGED <<ck, owned, kept, stored>>
  BY DEF TypeInv, buyVars, ActDone, ActFails, DropAdrift
<1>1. act[a].at \notin {"idle", "over"} /\ act' = [act EXCEPT ![a] = Over(act[a])]
  BY DEF ActDone, ActFails, DropAdrift, Pending
<1>2. act'[a].at = "over" /\ \A b \in Acts \ {a} : act'[b] = act[b]
  <2>1. act'[a] = Over(act[a]) /\ \A b \in Acts \ {a} : act'[b] = act[b]
    BY <1>0, <1>1, ActOnly
  <2> QED BY <2>1, OverRecord
<1>3. OfferInv'
  BY <1>0, <1>1, OfferWaits, OfferFrame
<1>4. CASE ActDone(a)
  <2>1. act[a].env \in Carts /\ cart \in Queries(Carts)
    BY <1>0, <1>4 DEF ActDone, ScreenInv, Bodies, TypeOK, CartTypeOK
  <2>2. SetData(cart, act[a].env).data = act[a].env /\ SetData(cart, act[a].env) \in Queries(Carts)
    BY <2>1, QueryTypes, QueryFacts
  <2>3. cart' = Invalidate(SetData(cart, act[a].env))
    BY <1>4 DEF ActDone, Answer
  <2>4. cart'.data = act[a].env /\ cart'.fetch = "asked"
    BY <2>1, <2>2, <2>3, QueryFacts, CartsKnown
  <2>5. Bodies'
    BY <1>0, <1>2, <2>1, <2>4, CartsKnown DEF ScreenInv, Bodies
  <2>6. Sync' /\ KeptInv'
    BY <2>4 DEF Sync, KeptInv
  <2> QED BY <1>3, <2>5, <2>6 DEF ScreenInv
<1>5. CASE ActFails(a) \/ DropAdrift(a)
  <2>1. /\ UNCHANGED cart /\ (blind => blind')
        /\ act[a].at = "served" => blind'
    <3>1. CASE ActFails(a)
      BY <3>1 DEF ActFails
    <3>2. CASE DropAdrift(a)
      <4>1. act[a].at # "served" /\ UNCHANGED <<cart, blind>>
        BY <3>2 DEF DropAdrift
      <4> QED BY <4>1
    <3> QED BY <1>5, <3>1, <3>2
  <2>2. Told => Told' \/ blind'
    BY <1>2, <2>1 DEF Told
  <2>3. Bodies'
    BY <1>0, <1>2, <2>1 DEF ScreenInv, Bodies
  <2>4. Unheard' = Unheard /\ Ref' = Ref
    BY <1>0 DEF Unheard, Ref
  <2>5. Sync' /\ KeptInv'
    BY <1>0, <2>1, <2>2, <2>4 DEF ScreenInv, Sync, KeptInv
  <2> QED BY <1>3, <2>3, <2>5 DEF ScreenInv
<1> QED BY <1>4, <1>5

LEMMA ScreenRead == ASSUME TypeInv, ScreenInv, CartRead PROVE ScreenInv'
<1>0. cart \in Queries(Carts) /\ Versions \subseteq Carts
  BY VersionsType DEF TypeInv, TypeOK, CartTypeOK
<1>1. PICK c \in Versions : cart' = Serve(cart, c) /\ blind' = (c # stored)
  BY DEF CartRead, ServeCart
<1>6. kept' = Guest /\ UNCHANGED <<stored, act, ck, owned>>
  BY DEF CartRead, ServeCart
<1>2. cart'.data = cart.data /\ cart'.fetch = "served" /\ cart'.body = c
  BY <1>0, <1>1, QueryFacts
<1>3. Bodies'
  BY <1>0, <1>6, <1>2 DEF ScreenInv, Bodies
<1>4. Sync' /\ KeptInv'
  BY <1>1, <1>2, <1>6 DEF Sync, KeptInv, Ref
<1>5. OfferInv'
  BY <1>6 DEF ScreenInv, OfferInv, Running, ActsQuiet
<1> QED BY <1>3, <1>4, <1>5 DEF ScreenInv

LEMMA ScreenArrives ==
  ASSUME TypeInv, ScreenInv, CartArrives \/ CartFails, UNCHANGED buyVars
  PROVE  ScreenInv'
<1>0. cart \in Queries(Carts) /\ UNCHANGED <<stored, act, blind, ck, owned, kept>>
  BY DEF TypeInv, TypeOK, CartTypeOK, CartArrives, CartFails, buyVars
<1>1. OfferInv'
  BY <1>0 DEF ScreenInv, OfferInv, Running, ActsQuiet
<1>2. Told' = Told /\ Unheard' = Unheard /\ Ref' = Ref
  BY <1>0 DEF Told, Unheard, Ref
<1>3. CASE CartArrives
  <2>1. cart.fetch = "served" /\ cart' = Arrive(cart, cart.body) /\ cart.body \in Carts
    BY <1>3 DEF CartArrives, ScreenInv, Bodies
  <2>2. cart'.data = cart.body /\ cart'.fetch = "idle"
    BY <1>0, <2>1, QueryFacts
  <2>3. Bodies'
    BY <1>0, <2>1, <2>2, CartsKnown DEF ScreenInv, Bodies
  <2>4. Sync' /\ KeptInv'
    BY <1>0, <1>2, <2>1, <2>2 DEF ScreenInv, Sync, KeptInv
  <2> QED BY <1>1, <2>3, <2>4 DEF ScreenInv
<1>4. CASE CartFails
  <2>1. cart' = Fail(cart, CartRetries) /\ CartRetries \in Nat
    BY <1>4, CartCacheConstants DEF CartFails
  <2>2. /\ cart'.data = cart.data
        /\ cart'.fetch = "asked" \/ (cart'.fetch = "idle" /\ cart'.status = "error")
    BY <1>0, <2>1, QueryFacts, CartFacts
  <2>3. Bodies'
    BY <1>0, <2>2 DEF ScreenInv, Bodies
  <2>4. Sync' /\ KeptInv'
    BY <2>2 DEF Sync, KeptInv
  <2> QED BY <1>1, <2>3, <2>4 DEF ScreenInv
<1> QED BY <1>3, <1>4

-----------------------------------------------------------------------------
(* Reloading and reconnecting.                                             *)

LEMMA ScreenReload == ASSUME TypeInv, ScreenInv, Reload PROVE ScreenInv'
<1>0. TypeOK
  BY DEF TypeInv
<1>1. cart'.fetch = "asked" /\ UNCHANGED <<stored, blind, owned, kept>>
  BY FreshStart DEF Reload, ReloadCart
<1>2. \A j \in Checkouts :
        /\ Course(ck'[j]) = Course(ck[j]) /\ ck'[j].offer = ck[j].offer /\ ck'[j].by = "nobody"
  BY <1>0, Reloading
<1>3. \A a \in Acts : /\ act'[a].at # "served"
                      /\ act[a].at \in {"idle", "over"} => act'[a].at = act[a].at
  <2>1. SUFFICES ASSUME NEW a \in Acts
                 PROVE  /\ act'[a].at # "served"
                        /\ act[a].at \in {"idle", "over"} => act'[a].at = act[a].at
    OBVIOUS
  <2>2. act'[a] = Abandoned(act[a]) /\ act[a] \in ActRecords
    BY <1>0 DEF Reload, ReloadCart, TypeOK, CartTypeOK
  <2>3. CASE act[a].at = "served"
    BY <2>2, <2>3, OverRecord DEF Abandoned
  <2>4. CASE act[a].at # "served"
    BY <2>2, <2>4 DEF Abandoned, ActRecords
  <2> QED BY <2>3, <2>4
<1>4. Bodies'
  BY <1>1, <1>2, <1>3 DEF Bodies
<1>5. Sync' /\ KeptInv'
  BY <1>1 DEF Sync, KeptInv
<1>6. OfferInv'
  BY <1>1, <1>2, <1>3 DEF ScreenInv, OfferInv, Running, ActsQuiet, Course
<1> QED BY <1>4, <1>5, <1>6 DEF ScreenInv

LEMMA ScreenReconnect == ASSUME TypeInv, ScreenInv, Reconnect PROVE ScreenInv'
<1>0. cart \in Queries(Carts)
  BY DEF TypeInv, TypeOK, CartTypeOK
<1>1. UNCHANGED <<stored, act, blind, ck, owned, kept>> /\ cart' \in {cart, Ask(cart)}
  BY DEF Reconnect, buyVars
<1>2. cart'.data = cart.data /\ (cart' = cart \/ cart'.fetch = "asked")
  BY <1>0, <1>1, QueryFacts, CartFacts
<1>3. Bodies'
  BY <1>1, <1>2 DEF ScreenInv, Bodies
<1>4. Told' = Told /\ Unheard' = Unheard /\ Ref' = Ref
  BY <1>1 DEF Told, Unheard, Ref
<1>5. Sync' /\ KeptInv'
  BY <1>1, <1>2, <1>4 DEF ScreenInv, Sync, KeptInv
<1>6. OfferInv'
  BY <1>1 DEF ScreenInv, OfferInv, Running, ActsQuiet
<1> QED BY <1>3, <1>5, <1>6 DEF ScreenInv

-----------------------------------------------------------------------------
(* Submitting a checkout.                                                  *)

\* A calm tab shows exactly what a checkout would find.
LEMMA CalmOffer ==
  ASSUME TypeInv, ScreenInv, Calm, Shown # Empty, cookie \in Users
  PROVE  Shown = Plus(owned[cookie], stored)
<1>1. /\ stored \in Carts /\ owned[cookie] \in Carts /\ cookie # Guest
      /\ cart.data # NoData /\ Shown = cart.data
  BY ShopTabConstants DEF TypeInv, TypeOK, CartTypeOK, Shown, DataOr
<1>2. ~blind /\ ~Told /\ ~Unheard /\ cart.fetch = "idle" /\ cart.status = "success"
  BY DEF Calm, ActsQuiet, Told, Unheard, Running, Fetching
<1>3. cart.data = Ref
  BY <1>2 DEF ScreenInv, Sync
<1>4. CASE kept = Guest /\ owned[cookie] = Empty
  BY <1>1, <1>3, <1>4, PlusEmpty DEF Ref
<1>5. CASE kept = cookie
  <2>1. stored = Empty
    BY <1>1, <1>2, <1>5 DEF ScreenInv, KeptInv
  <2> QED BY <1>1, <1>3, <1>5, <2>1, PlusEmpty DEF Ref
<1> QED BY <1>4, <1>5 DEF Calm

LEMMA ScreenSubmit == ASSUME TypeInv, ScreenInv, NEW k \in Checkouts, Submit(k) PROVE ScreenInv'
<1>0. TypeOK
  BY DEF TypeInv
<1>1. ck[k].at = "idle" /\ UNCHANGED <<stored, cart, act, blind, owned, kept>>
  BY DEF Submit, cartVars
<1>2. /\ ck'[k].at = "sent" /\ ck'[k].who = cookie /\ ck'[k].lines = NoData
      /\ ck'[k].offer = IF Calm THEN Shown ELSE NoData
      /\ \A j \in Checkouts \ {k} :
           Course(ck'[j]) = Course(ck[j]) /\ ck'[j].offer = NoData /\ ck'[j].by = ck[j].by
  BY <1>0, Submitting
<1>3. User # Guest /\ Shown # Empty /\ cart.data # NoData
  BY DEF Submit, CanSubmit, CheckoutView, Shown, DataOr
<1>4. Told' = Told /\ Unheard' = Unheard /\ Ref' = Ref
  BY <1>1, <1>2 DEF Told, Unheard, Ref, Course
<1>5. Bodies'
  BY <1>1, <1>3 DEF ScreenInv, Bodies
<1>6. Sync' /\ KeptInv'
  BY <1>1, <1>4 DEF ScreenInv, Sync, KeptInv
<1>7. OfferInv'
  <2>1. CASE ~Calm
    BY <1>2, <2>1 DEF OfferInv
  <2>2. CASE Calm
    <3>1. cookie \in Users
      BY <1>3, <2>2 DEF Calm, User
    <3>2. ck'[k].offer = Plus(owned'[cookie], stored')
      BY <1>1, <1>2, <1>3, <2>2, <3>1, CalmOffer
    <3>3. \A j \in Checkouts \ {k} : ck'[j].at \in {"idle", "over"}
      BY <1>2, <2>2 DEF Calm, Running, Course
    <3>4. ActsQuiet'
      BY <1>1, <2>2 DEF Calm, ActsQuiet
    <3> QED BY <1>2, <3>1, <3>2, <3>3, <3>4 DEF OfferInv, Running
  <2> QED BY <2>1, <2>2
<1> QED BY <1>5, <1>6, <1>7 DEF ScreenInv

-----------------------------------------------------------------------------
(* The server's part of a checkout.                                        *)

\* A running checkout is the only one with an offer that is still to be met.
LEMMA OneOffer ==
  ASSUME ScreenInv, NEW k \in Checkouts, Running(k)
  PROVE  \A j \in Checkouts \ {k} : ck[j].offer # NoData => ck[j].at \notin {"sent", "merged"}
  BY DEF ScreenInv, OfferInv

\* What a step of the server writes into the record of the checkout.
LEMMA ServerRecord ==
  ASSUME TypeInv, NEW k \in Checkouts, ServerActs(k)
  PROVE  /\ ck[k].at \in {"sent", "merged", "clearing"} /\ Running(k)
         /\ \A j \in Checkouts \ {k} : ck'[j] = ck[j]
         /\ ck'[k].by = ck[k].by /\ ck'[k].who = ck[k].who
         /\ ck'[k].offer \in {ck[k].offer, NoData}
         /\ UNCHANGED <<cart, act>>
         /\ Merge(k) \/ MergeFalters(k) => ck'[k].at = "merged" /\ ck'[k].lines = ck[k].lines
         /\ MergeFalters(k) => ck'[k].offer = NoData
         /\ ~Merge(k) /\ ~MergeFalters(k) =>
              /\ ck'[k].at \in {"clearing", "answered"}
              /\ ck'[k].offer # NoData =>
                   \/ ck'[k].lines = ck[k].lines
                   \/ ck[k].at = "merged" /\ ck'[k].lines = owned[ck[k].who]
         /\ ClearCart(k) => ck'[k].at = "answered" /\ ck'[k].verdict = ck[k].verdict
<1>1. ck \in [Checkouts -> CheckoutRecords]
  BY DEF TypeInv, TypeOK
<1>2. /\ ck[k].at \in {"sent", "merged", "clearing"} /\ Running(k)
      /\ UNCHANGED <<cart, act>>
  <2>1. ck[k].at \in {"sent", "merged", "clearing"}
    BY OrderedAt DEF ServerActs, Unsigned, Merge, MergeFalters, RefuseEmpty, ClearCart, ClearFails, ChainFails
  <2>2. UNCHANGED <<cart, act>>
    BY DEF ServerActs, Unsigned, Merge, MergeFalters, RefuseEmpty, Decline, Place, ClearCart, ClearFails,
           ChainFails, cartVars
  <2> QED BY <2>1, <2>2 DEF Running
<1>3. CASE Merge(k) \/ MergeFalters(k)
  <2>1. /\ \A j \in Checkouts \ {k} : ck'[j] = ck[j]
        /\ ck'[k].by = ck[k].by /\ ck'[k].who = ck[k].who /\ ck'[k].lines = ck[k].lines
        /\ ck'[k].offer \in {ck[k].offer, NoData} /\ ck'[k].at = "merged"
        /\ MergeFalters(k) => ck'[k].offer = NoData
    BY <1>1, <1>3 DEF Merge, MergeFalters, CheckoutRecords
  <2>2. ~ClearCart(k)
    BY <1>3 DEF Merge, MergeFalters, ClearCart
  <2> QED BY <1>2, <1>3, <2>1, <2>2
<1>4. CASE Decline(k) \/ Place(k)
  <2>1. ck[k].at = "merged" /\ ~Merge(k) /\ ~MergeFalters(k) /\ ~ClearCart(k)
    BY <1>4, OrderedAt DEF Merge, MergeFalters, ClearCart
  <2>2. /\ \A j \in Checkouts \ {k} : ck'[j] = ck[j]
        /\ ck'[k].by = ck[k].by /\ ck'[k].who = ck[k].who /\ ck'[k].at \in {"clearing", "answered"}
        /\ ck'[k].offer # NoData => ck'[k].offer = ck[k].offer /\ ck'[k].lines = owned[ck[k].who]
    BY <1>4, <2>1, VerdictType DEF Decline, Place
  <2> QED BY <1>2, <2>1, <2>2
<1>5. CASE Unsigned(k) \/ RefuseEmpty(k) \/ ChainFails(k) \/ ClearCart(k) \/ ClearFails(k)
  <2>1. /\ \A j \in Checkouts \ {k} : ck'[j] = ck[j]
        /\ ck'[k].by = ck[k].by /\ ck'[k].who = ck[k].who /\ ck'[k].lines = ck[k].lines
        /\ ck'[k].offer = ck[k].offer /\ ck'[k].at = "answered"
        /\ ClearCart(k) => ck'[k].verdict = ck[k].verdict
    BY <1>1, <1>5 DEF Unsigned, RefuseEmpty, ChainFails, ClearCart, ClearFails, Refused, CheckoutRecords
  <2>2. ~Merge(k) /\ ~MergeFalters(k)
    BY <2>1, <1>1 DEF Merge, MergeFalters, CheckoutRecords
  <2> QED BY <1>2, <2>1, <2>2
<1> QED BY <1>3, <1>4, <1>5 DEF ServerActs

LEMMA ServerBodies ==
  ASSUME TypeInv, ScreenInv, NEW k \in Checkouts, ServerActs(k)
  PROVE  Bodies' /\ Told' = Told /\ (Unheard => Unheard')
<1>1. Bodies'
  BY ServerRecord DEF ScreenInv, Bodies
<1>2. Told' = Told
  BY ServerRecord DEF Told
<1>3. Unheard => Unheard'
  BY ServerRecord, <1>1 DEF Unheard
<1> QED BY <1>1, <1>2, <1>3

LEMMA ScreenMerge == ASSUME TypeInv, ScreenInv, NEW k \in Checkouts, Merge(k) PROVE ScreenInv'
<1> DEFINE u == ck[k].who
<1>0. TypeOK /\ ServerActs(k)
  BY DEF TypeInv, ServerActs
<1>1. /\ u \in Users /\ u # Guest /\ ck[k].at = "sent"
      /\ stored \in Carts /\ owned \in [Users -> Carts] /\ cart \in Queries(Carts)
  BY <1>0 DEF Merge, TypeOK, CartTypeOK, CheckoutRecords, Visitors
<1>2. /\ stored' = Empty /\ owned' = [owned EXCEPT ![u] = Plus(owned[u], stored)]
      /\ UNCHANGED <<cart, act>>
  BY DEF Merge, Emptied, Save
<1>3. owned'[u] = Plus(owned[u], stored) /\ \A v \in Users \ {u} : owned'[v] = owned[v]
  BY <1>1, <1>2
<1>4. Merge(k) => ck'[k].offer = ck[k].offer
  BY <1>0 DEF Merge, TypeOK, CheckoutRecords
<1>5. /\ \A j \in Checkouts \ {k} : ck'[j] = ck[j] /\ (ck[j].offer # NoData => ck[j].at \notin {"sent", "merged"})
      /\ ck'[k].at = "merged" /\ ck'[k].who = u /\ ck'[k].offer = ck[k].offer /\ ck'[k].lines = ck[k].lines
  BY <1>0, <1>4, ServerRecord, OneOffer
<1>6. ck[k].offer # NoData => ck[k].offer = owned'[u]
  BY <1>1, <1>3 DEF ScreenInv, OfferInv
<1>7. OfferInv'
  BY <1>1, <1>5, <1>6 DEF ScreenInv, OfferInv, Running
<1>8. Sync' /\ KeptInv'
  <2>1. CASE ck[k].offer # NoData /\ cart.data = ck[k].offer /\ ~Fetching(cart)
    <3>1. kept' = u /\ cart'.fetch = "idle" /\ cart'.data = owned'[u]
      BY <1>2, <1>6, <2>1 DEF Merge, Fetching
    <3> QED BY <1>1, <1>2, <3>1 DEF Sync, KeptInv, Ref
  <2>2. CASE ~(ck[k].offer # NoData /\ cart.data = ck[k].offer /\ ~Fetching(cart))
    <3>1. kept' = kept /\ blind' = (blind \/ stored # Empty)
      BY <2>2 DEF Merge
    <3>2. KeptInv'
      BY <1>2, <3>1 DEF ScreenInv, KeptInv
    <3>3. CASE blind'
      BY <3>2, <3>3 DEF Sync
    <3>4. CASE ~blind'
      <4>1. ~blind /\ stored = Empty
        BY <3>1, <3>4
      <4>2. owned' = owned /\ stored' = stored
        BY <1>1, <1>2, <4>1, PlusEmpty
      <4>3. Ref' = Ref
        BY <3>1, <4>2 DEF Ref
      <4> QED BY <1>0, <1>2, <3>2, <3>4, <4>1, <4>3, ServerBodies DEF ScreenInv, Sync
    <3> QED BY <3>3, <3>4
  <2> QED BY <2>1, <2>2
<1> QED BY <1>0, <1>7, <1>8, ServerBodies DEF ScreenInv

\* A move that failed in part: if it changed anything, that is not heard of yet.
LEMMA ScreenFalters == ASSUME TypeInv, ScreenInv, NEW k \in Checkouts, MergeFalters(k) PROVE ScreenInv'
<1>0. TypeOK /\ ServerActs(k)
  BY DEF TypeInv, ServerActs
<1>1. /\ \A j \in Checkouts \ {k} : ck'[j] = ck[j] /\ (ck[j].offer # NoData => ck[j].at \notin {"sent", "merged"})
      /\ ck'[k].offer = NoData
  BY <1>0, ServerRecord, OneOffer
<1>2. UNCHANGED <<cart, act, kept>> /\ (blind' \/ UNCHANGED <<stored, owned, blind>>)
  <2>1. UNCHANGED <<cart, act, kept>> /\ blind' = (blind \/ stored' # stored \/ owned' # owned)
    BY DEF MergeFalters
  <2>2. CASE stored' = stored /\ owned' = owned
    <3>1. blind \in BOOLEAN
      BY <1>0 DEF TypeOK, CartTypeOK
    <3>2. blind' = blind
      BY ONLY <2>1, <2>2, <3>1, Zenon
    <3> QED BY <2>1, <2>2, <3>2
  <2>3. CASE ~(stored' = stored /\ owned' = owned)
    BY <2>1, <2>3
  <2> QED BY <2>2, <2>3
<1>3. OfferInv'
  BY <1>1 DEF ScreenInv, OfferInv
<1>4. stored' = stored \/ stored' = Empty
  BY DEF MergeFalters, Save
<1>5. Sync'
  BY <1>0, <1>2, ServerBodies DEF ScreenInv, Sync, Ref
<1>6. KeptInv'
  BY <1>0, <1>2, <1>4, ServerBodies DEF ScreenInv, KeptInv
<1> QED BY <1>0, <1>3, <1>5, <1>6, ServerBodies DEF ScreenInv

\* Of the other steps only the last touches a cart, and its answer is then on the way.
LEMMA ScreenServer ==
  ASSUME TypeInv, ScreenInv, NEW k \in Checkouts, ServerActs(k), ~Merge(k), ~MergeFalters(k)
  PROVE  ScreenInv'
<1>0. TypeOK /\ Carried
  BY DEF TypeInv
<1>1. /\ \A j \in Checkouts \ {k} : ck'[j] = ck[j] /\ (ck[j].offer # NoData => ck[j].at \notin {"sent", "merged"})
      /\ ck'[k].who = ck[k].who /\ ck'[k].offer \in {ck[k].offer, NoData}
      /\ UNCHANGED <<stored, cart, act, blind, kept>>
  BY ServerRecord, OneOffer DEF ServerActs, Unsigned, RefuseEmpty, Decline, Place, ClearCart,
     ClearFails, ChainFails, cartVars
<1>2. /\ ck'[k].at \notin {"sent", "merged"}
      /\ ck'[k].offer # NoData =>
           \/ ck'[k].lines = ck[k].lines
           \/ ck[k].at = "merged" /\ ck'[k].lines = owned[ck[k].who]
  BY ServerRecord
<1>3. OfferInv'
  BY <1>1, <1>2 DEF ScreenInv, OfferInv
<1>4. Unheard' \/ (UNCHANGED owned)
  <2>1. CASE ClearCart(k)
    <3>1. ck'[k].at = "answered" /\ ck'[k].verdict = "placed"
      BY <1>0, <2>1, ServerRecord DEF Carried, ClearCart
    <3> QED BY <3>1 DEF Unheard
  <2>2. CASE ~ClearCart(k)
    BY <2>2 DEF ServerActs, Unsigned, RefuseEmpty, Decline, Place, ClearFails, ChainFails
  <2> QED BY <2>1, <2>2
<1>5. Sync'
  BY <1>0, <1>1, <1>4, ServerBodies DEF ScreenInv, Sync, Ref
<1>6. KeptInv'
  BY <1>0, <1>1, ServerBodies DEF ScreenInv, KeptInv
<1> QED BY <1>0, <1>3, <1>5, <1>6, ServerBodies DEF ScreenInv

-----------------------------------------------------------------------------
(* The answer of a checkout.                                               *)

LEMMA ScreenPlaced == ASSUME TypeInv, ScreenInv, NEW k \in Checkouts, HearPlaced(k) PROVE ScreenInv'
<1>0. TypeOK /\ cart \in Queries(Carts)
  BY DEF TypeInv, TypeOK, CartTypeOK
<1>1. /\ cart' = Invalidate(cart) /\ cart.data # NoData
      /\ UNCHANGED <<stored, act, blind, owned, kept>>
  BY DEF HearPlaced, ScreenInv, Bodies
<1>2. cart'.data = cart.data /\ cart'.fetch = "asked"
  BY <1>0, <1>1, QueryFacts, CartFacts
<1>3. /\ ck'[k] = Ended
      /\ \A j \in Checkouts \ {k} :
           /\ Course(ck'[j]) = Course(ck[j]) /\ ck'[j].offer = ck[j].offer
           /\ (ck'[j].by # "nobody" => ck[j].by # "nobody")
  BY <1>0, HearingPlaced
<1>4. Bodies'
  BY <1>1, <1>2 DEF ScreenInv, Bodies
<1>5. Sync' /\ KeptInv'
  BY <1>2 DEF Sync, KeptInv
<1>6. OfferInv'
  BY <1>1, <1>3, EndedRecord DEF ScreenInv, OfferInv, Running, ActsQuiet, Course
<1> QED BY <1>4, <1>5, <1>6 DEF ScreenInv

LEMMA ScreenEnded ==
  ASSUME TypeInv, ScreenInv, NEW k \in Checkouts, HearNo(k) \/ NotHeard(k)
  PROVE  ScreenInv'
<1>0. TypeOK /\ blind \in BOOLEAN
  BY DEF TypeInv, TypeOK, CartTypeOK
<1>1. /\ ck' = [ck EXCEPT ![k] = Ended]
      /\ UNCHANGED <<stored, cart, act, owned, kept>>
  BY DEF HearNo, NotHeard, cartVars
<1>2. (blind => blind') /\ (ck[k].at = "answered" /\ ck[k].verdict = "placed" => blind')
  <2>1. CASE HearNo(k)
    <3>1. ck[k].verdict = "no" /\ UNCHANGED blind
      BY <2>1 DEF HearNo, cartVars
    <3> QED BY <3>1
  <2>2. CASE NotHeard(k)
    BY <1>0, <2>2 DEF NotHeard
  <2> QED BY <2>1, <2>2
<1>3. ck'[k] = Ended /\ \A j \in Checkouts \ {k} : ck'[j] = ck[j]
  BY <1>0, <1>1, Ending
<1>4. Unheard => Unheard' \/ blind'
  BY <1>2, <1>3 DEF Unheard
<1>5. Told' = Told /\ Ref' = Ref
  BY <1>1 DEF Told, Ref
<1>6. Bodies'
  BY <1>1, <1>3, EndedRecord DEF ScreenInv, Bodies
<1>7. Sync' /\ KeptInv'
  BY <1>1, <1>2, <1>4, <1>5 DEF ScreenInv, Sync, KeptInv
<1>8. OfferInv'
  BY <1>1, <1>3, EndedRecord DEF ScreenInv, OfferInv, Running, ActsQuiet
<1> QED BY <1>6, <1>7, <1>8 DEF ScreenInv

-----------------------------------------------------------------------------
(* The theorems.                                                           *)

LEMMA ScreenInit == Init => ScreenInv
<1> SUFFICES ASSUME Init PROVE ScreenInv
  OBVIOUS
<1>1. cart.fetch = "asked" /\ kept = Guest
  BY FreshStart DEF Init, CartInit
<1>2. \A a \in Acts : act[a].at = "idle"
  BY DEF Init, CartInit, NoAct
<1>3. \A k \in Checkouts : ck[k].by = "nobody" /\ ck[k].offer = NoData
  BY DEF Init, NoCheckout
<1> QED BY <1>1, <1>2, <1>3 DEF ScreenInv, Bodies, Sync, KeptInv, OfferInv

LEMMA ScreenStep == TypeInv /\ ScreenInv /\ [Next]_vars => ScreenInv'
<1> SUFFICES ASSUME TypeInv, ScreenInv, [Next]_vars PROVE ScreenInv'
  OBVIOUS
<1>1. CASE CartNews
  <2>1. UNCHANGED buyVars
    BY <1>1 DEF CartNews
  <2> QED BY <1>1, <2>1, ScreenServe, ScreenHear, ScreenArrives DEF CartNews
<1>2. CASE \/ Redirect \/ \E p \in Pages : Go(p)
           \/ \E s \in Signs : LogOut(s) \/ SignHeaders(s) \/ SignDone(s) \/ SignFails(s) \/ \E u \in Users : LogIn(s, u) \/ SignUp(s, u)
           \/ MeArrives \/ MeFails \/ UNCHANGED vars
  <2>1. UNCHANGED <<stored, cart, act, blind, owned, kept>>
    BY <1>2 DEF Redirect, Go, LogOut, LogIn, SignUp, SendSign, SignHeaders, SignDone, SignFails, MeArrives, MeFails,
                vars, cartVars, buyVars
  <2> QED BY <1>2, <2>1, CourseKept, ScreenFrame DEF TypeInv
<1>3. CASE Press \/ CartRead \/ Reload \/ Reconnect
  BY <1>3, ScreenPress, ScreenRead, ScreenReload, ScreenReconnect
<1>4. ASSUME NEW k \in Checkouts, Submit(k) \/ ServerActs(k) \/ HearPlaced(k) \/ HearNo(k) \/ NotHeard(k)
      PROVE  ScreenInv'
  BY <1>4, ScreenSubmit, ScreenMerge, ScreenFalters, ScreenServer, ScreenPlaced, ScreenEnded
<1> QED BY <1>1, <1>2, <1>3, <1>4 DEF Next, ShopperActs, Answers

\* Whatever order the answers of overlapping mutations arrive in, a quiet tab that
\* heard of every change, and whose last read did not find an older cart
\* (awskv.go:51), shows the stored cart (CartContext.tsx:95-100).
THEOREM ScreenIsTrue == Spec => []ShownIsStored
<1>1. Init => TypeInv
  BY InitType DEF Init, TypeInv, Carried, NoCheckout
<1>2. ScreenInv => ShownIsStored
  <2> SUFFICES ASSUME ScreenInv, Quiet, cart.status = "success", ~blind PROVE cart.data = Ref
    BY DEF ShownIsStored, Ref
  <2>1. ~Told /\ ~Unheard /\ cart.fetch = "idle"
    BY DEF Quiet, ActsQuiet, Told, Unheard, Running, Fetching
  <2> QED BY <2>1 DEF ScreenInv, Sync
<1> QED BY <1>1, <1>2, ScreenInit, StepType, ScreenStep, PTL DEF Spec

\* What a calm tab showed when its checkout was submitted is what the order has,
\* also for a second try after a decline (Checkout.tsx:56), if no call of the move
\* and the fetch failed or read an older cart, and the shopper did nothing else.
THEOREM OrderedAsShown == Spec => []OrderIsOffer
<1>1. Init => TypeInv
  BY InitType DEF Init, TypeInv, Carried, NoCheckout
<1>2. ScreenInv => OrderIsOffer
  BY DEF ScreenInv, OfferInv, OrderIsOffer
<1> QED BY <1>1, <1>2, ScreenInit, StepType, ScreenStep, PTL DEF Spec

====
