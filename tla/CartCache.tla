---- MODULE CartCache ----
(***************************************************************************)
(* The cart as one browser tab shows it (context/CartContext.tsx): the     *)
(* cached answer of GET /api/cart, the three mutations the pages fire at   *)
(* the server, and what their answers write into the cache.  The server's  *)
(* cart of this visitor is a document with its earlier versions, of which  *)
(* any may be read; a call's read and write are one step here: how the     *)
(* calls themselves overlap is module CartService.                         *)
(*                                                                         *)
(* A mutation answers with the cart as it left it; the tab writes that     *)
(* into the cache and asks for the cart again.  Several mutations may be   *)
(* under way, and their answers arrive in any order or not at all.         *)
(***************************************************************************)
EXTENDS QueryCache, Integers, FiniteSets

CONSTANTS
    Items,       \* cart lines: a product, with its size folded into the id
    MaxActs,     \* bound: cart mutations fired
    StartQty,    \* bound: units of a line in the cart a visitor comes back to
    CartRetries  \* retry of the query client, for reads of the cart

ASSUME CartCacheConstants ==
    /\ MaxActs \in Nat /\ StartQty \in Nat /\ CartRetries \in Nat
    /\ NoData \notin [Items -> Nat]
    /\ Items # {}

VARIABLES
    stored,   \* the visitor's cart in the cart service
    past,     \* what it was earlier in this visit; a read may still find it
    cart,     \* the tab's query of it
    act,      \* the mutations, in the order they were fired
    blind     \* a change of the stored cart was never told to the tab, or its
              \* last read found an older cart (history)

cartVars == <<stored, past, cart, act, blind>>

Acts == 1..MaxActs
Carts == [Items -> Nat]
Empty == [i \in Items |-> 0]
AnyItem == CHOOSE i \in Items : TRUE

\* An act is fired ("sent"), applied by the server ("served") and then heard of
\* or given up ("over"); one whose tab was reloaded before it was applied is "adrift".
NoAct == [at |-> "idle", op |-> "add", item |-> AnyItem, qty |-> 0, env |-> NoData]
ActRecords ==
    [at : {"idle", "sent", "served", "over", "adrift"}, op : {"add", "set", "remove"},
     item : Items, qty : Nat, env : Carts \cup {NoData}]
Over(r) == [NoAct EXCEPT !.at = "over", !.op = r.op]

Pending(a) == act[a].at \in {"sent", "served"}
ActsQuiet == \A a \in Acts : act[a].at \in {"idle", "over"}

\* What the tab shows: items of the context, empty until the cart is known.
Shown == DataOr(cart, Empty)

CartTypeOK ==
    /\ stored \in Carts /\ past \subseteq Carts
    /\ cart \in Queries(Carts)
    /\ act \in [Acts -> ActRecords]
    /\ blind \in BOOLEAN

CartInit ==
    /\ stored \in [Items -> 0..StartQty] /\ past = {}
    /\ cart = Start(Fresh)
    /\ act = [a \in Acts |-> NoAct]
    /\ blind = FALSE

-----------------------------------------------------------------------------
(* Firing a mutation.                                                      *)

\* A mutation observer follows only the last mutation it fired: its variables
\* while that one runs, and nothing of an earlier one that still runs.
IsLast(a, op) ==
    /\ Pending(a) /\ act[a].op = op
    /\ \A b \in Acts : b > a => act[b].at = "idle" \/ act[b].op # op
IsAdding == \E a \in Acts : IsLast(a, "add")
Updating(i) == \E a \in Acts : IsLast(a, "set") /\ act[a].item = i
Removing(i) == \E a \in Acts : IsLast(a, "remove") /\ act[a].item = i
BusyLine(i) == Updating(i) \/ Removing(i)

Fire(a, op, i, q) ==
    /\ act[a].at = "idle" /\ \A b \in Acts : b < a => act[b].at # "idle"
    /\ act' = [act EXCEPT ![a] = [NoAct EXCEPT !.at = "sent", !.op = op, !.item = i, !.qty = q]]
    /\ UNCHANGED <<stored, past, cart, blind>>

\* The product page's button.
PressAdd(a, i) == ~IsAdding /\ Fire(a, "add", i, 1)

\* The cart page's stepper and cross, on a line it shows.
PressStep(a, i, d) == Shown[i] > 0 /\ ~BusyLine(i) /\ Fire(a, "set", i, Shown[i] + d)

\* Slip: the cross is a step to minus one.
PressMinusOne(a, i) == Shown[i] > 0 /\ ~BusyLine(i) /\ Fire(a, "set", i, -1)
PressRemove(a, i) == Shown[i] > 0 /\ ~BusyLine(i) /\ Fire(a, "remove", i, 0)

-----------------------------------------------------------------------------
(* The server and the answers of mutations.                                *)

\* Reads are eventually consistent.
Versions == {stored} \cup past

\* The cart is replaced by a whole document; a cart that is not saved stays.
Save(c) == stored' = c /\ past' = IF c = stored THEN past ELSE Versions

Applied(c, r) ==
    CASE r.op = "add"    -> [c EXCEPT ![r.item] = @ + r.qty]
      [] r.op = "set"    -> [c EXCEPT ![r.item] = IF @ > 0 /\ r.qty > 0 THEN r.qty ELSE 0]
      [] r.op = "remove" -> [c EXCEPT ![r.item] = 0]

\* Setting the quantity of a line that is not there saves nothing.
Saves(c, r) == r.op = "set" /\ r.qty > 0 => c[r.item] > 0

\* The call reads the cart, saves what it makes of it, and answers with that.
Call(c, r) == Save(IF Saves(c, r) THEN Applied(c, r) ELSE stored)

ServeAct(a) ==
    /\ act[a].at = "sent"
    /\ \E c \in Versions :
         /\ Call(c, act[a])
         /\ act' = [act EXCEPT ![a].at = "served", ![a].env = Applied(c, act[a])]
    /\ UNCHANGED <<cart, blind>>

\* The tab that fired it is gone: nobody hears of the change.
ServeAdrift(a) ==
    /\ act[a].at = "adrift"
    /\ \E c \in Versions : Call(c, act[a])
    /\ blind' = TRUE
    /\ act' = [act EXCEPT ![a] = Over(@)]
    /\ UNCHANGED cart

\* Slip: the answer is taken for the last word.
AnswerOnly(q, d) == SetData(q, d)
Answer(q, d) == Invalidate(SetData(q, d))

ActDone(a) ==
    /\ act[a].at = "served"
    /\ cart' = Answer(cart, act[a].env)
    /\ act' = [act EXCEPT ![a] = Over(@)]
    /\ UNCHANGED <<stored, past, blind>>

\* Refused, lost on its way or on its way back: a toast, and nothing else.
ActFails(a) ==
    /\ Pending(a)
    /\ blind' = (blind \/ act[a].at = "served")
    /\ act' = [act EXCEPT ![a] = Over(@)]
    /\ UNCHANGED <<stored, past, cart>>

DropAdrift(a) ==
    /\ act[a].at = "adrift"
    /\ act' = [act EXCEPT ![a] = Over(@)]
    /\ UNCHANGED <<stored, past, cart, blind>>

-----------------------------------------------------------------------------
(* Reading the cart.                                                       *)

ServeCart ==
    /\ cart.fetch = "asked"
    /\ \E c \in Versions : cart' = Serve(cart, c) /\ blind' = (c # stored)
    /\ UNCHANGED <<stored, past, act>>

CartArrives ==
    /\ cart.fetch = "served"
    /\ cart' = Arrive(cart, cart.body)
    /\ UNCHANGED <<stored, past, act, blind>>

CartFails ==
    /\ Fetching(cart)
    /\ cart' = Fail(cart, CartRetries)
    /\ UNCHANGED <<stored, past, act, blind>>

\* The tab forgets what it waited for; its requests may still reach the server.
Abandoned(r) ==
    CASE r.at = "sent" -> [r EXCEPT !.at = "adrift"]
      [] r.at = "served" -> Over(r)
      [] OTHER -> r

ReloadCart ==
    /\ cart' = Start(Fresh)
    /\ act' = [a \in Acts |-> Abandoned(act[a])]
    /\ UNCHANGED <<stored, past, blind>>

====
