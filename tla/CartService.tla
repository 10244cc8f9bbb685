---- MODULE CartService ----
(***************************************************************************)
(* The cart service: the store operations of internal/cart/cart.go behind  *)
(* the handlers of cmd/cart/main.go.                                       *)
(*                                                                         *)
(* A cart is one JSON document per session.  Every change but Clear is an  *)
(* unlocked read-modify-write of the whole document, and two replicas      *)
(* serve the same table, so calls on one session interleave between their  *)
(* read and their write.  A cart document is the set of its lines: their   *)
(* order is presentation only.  A missing document reads as no lines.      *)
(***************************************************************************)
EXTENDS MachineInts, FiniteSets, Sums

CONSTANTS
    Sessions,        \* session ids and user ids: the keys of the table
    Products,
    Prices,          \* the price snapshots callers send
    MaxQty,          \* bound: the largest quantity a caller asks for
    Calls,           \* handlers
    StaleReads,      \* the table is DynamoDB, read without ConsistentRead
    SerialSessions,  \* callers wait for one call on a session to end
    CartFails        \* a store call may fail, or happen and lose its answer

Item == [id : Products, price : Prices, qty : Ints]
Kinds == {"get", "add", "remove", "set", "clear"}
Op == [kind : Kinds, session : Sessions, id : Products, price : Prices, qty : Ints]

ASSUME CartConstants ==
    /\ Sessions # {} /\ Products # {} /\ Prices # {}
    /\ MaxQty \in 0..MaxInt
    /\ StaleReads \in BOOLEAN
    /\ SerialSessions \in BOOLEAN
    /\ CartFails \in BOOLEAN

VARIABLES
    table,    \* the carts table: the lines of each session's document
    past,     \* earlier versions of the documents
    call,     \* per handler, its stage
    request,  \* per handler, the operation it serves
    lines,    \* per handler, the local c.Items
    wrapped   \* history: the sum of two quantities did not fit an int

store    == <<table, past>>
cartVars == <<table, past, call, request, lines, wrapped>>

Stages == {"idle", "read", "write", "answer", "ok", "failed"}

-----------------------------------------------------------------------------
(* The operations on a document.                                           *)

Line(items, p) == {it \in items : it.id = p}

\* Add takes a quantity that is not positive for one.
Clamped(q) == IF q <= 0 THEN 1 ELSE q

\* Slips in Add: no clamp of the quantity, a quantity one too small, no merge into
\* the line of the product, and a merge that takes the new price.
AddUnclamped(items, op) ==
    LET old == Line(items, op.id)
    IN IF old = {}
         THEN items \cup {[id |-> op.id, price |-> op.price, qty |-> op.qty]}
         ELSE (items \ old) \cup {[it EXCEPT !.qty = Plus(@, op.qty)] : it \in old}

AddOneLess(items, op) ==
    (items \ Line(items, op.id)) \cup {[id |-> op.id, price |-> op.price, qty |-> op.qty - 1]}

AddAppends(items, op) ==
    items \cup {[id |-> op.id, price |-> op.price, qty |-> Clamped(op.qty)]}

AddReprices(items, op) ==
    LET old == Line(items, op.id)
    IN IF old = {}
         THEN items \cup {[id |-> op.id, price |-> op.price, qty |-> Clamped(op.qty)]}
         ELSE (items \ old) \cup
                {[it EXCEPT !.qty = Plus(@, Clamped(op.qty)), !.price = op.price] : it \in old}

\* The quantities are the callers', and nothing checks that their sum fits.
Add(items, op) ==
    LET old == Line(items, op.id)
    IN IF old = {}
         THEN items \cup {[id |-> op.id, price |-> op.price, qty |-> Clamped(op.qty)]}
         ELSE (items \ old) \cup {[it EXCEPT !.qty = Plus(@, Clamped(op.qty))] : it \in old}

Overflows(items, op) ==
    op.kind = "add" /\ \E it \in Line(items, op.id) : ~Fits(it.qty, Clamped(op.qty))

Remove(items, p) == items \ Line(items, p)

\* SetQty with a positive quantity, on a cart that has the product.
SetLine(items, op) ==
    LET old == Line(items, op.id)
    IN (items \ old) \cup {[it EXCEPT !.qty = op.qty] : it \in old}

Removes(op) == op.kind = "remove" \/ (op.kind = "set" /\ op.qty <= 0)

Changed(items, op) ==
    CASE op.kind = "add"   -> Add(items, op)
      [] Removes(op)       -> Remove(items, op.id)
      [] op.kind = "set" /\ ~Removes(op) -> SetLine(items, op)
      [] op.kind = "clear" -> {}
      [] OTHER             -> items

\* Slip: the removal of a line is not saved.
SavesNoRemoval(items, op) ==
    \/ op.kind \in {"add", "clear"}
    \/ op.kind = "set" /\ Line(items, op.id) # {}

\* A get saves nothing, nor does setting the quantity of a product not in the cart.
Saves(items, op) ==
    \/ op.kind \in {"add", "clear"} \/ Removes(op)
    \/ op.kind = "set" /\ Line(items, op.id) # {}

-----------------------------------------------------------------------------

Versions(s) == {table[s]} \cup past[s]
Readable(s) == IF StaleReads THEN Versions(s) ELSE {table[s]}

Positive(items) == \A it \in items : it.qty > 0

\* Every quantity is an int, and positive unless a sum of quantities overflowed.
CartTypeOK ==
    /\ table \in [Sessions -> SUBSET Item]
    /\ past \in [Sessions -> SUBSET (SUBSET Item)]
    /\ call \in [Calls -> Stages]
    /\ request \in [Calls -> Op]
    /\ lines \in [Calls -> SUBSET Item]
    /\ wrapped \in BOOLEAN
    /\ ~wrapped =>
         /\ \A s \in Sessions : \A items \in Versions(s) : Positive(items)
         /\ \A h \in Calls : Positive(lines[h])

Busy(h) == call[h] \in {"read", "write", "answer"}
Goto(h, s) == call' = [call EXCEPT ![h] = s]

\* A request reaches a handler.  Clear deletes the document without reading it.
Receive(h, op) ==
    /\ ~Busy(h)
    /\ SerialSessions =>
         \A g \in Calls : Busy(g) => request[g].session # op.session
    /\ request' = [request EXCEPT ![h] = op]
    /\ lines' = [lines EXCEPT ![h] = {}]
    /\ Goto(h, IF op.kind = "clear" THEN "write" ELSE "read")
    /\ UNCHANGED <<store, wrapped>>

\* Get, then the change of the local copy; what saves nothing only has to answer.
Read(h) ==
    LET op == request[h]
    IN /\ call[h] = "read"
       /\ \E items \in Readable(op.session) :
            /\ lines' = [lines EXCEPT ![h] = Changed(items, op)]
            /\ wrapped' = (wrapped \/ Overflows(items, op))
            /\ Goto(h, IF Saves(items, op) THEN "write" ELSE "answer")
       /\ UNCHANGED <<store, request>>

\* The Put or Delete of the document, over whatever is there by now.
Put(h) ==
    LET s == request[h].session
    IN /\ table' = [table EXCEPT ![s] = lines[h]]
       /\ past' = [past EXCEPT ![s] = @ \cup {table[s]}]

Write(h) ==
    /\ call[h] = "write"
    /\ Put(h)
    /\ Goto(h, "answer")
    /\ UNCHANGED <<request, lines, wrapped>>

\* The handler answers with its copy, later than the store call it has made.
Reply(h) ==
    /\ call[h] = "answer"
    /\ Goto(h, "ok")
    /\ UNCHANGED <<store, request, lines, wrapped>>

\* Slips: a failed write is tried again from the read on, though it may have
\* happened; and the error of a store call is not looked at.
FailRetried(h) ==
    /\ CartFails /\ Busy(h)
    /\ (call[h] = "write" /\ Put(h)) \/ UNCHANGED store
    /\ Goto(h, IF call[h] = "write" THEN "read" ELSE "failed")
    /\ UNCHANGED <<request, lines, wrapped>>

FailUnseen(h) ==
    /\ CartFails /\ Busy(h)
    /\ (call[h] = "write" /\ Put(h)) \/ UNCHANGED store
    /\ Goto(h, "answer")
    /\ UNCHANGED <<request, lines, wrapped>>

\* A store call fails, or the pod dies: the caller gets a 502 or no answer, and a
\* write may have happened.
Fail(h) ==
    /\ CartFails /\ Busy(h)
    /\ (call[h] = "write" /\ Put(h)) \/ UNCHANGED store
    /\ Goto(h, "failed")
    /\ UNCHANGED <<request, lines, wrapped>>

Serve(h) == Read(h) \/ Write(h) \/ Reply(h) \/ Fail(h)

-----------------------------------------------------------------------------
(* The service on its own: every handler of the instance serves one call.  *)

AnySession == CHOOSE s \in Sessions : TRUE
AnyProduct == CHOOSE p \in Products : TRUE
AnyPrice   == CHOOSE c \in Prices : TRUE

Ask(k, s, p, c, q) == [kind |-> k, session |-> s, id |-> p, price |-> c, qty |-> q]

\* A caller sends one of the five requests to an idle handler.
Call(h) ==
    /\ call[h] = "idle"
    /\ \E s \in Sessions :
         \/ \E p \in Products, c \in Prices, q \in 0..MaxQty :
              Receive(h, Ask("add", s, p, c, q))
         \/ \E p \in Products, q \in 0..MaxQty : Receive(h, Ask("set", s, p, AnyPrice, q))
         \/ \E p \in Products : Receive(h, Ask("remove", s, p, AnyPrice, 0))
         \/ \E k \in {"get", "clear"} : Receive(h, Ask(k, s, AnyProduct, AnyPrice, 0))

CartInit ==
    /\ table = [s \in Sessions |-> {}]
    /\ past = [s \in Sessions |-> {}]
    /\ call = [h \in Calls |-> "idle"]
    /\ request = [h \in Calls |-> Ask("get", AnySession, AnyProduct, AnyPrice, 0)]
    /\ lines = [h \in Calls |-> {}]
    /\ wrapped = FALSE

\* Every call of the instance has been answered: the service waits for more.
Quiescent == (\A h \in Calls : call[h] \in {"ok", "failed"}) /\ UNCHANGED cartVars

CartNext ==
    \/ \E h \in Calls : Serve(h) \/ Call(h)
    \/ Quiescent

CartSpec == CartInit /\ [][CartNext]_cartVars

-----------------------------------------------------------------------------
(* Properties.                                                             *)

\* A cart has one line per product.
WellFormed(items) == \A it, jt \in items : it.id = jt.id => it = jt

\* However the read-modify-writes of a session interleave, whatever they read and
\* wherever they fail, no version of a cart and no answer of a handler has two lines
\* for a product, which Add, Remove and SetQty all rely on.
CartsWellFormed ==
    /\ \A s \in Sessions : \A items \in Versions(s) : WellFormed(items)
    /\ \A h \in Calls : WellFormed(lines[h])

Received(kind, s, p) ==
    {h \in Calls : call[h] # "idle" /\ request[h].kind = kind
                   /\ request[h].session = s /\ request[h].id = p}

Qty(h) == Clamped(request[h].qty)

\* Races may lose an update but invent none: a line has the price of some add of the
\* product to that cart, and at most the quantity of all such adds on top of one
\* quantity that was set (an overlap of calls never counts an add twice).
LinesExplained ==
    \A s \in Sessions : \A it \in table[s] :
        LET adds == Received("add", s, it.id)
            sets == {request[h].qty : h \in Received("set", s, it.id)}
        IN /\ \E h \in adds : request[h].price = it.price
           /\ \E base \in {0} \cup sets : it.qty <= base + SumOver([h \in adds |-> Qty(h)], adds)

\* The cart a handler answers with was the stored cart at some time, though another
\* call may have replaced it since; with one call at a time on a session of a
\* consistent table, it is the cart that is stored when the answer goes out.
ReplyIsStored ==
    [][\A h \in Calls : call[h] = "answer" /\ call'[h] = "ok" =>
           /\ lines[h] \in Versions(request[h].session)
           /\ SerialSessions /\ ~StaleReads => lines[h] = table[request[h].session]]_cartVars

\* One call at a time on a session of a consistent table, a call is atomic, failed
\* ones included: it happens once or not at all, and in particular a line keeps the
\* price it was first added at until it is removed (cart.go:1-3).
cartBar == [s \in Sessions |->
    [p \in {it.id : it \in table[s]} |->
        LET it == CHOOSE it \in table[s] : it.id = p
        IN [price |-> it.price, qty |-> it.qty]]]

Atomic == INSTANCE AtomicCart WITH cart <- cartBar

ImplementsAtomicCart == Atomic!Spec
====
