---- MODULE CartProofs ----
(***************************************************************************)
(* Theorems about the cart service, for any sessions, products, prices,    *)
(* quantities and calls, whether or not calls overlap, reads are stale or  *)
(* the store fails.                                                        *)
(***************************************************************************)
EXTENDS CartService, SumTheorems, TLAPS

-----------------------------------------------------------------------------
(* The operations on a document.                                           *)

Carts == SUBSET Item

\* The machine's sum of an int and a positive one is an int, is never more than the
\* sum, and is the sum if that fits.
LEMMA PlusInt ==
  ASSUME NEW a \in Ints, NEW b \in Ints, b > 0
  PROVE  /\ Plus(a, b) \in Ints /\ Plus(a, b) <= a + b
         /\ Fits(a, b) => Plus(a, b) = a + b
BY MaxIntConstant DEF Ints, Plus, Fits

LEMMA ClampedInt ==
  ASSUME NEW q \in Ints
  PROVE  Clamped(q) \in Ints /\ Clamped(q) \in Nat /\ Clamped(q) > 0
BY MaxIntConstant DEF Ints, Clamped

LEMMA IntsAreInt == \A q \in Ints : q \in Int
BY MaxIntConstant DEF Ints

\* Each operation makes a cart of a cart, and keeps one line per product: Add and
\* SetQty change the one line they find, and Add appends only if there is none.
\* Quantities stay positive unless the sum of two overflows.
Sound(items, op, new) ==
    /\ new \in Carts /\ WellFormed(new)
    /\ Positive(items) /\ ~Overflows(items, op) => Positive(new)

LEMMA ChangedSound ==
  ASSUME NEW items \in Carts, WellFormed(items), NEW op \in Op
  PROVE  Sound(items, op, Changed(items, op))
<1> USE DEF Carts, WellFormed, Line, Positive, Sound
<1>1. op.id \in Products /\ op.price \in Prices /\ op.qty \in Ints /\ op.kind \in Kinds
  BY DEF Op
<1>2. \A it \in items : it \in Item /\ it.id \in Products /\ it.price \in Prices
                        /\ it.qty \in Ints /\ it.qty \in Int
  BY IntsAreInt DEF Item
<1>3. ASSUME op.kind = "add" PROVE Sound(items, op, Add(items, op))
  <2> DEFINE n == Clamped(op.qty)
  <2>1. n \in Ints /\ n \in Int /\ n > 0
    BY <1>1, ClampedInt
  <2>2. CASE Line(items, op.id) = {}
    <3> DEFINE new == [id |-> op.id, price |-> op.price, qty |-> n]
    <3>1. new \in Item /\ new.id = op.id /\ new.qty > 0
      BY <1>1, <2>1 DEF Item
    <3>2. Add(items, op) = items \cup {new}
      BY <2>2 DEF Add
    <3> HIDE DEF new
    <3>3. \A it \in items : it.id # op.id
      BY <2>2
    <3> QED BY <3>1, <3>2, <3>3
  <2>3. CASE Line(items, op.id) # {}
    <3>1. PICK old \in items : old.id = op.id /\ Line(items, op.id) = {old}
      BY <2>3
    <3> DEFINE new == [old EXCEPT !.qty = Plus(@, n)]
    <3>2. Plus(old.qty, n) \in Ints /\ (Fits(old.qty, n) => Plus(old.qty, n) = old.qty + n)
      BY <3>1, <1>2, <2>1, PlusInt
    <3>3. Add(items, op) = (items \ {old}) \cup {new}
      BY <2>3, <3>1 DEF Add
    <3>4. Overflows(items, op) <=> ~Fits(old.qty, n)
      BY <1>3, <3>1 DEF Overflows
    <3> HIDE DEF n
    <3>5. new \in Item /\ new.id = op.id /\ new.qty = Plus(old.qty, n)
      BY <3>1, <3>2, <1>2 DEF Item
    <3>6. old.qty > 0 /\ Fits(old.qty, n) => new.qty > 0
      BY <3>1, <3>2, <3>5, <1>2, <2>1
    <3> HIDE DEF new
    <3>7. \A it \in items \ {old} : it.id # op.id
      BY <3>1
    <3> QED BY <3>1, <3>3, <3>4, <3>5, <3>6, <3>7
  <2> QED BY <2>2, <2>3
<1>4. Sound(items, op, Remove(items, op.id))
  BY DEF Remove
<1>5. ASSUME op.qty > 0 PROVE Sound(items, op, SetLine(items, op))
  <2>1. CASE Line(items, op.id) = {}
    <3>1. SetLine(items, op) = items
      BY <2>1 DEF SetLine
    <3> QED BY <3>1
  <2>2. CASE Line(items, op.id) # {}
    <3>1. PICK old \in items : old.id = op.id /\ Line(items, op.id) = {old}
      BY <2>2
    <3> DEFINE new == [old EXCEPT !.qty = op.qty]
    <3>2. new \in Item /\ new.id = op.id /\ new.qty > 0
      BY <3>1, <1>1, <1>2, <1>5 DEF Item
    <3>3. SetLine(items, op) = (items \ {old}) \cup {new}
      BY <3>1 DEF SetLine
    <3> HIDE DEF new
    <3>4. \A it \in items \ {old} : it.id # op.id
      BY <3>1
    <3> QED BY <3>2, <3>3, <3>4
  <2> QED BY <2>1, <2>2
<1>6. op.qty \in Int
  BY <1>1, IntsAreInt
<1> QED
  <2>1. CASE op.kind = "add"
    BY <1>3, <2>1 DEF Changed, Removes
  <2>2. CASE Removes(op)
    <3>1. op.kind # "add"
      BY <2>2 DEF Removes
    <3>2. Changed(items, op) = Remove(items, op.id)
      BY <2>2, <3>1 DEF Changed, Removes
    <3> QED BY <1>4, <3>2
  <2>3. CASE op.kind = "set" /\ op.qty > 0
    BY <1>5, <1>6, <2>3 DEF Changed, Removes
  <2>4. CASE op.kind \in {"get", "clear"}
    BY <2>4 DEF Changed, Removes
  <2> QED BY <1>1, <1>6, <2>1, <2>2, <2>3, <2>4 DEF Kinds, Removes

-----------------------------------------------------------------------------
(* Steps.                                                                  *)

IInv == CartTypeOK /\ CartsWellFormed

\* The tables are empty initially.
LEMMA InitInv == CartInit => IInv
<1>1. AnySession \in Sessions /\ AnyProduct \in Products /\ AnyPrice \in Prices
  BY CartConstants DEF AnySession, AnyProduct, AnyPrice
<1>2. 0 \in Ints
  BY MaxIntConstant DEF Ints
<1> SUFFICES ASSUME CartInit PROVE IInv
  OBVIOUS
<1>3. Ask("get", AnySession, AnyProduct, AnyPrice, 0) \in Op
  BY <1>1, <1>2 DEF Op, Kinds, Ask
<1>4. /\ \A s \in Sessions : \A items \in Versions(s) : items = {}
      /\ \A h \in Calls : lines[h] = {}
  BY DEF CartInit, Versions
<1>5. CartTypeOK
  BY <1>3, <1>4 DEF CartInit, CartTypeOK, Positive, Stages
<1>6. CartsWellFormed
  BY <1>4 DEF CartsWellFormed, WellFormed
<1> QED BY <1>5, <1>6 DEF IInv

\* A request that arrives starts from no lines.
LEMMA ReceiveInv ==
  ASSUME IInv, NEW h \in Calls, NEW op \in Op, Receive(h, op)
  PROVE  IInv'
BY DEF Receive, Goto, IInv, CartTypeOK, CartsWellFormed, Versions, WellFormed, Positive, Stages,
       store

\* The requests callers send are operations on carts.
LEMMA CallInv ==
  ASSUME IInv, NEW h \in Calls, Call(h)
  PROVE  IInv'
<1>1. AnyProduct \in Products /\ AnyPrice \in Prices
  BY CartConstants DEF AnyProduct, AnyPrice
<1>2. 0 \in Ints /\ \A q \in 0..MaxQty : q \in Ints
  BY CartConstants, MaxIntConstant DEF Ints
<1>3. PICK op \in Op : Receive(h, op)
  BY <1>1, <1>2 DEF Call, Ask, Op, Kinds
<1> QED BY <1>3, ReceiveInv

\* A handler changes its own copy of a version of the document.
LEMMA ReadInv ==
  ASSUME IInv, NEW h \in Calls, Read(h)
  PROVE  IInv'
<1>1. request[h] \in Op /\ request[h].session \in Sessions
  BY DEF IInv, CartTypeOK, Op
<1>2. PICK items \in Readable(request[h].session) :
        /\ lines' = [lines EXCEPT ![h] = Changed(items, request[h])]
        /\ wrapped' = (wrapped \/ Overflows(items, request[h]))
        /\ Goto(h, IF Saves(items, request[h]) THEN "write" ELSE "answer")
  BY DEF Read
<1>3. items \in Versions(request[h].session) /\ items \in Carts /\ WellFormed(items)
  BY <1>1 DEF Readable, Versions, IInv, CartTypeOK, CartsWellFormed, Carts
<1> DEFINE new == Changed(items, request[h])
<1>4. Sound(items, request[h], new)
  BY <1>1, <1>3, ChangedSound
<1>5. UNCHANGED <<table, past, request>> /\ lines' = [lines EXCEPT ![h] = new]
  BY <1>2 DEF Read, store
<1> HIDE DEF new
<1>6. ASSUME ~wrapped'
      PROVE  /\ \A s \in Sessions : \A its \in Versions(s)' : Positive(its)
             /\ \A g \in Calls : Positive(lines'[g])
  <2>1. /\ ~wrapped /\ ~Overflows(items, request[h])
        /\ \A s \in Sessions : \A its \in Versions(s) : Positive(its)
        /\ \A g \in Calls : Positive(lines[g])
    BY <1>2, <1>6 DEF IInv, CartTypeOK
  <2>2. Positive(new)
    BY <1>1, <1>3, <1>4, <2>1 DEF Sound
  <2>3. \A s \in Sessions : Versions(s)' = Versions(s)
    BY <1>5 DEF Versions
  <2>4. \A g \in Calls : lines'[g] \in {lines[g], new}
    BY <1>5 DEF IInv, CartTypeOK
  <2> QED BY <2>1, <2>2, <2>3, <2>4
<1>7. wrapped' \in BOOLEAN
  BY <1>2 DEF Overflows
<1>8. CartTypeOK'
  <2>1. /\ table' \in [Sessions -> SUBSET Item]
        /\ past' \in [Sessions -> SUBSET (SUBSET Item)]
        /\ call' \in [Calls -> Stages]
        /\ request' \in [Calls -> Op]
        /\ lines' \in [Calls -> SUBSET Item]
    BY <1>2, <1>4, <1>5 DEF IInv, CartTypeOK, Goto, Stages, Carts, Sound
  <2> QED BY <2>1, <1>6, <1>7 DEF CartTypeOK, Positive
<1>9. CartsWellFormed'
  BY <1>4, <1>5 DEF IInv, CartTypeOK, CartsWellFormed, Versions, WellFormed, Sound
<1> QED BY <1>8, <1>9 DEF IInv

\* A write replaces a document by a handler's copy.
LEMMA PutInv ==
  ASSUME IInv, NEW h \in Calls, Put(h) \/ UNCHANGED store, UNCHANGED <<request, lines, wrapped>>,
         NEW s \in Stages, Goto(h, s)
  PROVE  IInv'
<1>1. request[h].session \in Sessions /\ lines[h] \in SUBSET Item
  BY DEF IInv, CartTypeOK, Op
<1>2. CASE Put(h)
  <2>1. table' \in [Sessions -> SUBSET Item]
    BY <1>1, <1>2 DEF Put, IInv, CartTypeOK
  <2>2. past' \in [Sessions -> SUBSET (SUBSET Item)]
    <3>1. table[request[h].session] \in SUBSET Item
      BY <1>1 DEF IInv, CartTypeOK
    <3> QED BY <1>1, <1>2, <3>1 DEF Put, IInv, CartTypeOK
  <2>3. \A t \in Sessions : \A items \in Versions(t)' : items \in Versions(t) \/ items = lines[h]
    BY <1>1, <1>2 DEF Put, Versions, IInv, CartTypeOK
  <2>4. CartsWellFormed'
    BY <2>3 DEF IInv, CartsWellFormed, WellFormed
  <2>5. ~wrapped' => /\ \A t \in Sessions : \A items \in Versions(t)' : Positive(items)
                     /\ \A g \in Calls : Positive(lines'[g])
    BY <2>3 DEF IInv, CartTypeOK
  <2>6. call' \in [Calls -> Stages] /\ request' \in [Calls -> Op]
        /\ lines' \in [Calls -> SUBSET Item] /\ wrapped' \in BOOLEAN
    BY DEF IInv, CartTypeOK, Goto
  <2> QED BY <2>1, <2>2, <2>4, <2>5, <2>6 DEF IInv, CartTypeOK, Positive
<1>3. CASE UNCHANGED store
  BY <1>3 DEF store, IInv, CartTypeOK, CartsWellFormed, Versions, WellFormed, Positive, Goto
<1> QED BY <1>2, <1>3

\* Every step keeps the invariant.
LEMMA NextInv == IInv /\ [CartNext]_cartVars => IInv'
<1> SUFFICES ASSUME IInv, [CartNext]_cartVars PROVE IInv'
  OBVIOUS
<1>1. ASSUME NEW h \in Calls, Call(h) PROVE IInv'
  BY <1>1, CallInv
<1>2. ASSUME NEW h \in Calls, Read(h) PROVE IInv'
  BY <1>2, ReadInv
<1>3. ASSUME NEW h \in Calls, Write(h) PROVE IInv'
  BY <1>3, PutInv DEF Write, Stages
<1>4. ASSUME NEW h \in Calls, Reply(h) PROVE IInv'
  BY <1>4, PutInv DEF Reply, Stages
<1>5. ASSUME NEW h \in Calls, Fail(h) PROVE IInv'
  BY <1>5, PutInv DEF Fail, Stages
<1>6. CASE UNCHANGED cartVars
  BY <1>6 DEF cartVars, IInv, CartTypeOK, CartsWellFormed, Versions, WellFormed, Positive
<1> QED BY <1>1, <1>2, <1>3, <1>4, <1>5, <1>6 DEF CartNext, Serve, Quiescent

\* The inductive invariant always holds.
LEMMA Invariance == CartSpec => []IInv
BY InitInv, NextInv, PTL DEF CartSpec

-----------------------------------------------------------------------------

\* Every variable of the service keeps its type.  In particular every quantity in a
\* cart is an int, whatever quantities callers send, and a positive one until some
\* sum of two quantities does not fit an int: that is the only way to spoil one.
THEOREM CartTypeCorrect == CartSpec => []CartTypeOK
BY Invariance, PTL DEF IInv

\* No version of a cart, and no answer, ever has two lines for a product, however
\* the read-modify-writes of a session overlap, read old documents and fail.
THEOREM CartsAreWellFormed == CartSpec => []CartsWellFormed
BY Invariance, PTL DEF IInv

-----------------------------------------------------------------------------
(* Callers that take turns, on a consistent table.                         *)

\* A change that is not saved is none.
LEMMA UnsavedIsSame ==
  ASSUME NEW items \in Carts, NEW op \in Op, ~Saves(items, op)
  PROVE  Changed(items, op) = items
<1>1. CASE op.kind = "get"
  BY <1>1 DEF Changed, Removes
<1>2. CASE op.kind = "set" /\ ~Removes(op) /\ Line(items, op.id) = {}
  BY <1>2 DEF Changed, SetLine
<1> QED BY <1>1, <1>2 DEF Saves, Removes, Op, Kinds

TakingTurns == SerialSessions /\ ~StaleReads

\* Calls on a session do not overlap, so what a handler is about to write is the
\* change it was asked for, applied to what is stored, and what it is about to answer
\* with is stored.
TurnsInv ==
    /\ \A g, h \in Calls :
         Busy(g) /\ Busy(h) /\ request[g].session = request[h].session => g = h
    /\ \A h \in Calls : call[h] = "write" =>
         lines[h] = Changed(table[request[h].session], request[h])
    /\ \A h \in Calls : call[h] = "answer" => lines[h] = table[request[h].session]
    /\ \A h \in Calls : request[h].qty \in 0..MaxQty

LEMMA TurnsInit == CartInit => TurnsInv
<1>1. 0 \in 0..MaxQty
  BY CartConstants
<1> QED BY <1>1 DEF CartInit, TurnsInv, Busy, Ask

\* What arrives is a request within the bound, for a session nobody works on.
LEMMA TurnsCall ==
  ASSUME TakingTurns, IInv, TurnsInv, NEW h \in Calls, Call(h)
  PROVE  TurnsInv'
<1>1. AnyProduct \in Products /\ AnyPrice \in Prices
  BY CartConstants DEF AnyProduct, AnyPrice
<1>2. 0 \in 0..MaxQty /\ \A q \in 0..MaxQty : q \in Ints
  BY CartConstants, MaxIntConstant DEF Ints
<1>a. \A k \in Kinds, s \in Sessions, p \in Products, c \in Prices, q \in 0..MaxQty :
        Ask(k, s, p, c, q) \in Op /\ Ask(k, s, p, c, q).qty \in 0..MaxQty
  BY <1>2 DEF Ask, Op
<1>3. PICK op \in Op : Receive(h, op) /\ op.qty \in 0..MaxQty
  BY <1>1, <1>2, <1>a DEF Call, Kinds
<1>4. /\ call' = [call EXCEPT ![h] = IF op.kind = "clear" THEN "write" ELSE "read"]
      /\ request' = [request EXCEPT ![h] = op]
      /\ lines' = [lines EXCEPT ![h] = {}]
      /\ table' = table
      /\ ~Busy(h)
      /\ \A g \in Calls : Busy(g) => request[g].session # op.session
  BY <1>3 DEF Receive, Goto, store, TakingTurns
<1>5. call \in [Calls -> Stages] /\ request \in [Calls -> Op] /\ lines \in [Calls -> SUBSET Item]
  BY DEF IInv, CartTypeOK
<1>6. \A g \in Calls \ {h} : call'[g] = call[g] /\ request'[g] = request[g] /\ lines'[g] = lines[g]
  BY <1>4, <1>5
<1>7. request'[h] = op /\ lines'[h] = {}
      /\ (call'[h] = "write" => op.kind = "clear") /\ call'[h] # "answer"
  BY <1>4, <1>5
<1>8. op.kind = "clear" => Changed(table[op.session], op) = {}
  BY DEF Changed, Removes
<1>9. \A g1, g2 \in Calls :
        (Busy(g1) /\ Busy(g2) /\ request[g1].session = request[g2].session => g1 = g2)'
  BY <1>4, <1>6, <1>7 DEF TurnsInv, Busy
<1>10. \A g \in Calls : (call[g] = "write" =>
         lines[g] = Changed(table[request[g].session], request[g]))'
  <2> TAKE g \in Calls
  <2>1. CASE g = h
    BY <1>4, <1>7, <1>8, <2>1
  <2>2. CASE g # h
    BY <1>4, <1>6, <2>2 DEF TurnsInv
  <2> QED BY <2>1, <2>2
<1>11. \A g \in Calls : request'[g].qty \in 0..MaxQty
  BY <1>3, <1>6, <1>7 DEF TurnsInv
<1>12. \A g \in Calls : (call[g] = "answer" => lines[g] = table[request[g].session])'
  BY <1>4, <1>6, <1>7 DEF TurnsInv
<1> QED BY <1>9, <1>10, <1>11, <1>12 DEF TurnsInv

LEMMA TurnsRead ==
  ASSUME TakingTurns, IInv, TurnsInv, NEW h \in Calls, Read(h)
  PROVE  TurnsInv'
<1>1. call \in [Calls -> Stages] /\ lines \in [Calls -> SUBSET Item]
      /\ request[h] \in Op /\ table[request[h].session] \in Carts
  BY DEF IInv, CartTypeOK, Op, Carts
<1>2. /\ lines' = [lines EXCEPT ![h] = Changed(table[request[h].session], request[h])]
      /\ call' = [call EXCEPT ![h] = IF Saves(table[request[h].session], request[h])
                                       THEN "write" ELSE "answer"]
      /\ table' = table /\ request' = request /\ Busy(h)
  BY DEF Read, Readable, TakingTurns, Goto, store, Busy
<1>3. \A g \in Calls : Busy(g)' => Busy(g)
  BY <1>1, <1>2 DEF Busy
<1>4. \A g \in Calls : (call[g] = "write" =>
         lines[g] = Changed(table[request[g].session], request[g]))'
  <2> TAKE g \in Calls
  <2>1. CASE g = h
    BY <1>1, <1>2, <2>1
  <2>2. CASE g # h
    BY <1>1, <1>2, <2>2 DEF TurnsInv
  <2> QED BY <2>1, <2>2
<1>5. \A g \in Calls : (call[g] = "answer" => lines[g] = table[request[g].session])'
  <2> TAKE g \in Calls
  <2>1. CASE g = h
    BY <1>1, <1>2, <2>1, UnsavedIsSame
  <2>2. CASE g # h
    BY <1>1, <1>2, <2>2 DEF TurnsInv
  <2> QED BY <2>1, <2>2
<1> QED BY <1>2, <1>3, <1>4, <1>5 DEF TurnsInv

\* The handler that writes or ends is the only one at work on its session.
LEMMA TurnsStep ==
  ASSUME IInv, TurnsInv, NEW h \in Calls, Busy(h), Put(h) \/ UNCHANGED store,
         UNCHANGED <<request, lines>>, NEW s \in {"answer", "ok", "failed"}, Goto(h, s),
         s = "answer" => Put(h)
  PROVE  TurnsInv'
<1>1. call \in [Calls -> Stages] /\ table \in [Sessions -> SUBSET Item]
      /\ \A g \in Calls : request[g].session \in Sessions
  BY DEF IInv, CartTypeOK, Op
<1>2. call'[h] = s /\ \A g \in Calls \ {h} : call'[g] = call[g]
  BY <1>1 DEF Goto
<1>3. \A g \in Calls : Busy(g)' => Busy(g)
  BY <1>2 DEF Busy
<1>4. \A g \in Calls \ {h} : Busy(g) => table'[request[g].session] = table[request[g].session]
  <2> SUFFICES ASSUME NEW g \in Calls \ {h}, Busy(g)
               PROVE  table'[request[g].session] = table[request[g].session]
    OBVIOUS
  <2>1. request[g].session # request[h].session
    BY DEF TurnsInv
  <2> QED BY <1>1, <2>1 DEF Put, store
<1>5. \A g \in Calls : (call[g] = "write" =>
         lines[g] = Changed(table[request[g].session], request[g]))'
  <2> SUFFICES ASSUME NEW g \in Calls, call'[g] = "write"
               PROVE  lines[g] = Changed(table'[request[g].session], request[g])
    OBVIOUS
  <2>1. g # h /\ Busy(g) /\ call[g] = "write"
    BY <1>2 DEF Busy
  <2> QED BY <1>4, <2>1 DEF TurnsInv
<1>6. \A g \in Calls : (call[g] = "answer" => lines[g] = table[request[g].session])'
  <2> SUFFICES ASSUME NEW g \in Calls, call'[g] = "answer"
               PROVE  lines[g] = table'[request[g].session]
    OBVIOUS
  <2>1. CASE g = h
    BY <1>1, <1>2, <2>1 DEF Put
  <2>2. CASE g # h
    BY <1>2, <1>4, <2>2 DEF Busy, TurnsInv
  <2> QED BY <2>1, <2>2
<1> QED BY <1>3, <1>5, <1>6 DEF TurnsInv

LEMMA TurnsNext ==
  ASSUME TakingTurns, IInv, TurnsInv, [CartNext]_cartVars
  PROVE  TurnsInv'
<1>1. ASSUME NEW h \in Calls, Call(h) PROVE TurnsInv'
  BY <1>1, TurnsCall
<1>2. ASSUME NEW h \in Calls, Read(h) PROVE TurnsInv'
  BY <1>2, TurnsRead
<1>3. ASSUME NEW h \in Calls, Write(h) PROVE TurnsInv'
  BY <1>3, TurnsStep DEF Write, Busy
<1>4. ASSUME NEW h \in Calls, Reply(h) PROVE TurnsInv'
  BY <1>4, TurnsStep DEF Reply, Busy
<1>5. ASSUME NEW h \in Calls, Fail(h) PROVE TurnsInv'
  BY <1>5, TurnsStep DEF Fail
<1>6. CASE UNCHANGED cartVars
  BY <1>6 DEF cartVars, TurnsInv, Busy
<1> QED BY <1>1, <1>2, <1>3, <1>4, <1>5, <1>6 DEF CartNext, Serve, Quiescent

-----------------------------------------------------------------------------
(* What a handler answers with.                                            *)

\* What a handler is about to answer with is, or was, stored.
HeldInv == \A h \in Calls : call[h] = "answer" => lines[h] \in Versions(request[h].session)

\* A write makes the document it replaces one of the earlier versions.
LEMMA PutKeeps ==
  ASSUME CartTypeOK, NEW h \in Calls, Put(h) \/ UNCHANGED store, NEW s \in Sessions
  PROVE  Versions(s) \subseteq Versions(s)'
<1>1. past \in [Sessions -> SUBSET (SUBSET Item)] /\ table \in [Sessions -> SUBSET Item]
      /\ request[h].session \in Sessions
  BY DEF CartTypeOK, Op
<1>2. CASE Put(h)
  BY <1>1, <1>2 DEF Put, Versions
<1>3. CASE UNCHANGED store
  BY <1>3 DEF store, Versions
<1> QED BY <1>2, <1>3

LEMMA HeldNext == IInv /\ HeldInv /\ [CartNext]_cartVars => HeldInv'
<1> SUFFICES ASSUME IInv, HeldInv, [CartNext]_cartVars, NEW h \in Calls, call'[h] = "answer"
             PROVE  (lines[h] \in Versions(request[h].session))'
  BY DEF HeldInv
<1>0. /\ call \in [Calls -> Stages] /\ request \in [Calls -> Op]
      /\ lines \in [Calls -> Carts] /\ table \in [Sessions -> Carts]
      /\ \A g \in Calls : request[g].session \in Sessions
      /\ \A s \in Sessions : past[s] \subseteq Carts /\ Versions(s) \subseteq Carts
  BY DEF IInv, CartTypeOK, Op, Carts, Versions
<1>1. ASSUME NEW g \in Calls, Call(g) PROVE (lines[h] \in Versions(request[h].session))'
  <2>1. PICK op : Receive(g, op)
    BY <1>1 DEF Call
  <2>2. h # g /\ call[h] = "answer" /\ request'[h] = request[h] /\ lines'[h] = lines[h]
    BY <1>0, <2>1 DEF Receive, Goto
  <2>3. UNCHANGED <<table, past>>
    BY <2>1 DEF Receive, store
  <2> QED BY <2>2, <2>3 DEF HeldInv, Versions
<1>2. ASSUME NEW g \in Calls, Read(g) PROVE (lines[h] \in Versions(request[h].session))'
  <2>1. UNCHANGED <<table, past, request>>
    BY <1>2 DEF Read, store
  <2>2. CASE h = g
    <3>1. PICK items \in Readable(request[h].session) :
            lines'[h] = Changed(items, request[h]) /\ ~Saves(items, request[h])
      BY <1>0, <1>2, <2>2 DEF Read, Goto
    <3>2. items \in Versions(request[h].session)
      BY DEF Readable, Versions
    <3>3. lines'[h] = items
      BY <1>0, <3>1, <3>2, UnsavedIsSame
    <3> QED BY <2>1, <3>2, <3>3 DEF Versions
  <2>3. CASE h # g
    <3>1. call[h] = "answer" /\ lines'[h] = lines[h]
      BY <1>0, <1>2, <2>3 DEF Read, Goto
    <3> QED BY <2>1, <3>1 DEF HeldInv, Versions
  <2> QED BY <2>2, <2>3
<1>3. ASSUME NEW g \in Calls, Write(g) PROVE (lines[h] \in Versions(request[h].session))'
  <2>1. UNCHANGED <<request, lines>> /\ \A s \in Sessions : Versions(s) \subseteq Versions(s)'
    BY <1>3, PutKeeps DEF Write, IInv
  <2>2. CASE h = g
    BY <1>0, <1>3, <2>1, <2>2 DEF Write, Put, Versions
  <2>3. CASE h # g
    BY <1>0, <1>3, <2>1, <2>3 DEF Write, Goto, HeldInv
  <2> QED BY <2>2, <2>3
<1>4. ASSUME NEW g \in Calls, Reply(g) \/ Fail(g)
      PROVE  (lines[h] \in Versions(request[h].session))'
  <2>1. UNCHANGED <<request, lines>> /\ \A s \in Sessions : Versions(s) \subseteq Versions(s)'
    <3>1. (Put(g) \/ UNCHANGED store) /\ UNCHANGED <<request, lines>>
      BY <1>4 DEF Reply, Fail
    <3> QED BY <3>1, PutKeeps DEF IInv
  <2>2. call[h] = "answer"
    BY <1>0, <1>4 DEF Reply, Fail, Goto
  <2> QED BY <1>0, <2>1, <2>2 DEF HeldInv
<1>5. CASE UNCHANGED cartVars
  BY <1>5 DEF cartVars, HeldInv, Versions
<1> QED BY <1>1, <1>2, <1>3, <1>4, <1>5 DEF CartNext, Serve, Quiescent

\* However calls overlap, read old documents and fail, a handler answers with a cart
\* that was stored, though not always with the one that is stored when it answers:
\* that takes callers that wait for one another and a consistent table.
THEOREM RepliesAreStored == CartSpec => ReplyIsStored
<1> DEFINE Stored == \A h \in Calls : call[h] = "answer" /\ call'[h] = "ok" =>
                        /\ lines[h] \in Versions(request[h].session)
                        /\ SerialSessions /\ ~StaleReads => lines[h] = table[request[h].session]
<1>1. HeldInv /\ (TakingTurns => TurnsInv) /\ [CartNext]_cartVars => [Stored]_cartVars
  BY DEF HeldInv, TurnsInv, TakingTurns
<1>2. CartInit => HeldInv
  BY DEF CartInit, HeldInv
<1>3. CartSpec => []HeldInv
  BY <1>2, HeldNext, Invariance, PTL DEF CartSpec
<1>4. CartSpec => [](TakingTurns => TurnsInv)
  <2>1. CartInit => (TakingTurns => TurnsInv)
    BY TurnsInit
  <2>2. IInv /\ (TakingTurns => TurnsInv) /\ [CartNext]_cartVars => (TakingTurns => TurnsInv)'
    BY TurnsNext DEF TakingTurns
  <2> QED BY <2>1, <2>2, Invariance, PTL DEF CartSpec
<1> QED BY <1>1, <1>3, <1>4, PTL DEF CartSpec, ReplyIsStored

-----------------------------------------------------------------------------
(* The refinement of AtomicCart, for callers that take turns.              *)

\* A document as the function that the abstract cart is.
AsCart(items) ==
    [p \in {it.id : it \in items} |->
        LET it == CHOOSE it \in items : it.id = p
        IN [price |-> it.price, qty |-> it.qty]]

LEMMA CartBarIs == cartBar = [s \in Sessions |-> AsCart(table[s])]
BY DEF cartBar, AsCart

Entry(it) == [price |-> it.price, qty |-> it.qty]

\* A function is the cart of a document if it has just the entries of its lines.
LEMMA AsCartIs ==
  ASSUME NEW items \in Carts, WellFormed(items), NEW f,
         f = [p \in DOMAIN f |-> f[p]],
         \A it \in items : it.id \in DOMAIN f /\ f[it.id] = Entry(it),
         \A p \in DOMAIN f : \E it \in items : it.id = p
  PROVE  AsCart(items) = f
<1>1. DOMAIN f = {it.id : it \in items}
  OBVIOUS
<1>2. \A p \in DOMAIN f : AsCart(items)[p] = f[p]
  <2> TAKE p \in DOMAIN f
  <2> DEFINE it == CHOOSE it \in items : it.id = p
  <2>1. it \in items /\ it.id = p
    OBVIOUS
  <2>2. AsCart(items)[p] = Entry(it)
    BY <1>1 DEF AsCart, Entry
  <2> HIDE DEF it
  <2> QED BY <2>1, <2>2
<1>3. AsCart(items) = [p \in DOMAIN f |-> AsCart(items)[p]]
  BY <1>1 DEF AsCart
<1> QED BY <1>2, <1>3

LEMMA CartEntries ==
  ASSUME NEW items \in Carts, WellFormed(items)
  PROVE  /\ DOMAIN AsCart(items) = {it.id : it \in items}
         /\ \A it \in items : AsCart(items)[it.id] = Entry(it)
<1>1. DOMAIN AsCart(items) = {it.id : it \in items}
  BY DEF AsCart
<1>2. ASSUME NEW it \in items PROVE AsCart(items)[it.id] = Entry(it)
  <2> DEFINE jt == CHOOSE jt \in items : jt.id = it.id
  <2>1. jt \in items /\ jt.id = it.id
    OBVIOUS
  <2>2. AsCart(items)[it.id] = Entry(jt)
    BY DEF AsCart, Entry
  <2>3. jt = it
    BY <2>1 DEF WellFormed
  <2> QED BY <2>2, <2>3
<1> QED BY <1>1, <1>2

\* Writing the change of a cart is a step of the abstract one, or changes nothing.
LEMMA ChangeInCart ==
  ASSUME MaxQty > 0, IInv, NEW op \in Op, op.qty \in 0..MaxQty,
         table' = [table EXCEPT ![op.session] = Changed(table[op.session], op)]
  PROVE  [Atomic!Next]_cartBar
<1> DEFINE s == op.session
           items == table[s]
           new == Changed(items, op)
<1>1. /\ s \in Sessions /\ op.id \in Products /\ op.price \in Prices /\ op.kind \in Kinds
      /\ op.qty \in Nat /\ MaxQty \in Nat /\ MaxQty > 0
  BY CartConstants, MaxIntConstant DEF Op
<1>2. items \in Carts /\ WellFormed(items) /\ table \in [Sessions -> Carts]
  BY <1>1 DEF IInv, CartTypeOK, CartsWellFormed, Versions, Carts
<1>3. new \in Carts /\ WellFormed(new)
  BY <1>2, ChangedSound DEF Sound
<1>4. cartBar[s] = AsCart(items)
  BY <1>1, CartBarIs
<1>5. ASSUME NEW f, AsCart(new) = f PROVE Atomic!Update(s, f)
  <2>1. cartBar' = [t \in Sessions |-> AsCart(table'[t])]
    BY DEF cartBar, AsCart
  <2>2. \A t \in Sessions : AsCart(table'[t]) = IF t = s THEN f ELSE AsCart(table[t])
    BY <1>2, <1>5
  <2>3. cartBar' = [cartBar EXCEPT ![s] = f]
    BY <2>1, <2>2, <1>1, CartBarIs
  <2> QED BY <2>3 DEF Atomic!Update
<1>6. ASSUME new = items PROVE cartBar' = cartBar
  <2>1. table' = table
    BY <1>2, <1>6
  <2> QED BY <2>1 DEF cartBar
<1> DEFINE c == AsCart(items)
<1>7. /\ DOMAIN c = {it.id : it \in items}
      /\ \A it \in items : c[it.id] = Entry(it)
      /\ c = [p \in DOMAIN c |-> c[p]]
  <2>1. c = [p \in DOMAIN c |-> c[p]]
    BY DEF AsCart
  <2> QED BY <2>1, <1>2, CartEntries
<1>8. Line(items, op.id) # {} <=> op.id \in DOMAIN c
  BY <1>7 DEF Line
<1> HIDE DEF c
<1>9. CASE op.kind = "add"
  <2> DEFINE n == Clamped(op.qty)
  <2>1. n \in 1..MaxQty /\ new = Add(items, op)
    <3>1. n \in 1..MaxQty
      BY <1>1 DEF Clamped
    <3>2. new = Add(items, op)
      BY <1>9 DEF Changed, Removes
    <3> QED BY <3>1, <3>2
  <2>2. CASE Line(items, op.id) = {}
    <3> DEFINE x == [id |-> op.id, price |-> op.price, qty |-> n]
               f == [q \in DOMAIN c \cup {op.id} |->
                       IF q = op.id THEN [price |-> op.price, qty |-> n] ELSE c[q]]
    <3>1. new = items \cup {x} /\ x.id = op.id /\ Entry(x) = [price |-> op.price, qty |-> n]
      BY <2>1, <2>2 DEF Add, Entry
    <3>2. \A it \in items : it.id # op.id
      BY <2>2 DEF Line
    <3> HIDE DEF x, n
    <3>3. AsCart(new) = f
      <4>1. \A it \in new : it.id \in DOMAIN f /\ f[it.id] = Entry(it)
        BY <3>1, <3>2, <1>7
      <4>2. \A p \in DOMAIN f : \E it \in new : it.id = p
        BY <3>1, <1>7
      <4> HIDE DEF new
      <4>3. f = [p \in DOMAIN f |-> f[p]]
        OBVIOUS
      <4> HIDE DEF f
      <4> QED BY <4>1, <4>2, <4>3, <1>3, AsCartIs
    <3>4. Atomic!Update(s, f)
      BY <3>3, <1>5
    <3>5. Atomic!Add(s, op.id)
      BY <3>4, <2>1, <2>2, <1>1, <1>4, <1>8 DEF Atomic!Add, c
    <3> QED BY <3>5, <1>1 DEF Atomic!Next
  <2>3. CASE Line(items, op.id) # {}
    <3>1. PICK old \in items : old.id = op.id /\ Line(items, op.id) = {old}
      BY <1>2, <2>3 DEF Line, WellFormed
    <3> DEFINE x == [old EXCEPT !.qty = Plus(@, n)]
               f == [c EXCEPT ![op.id].qty = Plus(@, n)]
    <3>2. old \in Item
      BY <1>2 DEF Carts
    <3>3. new = (items \ {old}) \cup {x}
      BY <2>1, <2>3, <3>1 DEF Add
    <3>4. x.id = op.id /\ Entry(x) = [Entry(old) EXCEPT !.qty = Plus(@, n)]
      BY <3>1, <3>2 DEF Item, Entry
    <3>5. DOMAIN f = DOMAIN c /\ f[op.id] = Entry(x)
          /\ \A p \in DOMAIN c \ {op.id} : f[p] = c[p]
      BY <3>1, <3>4, <1>7
    <3>6. \A it \in items \ {old} : it.id # op.id
      BY <3>1 DEF Line
    <3>7. f = [p \in DOMAIN f |-> f[p]]
      BY <1>7
    <3> HIDE DEF x, n, f
    <3>8. AsCart(new) = f
      <4>1. \A it \in new : it.id \in DOMAIN f /\ f[it.id] = Entry(it)
        BY <3>1, <3>3, <3>4, <3>5, <3>6, <1>7
      <4>2. \A p \in DOMAIN f : \E it \in new : it.id = p
        BY <3>1, <3>3, <3>4, <3>5, <1>7
      <4> HIDE DEF new
      <4> QED BY <4>1, <4>2, <3>7, <1>3, AsCartIs
    <3>9. Atomic!Update(s, f)
      BY <3>8, <1>5
    <3>10. Atomic!Add(s, op.id)
      BY <3>9, <2>1, <2>3, <1>4, <1>8 DEF Atomic!Add, Atomic!Plus, Atomic!Fits, Plus, Fits, c, f
    <3> QED BY <3>10, <1>1 DEF Atomic!Next
  <2> QED BY <2>2, <2>3
<1>10. CASE Removes(op)
  <2> DEFINE f == [q \in DOMAIN c \ {op.id} |-> c[q]]
  <2>1. new = {it \in items : it.id # op.id}
    BY <1>10 DEF Changed, Removes, Remove, Line
  <2>2. AsCart(new) = f
    <3>1. \A it \in new : it.id \in DOMAIN f /\ f[it.id] = Entry(it)
      BY <2>1, <1>7
    <3>2. \A p \in DOMAIN f : \E it \in new : it.id = p
      BY <2>1, <1>7
    <3>3. f = [p \in DOMAIN f |-> f[p]]
      OBVIOUS
    <3> HIDE DEF new, f
    <3> QED BY <3>1, <3>2, <3>3, <1>3, AsCartIs
  <2>3. Atomic!Update(s, f)
    BY <2>2, <1>5
  <2>4. Atomic!Remove(s, op.id)
    BY <2>3, <1>4 DEF Atomic!Remove, c
  <2> QED BY <2>4, <1>1 DEF Atomic!Next
<1>11. CASE op.kind = "set" /\ ~Removes(op)
  <2>1. new = SetLine(items, op) /\ op.qty \in 1..MaxQty
    BY <1>1, <1>11 DEF Changed, Removes
  <2>2. CASE Line(items, op.id) = {}
    <3>1. new = items
      BY <2>1, <2>2 DEF SetLine
    <3> QED BY <3>1, <1>6
  <2>3. CASE Line(items, op.id) # {}
    <3>1. PICK old \in items : old.id = op.id /\ Line(items, op.id) = {old}
      BY <1>2, <2>3 DEF Line, WellFormed
    <3> DEFINE x == [old EXCEPT !.qty = op.qty]
               f == [c EXCEPT ![op.id].qty = op.qty]
    <3>2. old \in Item
      BY <1>2 DEF Carts
    <3>3. new = (items \ {old}) \cup {x}
      BY <2>1, <3>1 DEF SetLine
    <3>4. x.id = op.id /\ Entry(x) = [Entry(old) EXCEPT !.qty = op.qty]
      BY <3>1, <3>2 DEF Item, Entry
    <3>5. DOMAIN f = DOMAIN c /\ f[op.id] = Entry(x)
          /\ \A p \in DOMAIN c \ {op.id} : f[p] = c[p]
      BY <3>1, <3>4, <1>7
    <3>6. \A it \in items \ {old} : it.id # op.id
      BY <3>1 DEF Line
    <3>7. f = [p \in DOMAIN f |-> f[p]]
      BY <1>7
    <3> HIDE DEF x, f
    <3>8. AsCart(new) = f
      <4>1. \A it \in new : it.id \in DOMAIN f /\ f[it.id] = Entry(it)
        BY <3>1, <3>3, <3>4, <3>5, <3>6, <1>7
      <4>2. \A p \in DOMAIN f : \E it \in new : it.id = p
        BY <3>1, <3>3, <3>4, <3>5, <1>7
      <4> HIDE DEF new
      <4> QED BY <4>1, <4>2, <3>7, <1>3, AsCartIs
    <3>9. Atomic!Update(s, f)
      BY <3>8, <1>5
    <3>10. Atomic!SetQty(s, op.id)
      BY <3>9, <2>1, <2>3, <1>4, <1>8 DEF Atomic!SetQty, c, f
    <3> QED BY <3>10, <1>1 DEF Atomic!Next
  <2> QED BY <2>2, <2>3
<1>12. CASE op.kind = "clear"
  <2>1. new = {}
    BY <1>12 DEF Changed, Removes
  <2>2. AsCart(new) = Atomic!Empty
    BY <2>1 DEF AsCart, Atomic!Empty
  <2>3. Atomic!Clear(s)
    BY <2>2, <1>5 DEF Atomic!Clear
  <2> QED BY <2>3, <1>1 DEF Atomic!Next
<1>13. CASE op.kind = "get"
  <2>1. new = items
    BY <1>13 DEF Changed, Removes
  <2> QED BY <2>1, <1>6
<1> QED BY <1>1, <1>9, <1>10, <1>11, <1>12, <1>13 DEF Kinds, Removes

\* A handler's step changes the abstract cart at its write, or leaves it alone.
LEMMA NextInCart ==
  ASSUME MaxQty > 0, IInv, TurnsInv, [CartNext]_cartVars
  PROVE  [Atomic!Next]_cartBar
<1>1. ASSUME table' = table PROVE cartBar' = cartBar
  BY <1>1 DEF cartBar
<1>2. ASSUME NEW h \in Calls, call[h] = "write", Put(h) PROVE [Atomic!Next]_cartBar
  <2>1. request[h] \in Op /\ request[h].qty \in 0..MaxQty
        /\ lines[h] = Changed(table[request[h].session], request[h])
    BY <1>2 DEF IInv, CartTypeOK, TurnsInv
  <2>2. table' = [table EXCEPT ![request[h].session] =
                    Changed(table[request[h].session], request[h])]
    BY <1>2, <2>1 DEF Put
  <2> QED BY <2>1, <2>2, ChangeInCart
<1>3. ASSUME NEW h \in Calls, Call(h) PROVE table' = table
  BY <1>3 DEF Call, Receive, store
<1>4. ASSUME NEW h \in Calls, Read(h) PROVE table' = table
  BY <1>4 DEF Read, store
<1>5. ASSUME NEW h \in Calls, Write(h) PROVE [Atomic!Next]_cartBar
  BY <1>2, <1>5 DEF Write
<1>6. ASSUME NEW h \in Calls, Fail(h) PROVE [Atomic!Next]_cartBar
  BY <1>1, <1>2, <1>6 DEF Fail, store
<1>7. ASSUME NEW h \in Calls, Reply(h) PROVE table' = table
  BY <1>7 DEF Reply, store
<1>8. CASE UNCHANGED cartVars
  BY <1>8, <1>1 DEF cartVars
<1> QED BY <1>1, <1>3, <1>4, <1>5, <1>6, <1>7, <1>8 DEF CartNext, Serve, Quiescent

\* While callers take turns on a session of a consistent table, every call is one
\* operation of the abstract cart or none, also when the store fails: it is never
\* half done, and a line keeps its first price until it is removed.
THEOREM CallsAreAtomic == TakingTurns /\ MaxQty > 0 => (CartSpec => ImplementsAtomicCart)
<1> SUFFICES ASSUME TakingTurns, MaxQty > 0 PROVE CartSpec => ImplementsAtomicCart
  OBVIOUS
<1>1. CartInit => Atomic!Init
  <2> SUFFICES ASSUME CartInit PROVE cartBar = [s \in Sessions |-> Atomic!Empty]
    BY DEF Atomic!Init
  <2>1. \A s \in Sessions : AsCart(table[s]) = Atomic!Empty
    BY DEF CartInit, AsCart, Atomic!Empty
  <2> QED BY <2>1, CartBarIs
<1>2. IInv /\ TurnsInv /\ [CartNext]_cartVars => [Atomic!Next]_cartBar
  BY NextInCart
<1>3. IInv /\ TurnsInv /\ [CartNext]_cartVars => TurnsInv'
  BY TurnsNext
<1>4. CartSpec => [](IInv /\ TurnsInv)
  BY Invariance, TurnsInit, <1>3, PTL DEF CartSpec
<1> QED BY <1>1, <1>2, <1>4, PTL DEF CartSpec, ImplementsAtomicCart, Atomic!Spec

-----------------------------------------------------------------------------
(* What the quantities of a cart add up to, for calls that overlap, read    *)
(* old documents and fail.                                                  *)

\* The calls of a kind that may have had their effect: they have read the cart.
Applied(kind, s, p) ==
    {h \in Calls : call[h] \notin {"idle", "read"} /\ request[h].kind = kind
                   /\ request[h].session = s /\ request[h].id = p}

Units(A) == SumOver([h \in A |-> Qty(h)], A)
Bases(S) == {0} \cup {request[h].qty : h \in S}

\* A line is owed to calls if one of them added it at its price, and its quantity is
\* no more than they added on top of one that was set.
Owed(it, A, S) ==
    /\ \E h \in A : request[h].price = it.price
    /\ \E base \in Bases(S) : it.qty <= base + Units(A)
Backed(s, it) == Owed(it, Applied("add", s, it.id), Applied("set", s, it.id))

Started == {h \in Calls : call[h] # "idle"}

\* Every line that is stored, was stored or may be stored is owed to calls that have
\* read.  A handler that adds has not read when the line it adds to was backed, so it
\* is never counted twice.
CopyBacked(h) == \A it \in lines[h] : Backed(request[h].session, it)
BackedInv ==
    /\ IsFiniteSet(Started)
    /\ \A s \in Sessions : \A items \in Versions(s) : \A it \in items : Backed(s, it)
    /\ \A h \in Calls : CopyBacked(h)
    /\ \A h \in Calls : call[h] \in {"idle", "read"} => lines[h] = {}

LEMMA BackedInit == CartInit => BackedInv
<1> SUFFICES ASSUME CartInit PROVE BackedInv
  OBVIOUS
<1>1. Started = {}
  BY DEF CartInit, Started
<1> QED BY <1>1, FS_EmptySet DEF CartInit, BackedInv, CopyBacked, Versions

LEMMA AppliedStarted ==
  ASSUME BackedInv, NEW k, NEW s, NEW p
  PROVE  IsFiniteSet(Applied(k, s, p)) /\ Applied(k, s, p) \subseteq Calls
<1>1. Applied(k, s, p) \subseteq Started
  BY DEF Applied, Started
<1> QED BY <1>1, FS_Subset DEF BackedInv, Applied

LEMMA QtyIsNat == CartTypeOK => \A h \in Calls : Qty(h) \in Nat /\ Qty(h) > 0 /\ request[h].qty \in Int
BY ClampedInt, IntsAreInt DEF CartTypeOK, Qty, Op

\* More calls owe what fewer did.
LEMMA OwedMore ==
  ASSUME CartTypeOK, NEW A \in SUBSET Calls, NEW B \in SUBSET A, IsFiniteSet(A),
         NEW S \in SUBSET Calls, NEW R \in SUBSET S, NEW it \in Item, Owed(it, B, R)
  PROVE  Owed(it, A, S)
<1>1. \A h \in Calls : Qty(h) \in Nat /\ request[h].qty \in Int
  BY QtyIsNat
<1>2. IsFiniteSet(B)
  BY FS_Subset
<1> DEFINE v == [h \in B |-> Qty(h)]
           w == [h \in A |-> Qty(h)]
<1>3. /\ \A h \in B : v[h] \in Nat /\ w[h] \in Nat /\ v[h] <= w[h]
      /\ \A h \in A : w[h] \in Nat
  BY <1>1
<1> HIDE DEF v, w
<1>4. SumOver(v, B) \in Nat /\ SumOver(w, A) \in Nat
  BY <1>2, <1>3, SumNat
<1>5. SumOver(v, B) <= SumOver(w, A)
  BY <1>3, SumGrows
<1>6. Units(B) \in Nat /\ Units(A) \in Nat /\ Units(B) <= Units(A)
  BY <1>4, <1>5 DEF v, w, Units
<1>7. PICK base \in Bases(R) : it.qty <= base + Units(B)
  BY DEF Owed
<1>8. base \in Bases(S) /\ base \in Int /\ it.qty \in Int
  BY <1>1, IntsAreInt DEF Bases, Item
<1>9. it.qty <= base + Units(A)
  BY <1>6, <1>7, <1>8
<1> QED BY <1>8, <1>9 DEF Owed

\* A step leaves the requests of calls that have read alone, and they stay read.
LEMMA OwedStays ==
  ASSUME CartTypeOK, CartTypeOK', BackedInv, IsFiniteSet(Started'),
         \A h \in Calls : call[h] \notin {"idle", "read"} =>
            call'[h] \notin {"idle", "read"} /\ request'[h] = request[h],
         NEW s \in Sessions, NEW it \in Item, Backed(s, it)
  PROVE  Backed(s, it)'
<1> DEFINE A == Applied("add", s, it.id)
           S == Applied("set", s, it.id)
<1>1. A \subseteq A' /\ S \subseteq S' /\ A' \subseteq Calls /\ S' \subseteq Calls
  BY DEF Applied
<1>2. \A h \in A \cup S : request'[h] = request[h] /\ Qty(h)' = Qty(h)
  BY DEF Applied, Qty
<1>3. IsFiniteSet(A')
  <2>1. A' \subseteq Started'
    BY DEF Applied, Started
  <2> QED BY <2>1, FS_Subset
<1>4. Owed(it, A, S)
  BY DEF Backed
<1> HIDE DEF A, S
<1>5. (\E h \in A : request'[h].price = it.price) /\ Bases(S) = {0} \cup {request'[h].qty : h \in S}
  BY <1>2, <1>4 DEF Owed, Bases
<1>6. [h \in A |-> Qty(h)] = [h \in A |-> Qty(h)']
  BY <1>2
<1> DEFINE OwedNext(B, R) ==
             /\ \E h \in B : request'[h].price = it.price
             /\ \E base \in {0} \cup {request'[h].qty : h \in R} :
                  it.qty <= base + SumOver([h \in B |-> Qty(h)'], B)
<1>7. OwedNext(A, S)
  BY <1>4, <1>5, <1>6 DEF Owed, Units
<1>8. OwedNext(A', S')
  <2>1. \A h \in Calls : Qty(h)' \in Nat /\ request'[h].qty \in Int
    BY ClampedInt, IntsAreInt DEF CartTypeOK, Qty, Op
  <2>2. PICK base \in {0} \cup {request'[h].qty : h \in S} :
               it.qty <= base + SumOver([h \in A |-> Qty(h)'], A)
    BY <1>7
  <2> DEFINE v == [h \in A |-> Qty(h)']
             w == [h \in A' |-> Qty(h)']
  <2>3. /\ \A h \in A : v[h] \in Nat /\ w[h] \in Nat /\ v[h] <= w[h]
        /\ \A h \in A' : w[h] \in Nat
    BY <1>1, <2>1
  <2> HIDE DEF v, w
  <2>4. IsFiniteSet(A) /\ A \in SUBSET (A')
    BY <1>1, <1>3, FS_Subset
  <2>5. SumOver(v, A) \in Nat /\ SumOver(w, A') \in Nat
    BY <1>3, <2>3, <2>4, SumNat
  <2>6. SumOver(v, A) <= SumOver(w, A')
    BY <1>3, <2>3, <2>4, SumGrows
  <2>7. base \in {0} \cup {request'[h].qty : h \in S'} /\ base \in Int /\ it.qty \in Int
    BY <1>1, <2>1, IntsAreInt DEF Item
  <2>8. it.qty <= base + SumOver(w, A')
    BY <2>2, <2>5, <2>6, <2>7 DEF v
  <2> QED BY <1>1, <1>7, <2>7, <2>8 DEF w
<1>9. Owed(it, A, S)' <=> OwedNext(A', S')
  BY DEF Owed, Units, Bases
<1> QED BY <1>8, <1>9 DEF Backed, A, S

\* What a line of a changed cart comes from.
LEMMA ChangedFrom ==
  ASSUME NEW items \in Carts, NEW op \in Op, NEW it \in Changed(items, op)
  PROVE  \/ it \in items
         \/ /\ op.kind = "add" /\ it.id = op.id /\ it.price = op.price
            /\ it.qty = Clamped(op.qty)
         \/ /\ op.kind = "add" /\ it.id = op.id
            /\ \E old \in items : /\ old.id = it.id /\ old.price = it.price
                                  /\ it.qty <= old.qty + Clamped(op.qty)
         \/ /\ op.kind = "set" /\ it.id = op.id /\ it.qty = op.qty
            /\ \E old \in items : old.id = it.id /\ old.price = it.price
<1> DEFINE n == Clamped(op.qty)
<1>1. op.kind \in Kinds /\ items \subseteq Item /\ n \in Ints /\ n > 0
  BY ClampedInt DEF Op, Carts
<1>2. CASE op.kind = "add"
  <2>1. Changed(items, op) = Add(items, op)
    BY <1>2 DEF Changed, Removes
  <2>2. CASE Line(items, op.id) = {}
    <3>1. it \in items \/ it = [id |-> op.id, price |-> op.price, qty |-> n]
      BY <2>1, <2>2 DEF Add
    <3> QED BY <1>2, <3>1
  <2>3. CASE Line(items, op.id) # {}
    <3>1. it \in items \/ \E old \in Line(items, op.id) : it = [old EXCEPT !.qty = Plus(@, n)]
      BY <2>1, <2>3 DEF Add
    <3>2. ASSUME NEW old \in Line(items, op.id), it = [old EXCEPT !.qty = Plus(@, n)]
          PROVE  it.id = op.id /\ old.id = it.id /\ old.price = it.price /\ it.qty <= old.qty + n
      <4>1. old \in Item /\ old.id = op.id /\ old.qty \in Ints
        BY <1>1 DEF Line, Item
      <4> HIDE DEF n
      <4>2. Plus(old.qty, n) <= old.qty + n
        BY <1>1, <4>1, PlusInt
      <4> QED BY <3>2, <4>1, <4>2 DEF Item
    <3>3. Line(items, op.id) \subseteq items
      BY DEF Line
    <3> QED BY <1>2, <3>1, <3>2, <3>3
  <2> QED BY <2>2, <2>3
<1>3. CASE op.kind = "set" /\ ~Removes(op)
  <2>1. Changed(items, op) = SetLine(items, op)
    BY <1>3 DEF Changed
  <2>2. it \in items \/ \E old \in Line(items, op.id) : it = [old EXCEPT !.qty = op.qty]
    BY <2>1 DEF SetLine
  <2>3. ASSUME NEW old \in Line(items, op.id), it = [old EXCEPT !.qty = op.qty]
        PROVE  it.id = op.id /\ old.id = it.id /\ old.price = it.price /\ it.qty = op.qty
    <3>1. old \in Item /\ old.id = op.id
      BY <1>1 DEF Line
    <3> QED BY <2>3, <3>1 DEF Item
  <2>4. Line(items, op.id) \subseteq items
    BY DEF Line
  <2> QED BY <1>3, <2>2, <2>3, <2>4
<1>4. CASE Removes(op)
  <2>1. Changed(items, op) = Remove(items, op.id)
    BY <1>4 DEF Changed, Removes
  <2> QED BY <2>1 DEF Remove
<1>5. CASE op.kind \in {"get", "clear"}
  BY <1>5 DEF Changed, Removes
<1> QED BY <1>1, <1>2, <1>3, <1>4, <1>5 DEF Kinds, Removes

\* Only calls that start add to those that have.
LEMMA StartedFinite ==
  ASSUME BackedInv, NEW h \in Calls, \A g \in Calls \ {h} : call'[g] = call[g]
  PROVE  IsFiniteSet(Started')
<1>1. IsFiniteSet(Started \cup {h})
  BY FS_AddElement DEF BackedInv
<1>2. Started' \subseteq Started \cup {h}
  BY DEF Started
<1> QED BY <1>1, <1>2, FS_Subset

\* What is backed in the tables stays so, for a handler that takes a step.
LEMMA BackedFrame ==
  ASSUME CartTypeOK, CartTypeOK', BackedInv, NEW h \in Calls,
         \A g \in Calls \ {h} : call'[g] = call[g] /\ request'[g] = request[g]
                                /\ lines'[g] = lines[g],
         call[h] \notin {"idle", "read"} => call'[h] \notin {"idle", "read"} /\ request'[h] = request[h]
  PROVE  /\ IsFiniteSet(Started')
         /\ \A s \in Sessions : \A items \in Versions(s) : \A it \in items : Backed(s, it)'
         /\ \A g \in Calls \ {h} : CopyBacked(g)'
         /\ \A g \in Calls \ {h} : call'[g] \in {"idle", "read"} => lines'[g] = {}
         /\ \A s \in Sessions : s = request[h].session => \A it \in lines[h] : Backed(s, it)'
<1>1. IsFiniteSet(Started')
  BY StartedFinite
<1>2. \A g \in Calls : call[g] \notin {"idle", "read"} =>
            call'[g] \notin {"idle", "read"} /\ request'[g] = request[g]
  OBVIOUS
<1>3. ASSUME NEW s \in Sessions, NEW it \in Item, Backed(s, it) PROVE Backed(s, it)'
  BY <1>1, <1>2, <1>3, OwedStays
<1>4. ASSUME NEW s \in Sessions, NEW items \in Versions(s), NEW it \in items PROVE Backed(s, it)'
  <2>1. it \in Item
    BY DEF CartTypeOK, Versions
  <2> QED BY <1>3, <2>1 DEF BackedInv
<1>5. ASSUME NEW g \in Calls, NEW s \in Sessions, s = request[g].session, NEW it \in lines[g]
      PROVE  Backed(s, it)'
  <2>1. it \in Item
    BY DEF CartTypeOK
  <2>2. Backed(s, it)
    BY <1>5 DEF BackedInv, CopyBacked
  <2> QED BY <1>3, <2>1, <2>2
<1>6. ASSUME NEW g \in Calls \ {h} PROVE CopyBacked(g)'
  <2>1. PICK s \in Sessions : s = request[g].session
    BY DEF CartTypeOK, Op
  <2>2. request'[g].session = s /\ lines'[g] = lines[g]
    BY <2>1
  <2>3. \A it \in lines[g] : Backed(s, it)'
    BY <1>5, <2>1
  <2>4. CopyBacked(g)' <=> \A it \in lines'[g] : Owed(it, Applied("add", request[g].session, it.id),
                                                 Applied("set", request[g].session, it.id))'
    BY DEF CopyBacked, Backed
  <2> QED BY <2>2, <2>3, <2>4 DEF Backed
<1> QED BY <1>1, <1>4, <1>5, <1>6 DEF BackedInv

LEMMA BackedCall ==
  ASSUME CartTypeOK, CartTypeOK', BackedInv, NEW h \in Calls, Call(h)
  PROVE  BackedInv'
<1>1. PICK op : Receive(h, op)
  BY DEF Call
<1>2. /\ call[h] = "idle" /\ lines'[h] = {} /\ UNCHANGED <<table, past>>
      /\ \A g \in Calls \ {h} : call'[g] = call[g] /\ request'[g] = request[g] /\ lines'[g] = lines[g]
  BY <1>1 DEF Call, Receive, Goto, store, CartTypeOK
<1>3. /\ IsFiniteSet(Started')
      /\ \A s \in Sessions : \A items \in Versions(s) : \A it \in items : Backed(s, it)'
      /\ \A g \in Calls \ {h} : CopyBacked(g)'
      /\ \A g \in Calls \ {h} : call'[g] \in {"idle", "read"} => lines'[g] = {}
  BY <1>2, BackedFrame
<1>4. \A s \in Sessions : Versions(s)' = Versions(s)
  BY <1>2 DEF Versions
<1>5. \A s \in Sessions : \A items \in Versions(s)' : \A it \in items : Backed(s, it)'
  BY <1>3, <1>4
<1>6. CopyBacked(h)'
  BY <1>2 DEF CopyBacked
<1> QED BY <1>2, <1>3, <1>5, <1>6 DEF BackedInv

\* A handler that reads joins the calls that have: what it read is owed without it.
LEMMA BackedRead ==
  ASSUME IInv, IInv', BackedInv, NEW h \in Calls, Read(h)
  PROVE  BackedInv'
<1> DEFINE op == request[h]
<1>0. CartTypeOK /\ CartTypeOK' /\ op \in Op /\ op.session \in Sessions
  BY DEF IInv, CartTypeOK, Op
<1>1. PICK items \in Readable(op.session) : lines' = [lines EXCEPT ![h] = Changed(items, op)]
  BY DEF Read
<1>2. /\ call[h] = "read" /\ call'[h] \notin {"idle", "read"} /\ UNCHANGED <<table, past, request>>
      /\ \A g \in Calls \ {h} : call'[g] = call[g] /\ request'[g] = request[g] /\ lines'[g] = lines[g]
  BY <1>0, <1>1 DEF Read, Goto, store, CartTypeOK
<1>3. /\ IsFiniteSet(Started')
      /\ \A t \in Sessions : \A it2 \in Versions(t) : \A it \in it2 : Backed(t, it)'
      /\ \A g \in Calls \ {h} : CopyBacked(g)'
      /\ \A g \in Calls \ {h} : call'[g] \in {"idle", "read"} => lines'[g] = {}
  BY <1>0, <1>2, BackedFrame
<1>4. items \in Versions(op.session) /\ items \in Carts /\ lines'[h] = Changed(items, op)
  <2>1. items \in Versions(op.session)
    BY DEF Readable, Versions
  <2> QED BY <1>0, <1>1, <2>1 DEF Versions, CartTypeOK, Carts
<1> DEFINE s == op.session
<1>5. ASSUME NEW t \in Sessions, t = s, NEW it \in Changed(items, op) PROVE Backed(t, it)'
  <2> DEFINE A == Applied("add", t, it.id)
             S == Applied("set", t, it.id)
             n == Clamped(op.qty)
  <2>1. CASE it \in items
    BY <1>3, <1>4, <1>5, <2>1
  <2>2. IsFiniteSet(A) /\ h \notin A /\ A \subseteq Calls /\ h \notin S /\ S \subseteq Calls
        /\ IsFiniteSet(S)
    <3>1. IsFiniteSet(A) /\ A \subseteq Calls /\ IsFiniteSet(S) /\ S \subseteq Calls
      BY AppliedStarted
    <3> QED BY <1>2, <3>1 DEF Applied
  <2>3. \A g \in Calls : Qty(g)' = Qty(g) /\ Qty(g) \in Nat /\ request'[g] = request[g]
                         /\ request[g].qty \in Int
    BY <1>0, <1>2, QtyIsNat DEF Qty
  <2>4. it \in Item /\ it.qty \in Int /\ op.qty \in Int /\ n \in Nat /\ n = Qty(h)
    <3>1. WellFormed(items)
      BY <1>4, <1>0 DEF IInv, CartsWellFormed
    <3>2. it \in Item
      BY <1>0, <1>4, <3>1, ChangedSound DEF Carts, Sound
    <3> QED BY <1>0, <3>2, ClampedInt, IntsAreInt DEF Qty, Op, Item
  <2>5. CASE op.kind = "add" /\ it.id = op.id
    <3>1. A' = A \cup {h} /\ S' = S
      BY <1>2, <1>5, <2>5 DEF Applied
    <3> DEFINE w == [g \in A \cup {h} |-> Qty(g)]
               v == [g \in A |-> Qty(g)]
    <3>2. /\ \A g \in A \cup {h} : w[g] \in Nat
          /\ \A g \in A : v[g] = w[g] /\ v[g] \in Nat
          /\ w[h] = n
      BY <2>2, <2>3, <2>4
    <3>3. Units(A)' = SumOver(w, A \cup {h})
      <4>1. [g \in A' |-> Qty(g)'] = [g \in A \cup {h} |-> Qty(g)]
        BY <2>2, <2>3, <3>1
      <4> QED BY <3>1, <4>1 DEF Units
    <3>4. Units(A) = SumOver(v, A)
      BY DEF Units
    <3> HIDE DEF w, v, A, S, n
    <3>5. SumOver(w, A \cup {h}) = n + SumOver(w, A)
      BY <2>2, <3>2, SumAdd
    <3>6. SumOver(v, A) = SumOver(w, A)
      BY <2>2, <3>2, SumSame
    <3>7. SumOver(v, A) \in Nat
      BY <2>2, <3>2, SumNat
    <3>8. Units(A)' = n + Units(A) /\ Units(A) \in Nat
      BY <3>3, <3>4, <3>5, <3>6, <3>7
    <3>9. CASE it.price = op.price /\ it.qty = n
      <4>1. h \in A' /\ request'[h].price = it.price
        BY <1>2, <3>1, <3>9
      <4>2. 0 \in Bases(S)' /\ it.qty <= 0 + Units(A)'
        BY <2>4, <3>8, <3>9 DEF Bases
      <4>3. Owed(it, A, S)'
        BY <4>1, <4>2 DEF Owed
      <4> QED BY <4>3 DEF Backed, A, S
    <3>10. ASSUME NEW old \in items, old.id = it.id, old.price = it.price, it.qty <= old.qty + n
           PROVE  Backed(t, it)'
      <4>1. Owed(old, A, S) /\ old \in Item
        BY <1>0, <1>4, <1>5, <3>10 DEF BackedInv, Backed, A, S, Carts
      <4>2. PICK g \in A : request[g].price = old.price
        BY <4>1 DEF Owed
      <4>3. PICK base \in Bases(S) : old.qty <= base + Units(A)
        BY <4>1 DEF Owed
      <4>4. base \in Int /\ old.qty \in Int
        BY <2>2, <2>3, <4>1, IntsAreInt DEF Bases, Item
      <4>5. it.qty <= base + Units(A)'
        BY <2>4, <3>8, <3>10, <4>3, <4>4
      <4>6. Bases(S)' = Bases(S)
        BY <3>1, <2>2, <2>3 DEF Bases
      <4>7. g \in A' /\ request'[g].price = it.price
        BY <2>2, <2>3, <3>1, <3>10, <4>2
      <4>8. Owed(it, A, S)'
        BY <4>3, <4>5, <4>6, <4>7 DEF Owed
      <4> QED BY <4>8 DEF Backed, A, S
    <3>11. \/ it \in items
           \/ it.price = op.price /\ it.qty = n
           \/ \E old \in items : old.id = it.id /\ old.price = it.price /\ it.qty <= old.qty + n
      BY <1>0, <1>4, <2>5, ChangedFrom DEF n
    <3> QED BY <2>1, <3>9, <3>10, <3>11
  <2>6. CASE op.kind = "set" /\ it.id = op.id /\ it.qty = op.qty
             /\ \E old \in items : old.id = it.id /\ old.price = it.price
    <3>1. PICK old \in items : old.id = it.id /\ old.price = it.price
      BY <2>6
    <3>2. S' = S \cup {h} /\ A' = A
      BY <1>2, <1>5, <2>6 DEF Applied
    <3>3. Owed(old, A, S)
      BY <1>0, <1>4, <1>5, <3>1 DEF BackedInv, Backed
    <3>4. Units(A)' = Units(A) /\ Units(A) \in Nat
      <4>1. [g \in A' |-> Qty(g)'] = [g \in A |-> Qty(g)]
        BY <2>2, <2>3, <3>2
      <4> DEFINE v == [g \in A |-> Qty(g)]
      <4>2. \A g \in A : v[g] \in Nat
        BY <2>2, <2>3
      <4>3. Units(A)' = SumOver(v, A) /\ Units(A) = SumOver(v, A)
        BY <3>2, <4>1 DEF Units
      <4> HIDE DEF v, A
      <4> QED BY <2>2, <4>2, <4>3, SumNat
    <3> HIDE DEF A, S
    <3>5. op.qty \in Bases(S)' /\ it.qty <= op.qty + Units(A)'
      BY <1>2, <2>4, <2>6, <3>2, <3>4 DEF Bases
    <3>6. \E g \in A' : request'[g].price = it.price
      BY <1>2, <3>1, <3>2, <3>3 DEF Owed
    <3>7. Owed(it, A, S)'
      BY <3>5, <3>6 DEF Owed
    <3> QED BY <3>7 DEF Backed, A, S
  <2> QED BY <1>0, <1>4, <2>1, <2>5, <2>6, ChangedFrom
<1>6. \A t \in Sessions : Versions(t)' = Versions(t)
  BY <1>2 DEF Versions
<1>7. \A t \in Sessions : \A it2 \in Versions(t)' : \A it \in it2 : Backed(t, it)'
  BY <1>3, <1>6
<1>8. CopyBacked(h)'
  <2>1. PICK t \in Sessions : t = s
    BY <1>0
  <2>2. \A it \in Changed(items, op) : Backed(t, it)'
    BY <1>5, <2>1
  <2>3. request'[h].session = t /\ lines'[h] = Changed(items, op)
    BY <1>2, <1>4, <2>1
  <2> QED BY <2>2, <2>3 DEF CopyBacked, Backed
<1>9. \A g \in Calls : call'[g] \in {"idle", "read"} => lines'[g] = {}
  BY <1>2, <1>3
<1> QED BY <1>3, <1>7, <1>8, <1>9 DEF BackedInv

\* A handler that writes or ends may have stored its copy, which is owed already.
LEMMA BackedEnd ==
  ASSUME CartTypeOK, CartTypeOK', BackedInv, NEW h \in Calls, Put(h) \/ UNCHANGED store,
         UNCHANGED <<request, lines>>, NEW e \in {"answer", "ok", "failed"}, Goto(h, e)
  PROVE  BackedInv'
<1> DEFINE s == request[h].session
<1>1. /\ call'[h] \notin {"idle", "read"}
      /\ \A g \in Calls \ {h} : call'[g] = call[g] /\ request'[g] = request[g] /\ lines'[g] = lines[g]
  BY DEF Goto, CartTypeOK
<1>2. /\ IsFiniteSet(Started')
      /\ \A t \in Sessions : \A items \in Versions(t) : \A it \in items : Backed(t, it)'
      /\ \A g \in Calls \ {h} : CopyBacked(g)'
      /\ \A g \in Calls \ {h} : call'[g] \in {"idle", "read"} => lines'[g] = {}
      /\ \A t \in Sessions : t = request[h].session => \A it \in lines[h] : Backed(t, it)'
  BY <1>1, BackedFrame
<1>3. s \in Sessions
  BY DEF CartTypeOK, Op
<1>4. \A t \in Sessions : \A items \in Versions(t)' :
        items \in Versions(t) \/ (t = s /\ items = lines[h])
  BY <1>3 DEF Put, store, Versions, CartTypeOK
<1>5. \A t \in Sessions : \A items \in Versions(t)' : \A it \in items : Backed(t, it)'
  BY <1>2, <1>4
<1>6. CopyBacked(h)'
  <2>1. PICK t \in Sessions : t = s
    BY <1>3
  <2>2. \A it \in lines[h] : Backed(t, it)'
    BY <1>2, <2>1
  <2>3. request'[h].session = t /\ lines'[h] = lines[h]
    BY <2>1
  <2> QED BY <2>2, <2>3 DEF CopyBacked, Backed
<1> QED BY <1>1, <1>2, <1>5, <1>6 DEF BackedInv

LEMMA BackedNext == IInv /\ IInv' /\ BackedInv /\ [CartNext]_cartVars => BackedInv'
<1> SUFFICES ASSUME IInv, IInv', BackedInv, [CartNext]_cartVars PROVE BackedInv'
  OBVIOUS
<1>0. CartTypeOK /\ CartTypeOK'
  BY DEF IInv
<1>1. ASSUME NEW h \in Calls, Call(h) PROVE BackedInv'
  BY <1>0, <1>1, BackedCall
<1>2. ASSUME NEW h \in Calls, Read(h) PROVE BackedInv'
  BY <1>2, BackedRead
<1>3. ASSUME NEW h \in Calls, Write(h) PROVE BackedInv'
  BY <1>0, <1>3, BackedEnd DEF Write
<1>4. ASSUME NEW h \in Calls, Reply(h) \/ Fail(h) PROVE BackedInv'
  <2>1. Reply(h) => BackedInv'
    BY <1>0, BackedEnd DEF Reply
  <2>2. Fail(h) => BackedInv'
    <3> SUFFICES ASSUME Fail(h) PROVE BackedInv'
      OBVIOUS
    <3>1. (Put(h) \/ UNCHANGED store) /\ UNCHANGED <<request, lines>> /\ Goto(h, "failed")
      BY DEF Fail
    <3> QED BY <1>0, <3>1, BackedEnd
  <2> QED BY <1>4, <2>1, <2>2
<1>5. CASE UNCHANGED cartVars
  <2>1. UNCHANGED <<table, past, call, request, lines>>
    BY <1>5 DEF cartVars
  <2>2. \A h \in Calls : Qty(h)' = Qty(h)
    BY <2>1 DEF Qty
  <2>3. \A k, s, p : Applied(k, s, p)' = Applied(k, s, p) /\ Applied(k, s, p) \subseteq Calls
    BY <2>1 DEF Applied
  <2>4. \A A \in SUBSET Calls : Units(A)' = Units(A)
    <3> TAKE A \in SUBSET Calls
    <3>1. [h \in A |-> Qty(h)'] = [h \in A |-> Qty(h)]
      BY <2>2
    <3> QED BY <3>1 DEF Units
  <2>5. \A A \in SUBSET Calls : Bases(A)' = Bases(A)
    BY <2>1 DEF Bases
  <2>6. \A s, it : Backed(s, it) => Backed(s, it)'
    BY <2>1, <2>3, <2>4, <2>5 DEF Backed, Owed
  <2> QED BY <2>1, <2>6 DEF BackedInv, CopyBacked, Started, Versions
<1> QED BY <1>1, <1>2, <1>3, <1>4, <1>5 DEF CartNext, Serve, Quiescent

\* A line of a stored cart has the price of an add of its product, and at most the
\* quantity of all of them on top of one that was set: whatever is lost when calls
\* overlap, nothing is counted twice.
THEOREM LinesAreExplained == CartSpec => []LinesExplained
<1>1. IInv /\ BackedInv => LinesExplained
  <2> SUFFICES ASSUME IInv, BackedInv, NEW s \in Sessions, NEW it \in table[s]
               PROVE  /\ \E h \in Received("add", s, it.id) : request[h].price = it.price
                      /\ \E base \in {0} \cup {request[h].qty : h \in Received("set", s, it.id)} :
                           it.qty <= base + SumOver([h \in Received("add", s, it.id) |-> Qty(h)],
                                                    Received("add", s, it.id))
    BY DEF LinesExplained
  <2> DEFINE A == Received("add", s, it.id)
             S == Received("set", s, it.id)
             B == Applied("add", s, it.id)
             R == Applied("set", s, it.id)
  <2>1. CartTypeOK /\ it \in Item /\ Owed(it, B, R)
    BY DEF IInv, CartTypeOK, BackedInv, Versions, Backed
  <2>2. A \subseteq Calls /\ S \subseteq Calls /\ B \subseteq A /\ R \subseteq S
    BY DEF Received, Applied
  <2>3. IsFiniteSet(A)
    <3>1. A \subseteq Started
      BY DEF Received, Started
    <3> QED BY <3>1, FS_Subset DEF BackedInv
  <2> HIDE DEF A, S, B, R
  <2>4. Owed(it, A, S)
    BY <2>1, <2>2, <2>3, OwedMore
  <2> QED BY <2>4 DEF Owed, Units, Bases, A, S
<1>2. CartSpec => []BackedInv
  BY Invariance, BackedInit, BackedNext, PTL DEF CartSpec
<1> QED BY <1>1, <1>2, Invariance, PTL
====
