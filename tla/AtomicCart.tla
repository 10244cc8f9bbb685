---- MODULE AtomicCart ----
(***************************************************************************)
(* What a caller of the cart service would like a session's cart to be: a  *)
(* function from the products in it to the price they were first added at  *)
(* and a quantity, an int, changed by one operation at a time.             *)
(***************************************************************************)
EXTENDS MachineInts

CONSTANTS Sessions, Products, Prices, MaxQty

VARIABLE cart

Empty == [p \in {} |-> {}]

Init == cart = [s \in Sessions |-> Empty]

Update(s, new) == cart' = [cart EXCEPT ![s] = new]

Add(s, p) == \E n \in 1..MaxQty :
    \/ /\ p \in DOMAIN cart[s]
       /\ Update(s, [cart[s] EXCEPT ![p].qty = Plus(@, n)])
    \/ /\ p \notin DOMAIN cart[s]
       /\ \E price \in Prices :
            Update(s, [q \in DOMAIN cart[s] \cup {p} |->
                          IF q = p THEN [price |-> price, qty |-> n] ELSE cart[s][q]])

Remove(s, p) ==
    Update(s, [q \in DOMAIN cart[s] \ {p} |-> cart[s][q]])

SetQty(s, p) ==
    /\ p \in DOMAIN cart[s]
    /\ \E n \in 1..MaxQty : Update(s, [cart[s] EXCEPT ![p].qty = n])

Clear(s) == Update(s, Empty)

Next == \E s \in Sessions :
    Clear(s) \/ \E p \in Products : Add(s, p) \/ Remove(s, p) \/ SetQty(s, p)

Spec == Init /\ [][Next]_cart
====
