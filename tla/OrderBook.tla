---- MODULE OrderBook ----
(***************************************************************************)
(* What the orders service promises, whatever its collaborators do: a book *)
(* of orders in which an entry is final, is placed only once it is paid,   *)
(* and is listed and announced only once it is in the book.                *)
(***************************************************************************)
EXTENDS Naturals, Sequences

CONSTANTS
    Requests,  \* order ids
    Users,     \* owners
    Lossy      \* BOOLEAN: a listing may drop older entries of the user's history

VARIABLES
    paid,       \* ids whose charge was approved
    book,       \* per id: "none", or the recorded [owner, status]
    listed,     \* per user: the ids of the history, oldest first
    announced   \* ids the order-placed event was published for

vars == <<paid, book, listed, announced>>

Absent == [owner |-> "nobody", status |-> "none"]

Init ==
    /\ paid = {}
    /\ book = [r \in Requests |-> Absent]
    /\ listed = [u \in Users |-> <<>>]
    /\ announced = {}

Pay(r) ==
    /\ r \notin paid /\ book[r] = Absent
    /\ paid' = paid \cup {r}
    /\ UNCHANGED <<book, listed, announced>>

Record(r) ==
    /\ book[r] = Absent
    /\ \E u \in Users :
         \/ /\ r \in paid
            /\ book' = [book EXCEPT ![r] = [owner |-> u, status |-> "placed"]]
         \/ /\ r \notin paid
            /\ book' = [book EXCEPT ![r] = [owner |-> u, status |-> "declined"]]
    /\ UNCHANGED <<paid, listed, announced>>

Belongs(r, u) == book[r] # Absent /\ book[r].owner = u

\* The new entry goes last; the ones before it are the whole history, or, when
\* listings may lose entries, some of the user's orders, none of them twice.
List(r, u) ==
    /\ Belongs(r, u)
    /\ \A i \in DOMAIN listed[u] : listed[u][i] # r
    /\ IF Lossy
         THEN LET new == listed'[u]
              IN /\ new # <<>> /\ new[Len(new)] = r
                 /\ \A i \in DOMAIN new : Belongs(new[i], u)
                 /\ \A i, j \in DOMAIN new : new[i] = new[j] => i = j
         ELSE listed'[u] = Append(listed[u], r)
    /\ \A v \in Users \ {u} : listed'[v] = listed[v]
    /\ UNCHANGED <<paid, book, announced>>

Announce(r) ==
    /\ book[r].status = "placed" /\ r \notin announced
    /\ announced' = announced \cup {r}
    /\ UNCHANGED <<paid, book, listed>>

Next == \E r \in Requests :
    Pay(r) \/ Record(r) \/ Announce(r) \/ \E u \in Users : List(r, u)

Spec == Init /\ [][Next]_vars
====
