---- MODULE CatalogListing ----
(***************************************************************************)
(* The product listing of the catalog service (internal/catalog/store.go,  *)
(* cmd/catalog/main.go), from the query a page of the shop asks with       *)
(* (web/src/lib/api.ts) to the page of products it answers.  The products  *)
(* do not change while the service runs.                                   *)
(*                                                                         *)
(* The service counts in machine integers, of 2 * Half values.             *)
(***************************************************************************)
EXTENDS Lists

CONSTANTS
    Products,    \* records; name is a product's place by name, then by table
    KindOf,      \* the kind of each category
    Unset,       \* a constraint that is absent
    Half,        \* the first number a machine integer cannot hold
    defaultPerPage, maxPerPage

ASSUME CatalogConstants ==
    /\ {defaultPerPage, maxPerPage, Half} \subseteq Nat \ {0}
    /\ IsFiniteSet(Products) /\ Cardinality(Products) < Half
    /\ \A p \in Products : {p.price, p.sale} \subseteq 0..(Half - 1)
    /\ \A p \in Products : p.name \in Nat /\ p.featured \in BOOLEAN
    /\ \A p, q \in Products : p.name = q.name => p = q

Wrap(n) == ((n + Half) % (2 * Half)) - Half

-----------------------------------------------------------------------------
(* Which products are listed, and in which order.                          *)

OnSale(p) == p.sale > 0 /\ p.sale < p.price

\* Slip: the price before the sale.
ListPrice(p) == p.price
Price(p) == IF OnSale(p) THEN p.sale ELSE p.price

\* f asks for a category, a kind, a brand, a word, prices in cents; 0 and Unset ask nothing.
Matches(p, f) ==
    /\ f.category \in {Unset, p.category}
    /\ f.kind \in {Unset, KindOf[p.category]}
    /\ f.brand \in {Unset, p.brand}
    /\ f.onSale => OnSale(p)
    /\ f.featured => p.featured
    /\ f.min > 0 => Price(p) >= f.min
    /\ f.max > 0 => Price(p) <= f.max
    /\ f.q = Unset \/ f.q \in p.words

Before(p, q) == IF p.featured # q.featured THEN p.featured ELSE p.name < q.name
List(f) == Sorted({p \in Products : Matches(p, f)}, Before)

\* A listing without a page number is no listing: the handler panicked on a
\* slice that starts below zero, and the storefront answers 502.
NoListing == [products |-> <<>>, total |-> 0, page |-> 0, perPage |-> 0]
Served(l) == l.page > 0

Between(l, start, n) == SubSeq(l, start + 1, IF start + n > Len(l) THEN Len(l) ELSE start + n)

\* Slip: the first page is page 0.
FromZero(page, perPage) == Wrap(page * perPage)
Start(page, perPage) == Wrap((page - 1) * perPage)

ListPaged(f) ==
    LET all     == List(f)
        page    == IF f.page <= 0 THEN 1 ELSE f.page
        perPage == IF f.perPage <= 0 THEN defaultPerPage
                   ELSE IF f.perPage > maxPerPage THEN maxPerPage ELSE f.perPage
        start   == Start(page, perPage)
    IN IF start < 0 THEN NoListing
       ELSE [products |-> IF start >= Len(all) THEN <<>> ELSE Between(all, start, perPage),
             total |-> Len(all), page |-> page, perPage |-> perPage]

-----------------------------------------------------------------------------
(* What a query of a page becomes on its way.                              *)

\* A number in the query string: one too large for the service is none at all.
Atoi(n) == IF n < Half THEN n ELSE 0
AtoiDollars(n) == Wrap(Atoi(n) * 100)

\* A page number is only sent beyond the first.
Filter(q) ==
    [category |-> q.category, kind |-> Unset, brand |-> Unset, q |-> q.q,
     min |-> AtoiDollars(q.minPrice), max |-> AtoiDollars(q.maxPrice),
     onSale |-> q.onSale, featured |-> FALSE,
     page |-> IF q.page > 1 THEN Atoi(q.page) ELSE 0, perPage |-> q.perPage]

Answer(q) == ListPaged(Filter(q))

====
