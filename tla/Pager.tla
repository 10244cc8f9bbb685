---- MODULE Pager ----
(***************************************************************************)
(* Paging on the browser's side (components/Pager.tsx): which pages the    *)
(* pager offers, and how many there are.                                   *)
(***************************************************************************)
EXTENDS Lists

\* Math.max(1, Math.ceil(n / size))
TotalPages(n, size) == IF n = 0 THEN 1 ELSE (n + size - 1) \div size

\* The first page, the last, and those within one of the current.
Numbers(page, total) == {1, total} \cup ((page - 1 .. page + 1) \cap 1..total)

\* A gap stands between two numbers that are more than d apart.
Gap == 0
Spaced(ns, d) ==
    FlattenSeq([i \in 1..Len(ns) |->
        IF i > 1 /\ ns[i] - ns[i - 1] > d THEN <<Gap, ns[i]>> ELSE <<ns[i]>>])

\* Slip: no gap for a single page that is left out.
Tight(page, total) == Spaced(Sorted(Numbers(page, total), <), 2)
Window(page, total) == Spaced(Sorted(Numbers(page, total), <), 1)

\* Slip: Next also on the last page.
PressableBeyond(page, total) ==
    (ToSet(Window(page, total)) \ {Gap}) \cup {p \in {page - 1} : page > 1} \cup {page + 1}

\* Where a press leads: to a number, or with Prev and Next.
Pressable(page, total) ==
    (ToSet(Window(page, total)) \ {Gap})
    \cup {p \in {page - 1} : page > 1} \cup {p \in {page + 1} : page < total}

Offered(page, total) == IF total <= 1 THEN {} ELSE Pressable(page, total)

====
