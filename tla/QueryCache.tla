---- MODULE QueryCache ----
(***************************************************************************)
(* One entry of the browser's query cache, as the pages of the shop use    *)
(* TanStack Query: what a read, its answer, its failure, a value written   *)
(* by hand and an invalidation do to it.  The library is external; these   *)
(* operators are what src/web/src relies on.                               *)
(*                                                                         *)
(* A query is a record: data (NoData until something was cached), status   *)
(* as the pages see it, fetch ("idle", or how far the one request in       *)
(* flight is), body (what that request will be answered) and tries (how    *)
(* many of its attempts failed).                                           *)
(***************************************************************************)
EXTENDS Naturals

CONSTANT NoData   \* the data of a query that was never answered

Statuses == {"pending", "success", "error"}

Queries(D) ==
    [data : D \cup {NoData}, status : Statuses,
     fetch : {"idle", "asked", "served"}, body : D \cup {NoData}, tries : Nat]

Fresh == [data |-> NoData, status |-> "pending",
          fetch |-> "idle", body |-> NoData, tries |-> 0]

Fetching(q)  == q.fetch # "idle"
IsLoading(q) == q.status = "pending" /\ Fetching(q)
IsError(q)   == q.status = "error"

\* What the page reads: the cached value, or d while there is none.
DataOr(q, d) == IF q.data = NoData THEN d ELSE q.data

\* A request goes out.  Only a query without data is pending again.
Start(q) == [q EXCEPT !.fetch = "asked", !.body = NoData, !.tries = 0,
                      !.status = IF q.data = NoData THEN "pending" ELSE @]

\* A mount or a reconnect: one request in flight is enough.
Ask(q) == IF Fetching(q) THEN q ELSE Start(q)

\* invalidateQueries: a request in flight is dropped for a new one, unless the
\* query has no data yet; then the running one is joined.
Invalidate(q) == IF Fetching(q) /\ q.data = NoData THEN q ELSE Start(q)

\* setQueryData: the value is there at once; a request in flight goes on.
SetData(q, d) == [q EXCEPT !.data = d, !.status = "success"]

\* The server has computed the answer d; it is on its way.
Serve(q, d) == [q EXCEPT !.fetch = "served", !.body = d]

\* The answer arrives and is cached.
Arrive(q, d) == [q EXCEPT !.data = d, !.status = "success",
                          !.fetch = "idle", !.body = NoData, !.tries = 0]

\* An attempt failed: asked again up to n times, then an error that keeps the data.
Fail(q, n) ==
    IF q.tries < n
      THEN [q EXCEPT !.fetch = "asked", !.body = NoData, !.tries = @ + 1]
      ELSE [q EXCEPT !.fetch = "idle", !.body = NoData, !.tries = 0, !.status = "error"]

====
