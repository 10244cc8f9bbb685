---- MODULE OrderPlacement ----
(***************************************************************************)
(* The orders service: POST /api/orders of cmd/orders/main.go over         *)
(* internal/orders, internal/paymentclient, internal/dispatchclient,       *)
(* internal/awskv and internal/awsqueue.                                   *)
(*                                                                         *)
(* Every request runs in a handler goroutine of its own, on one of several *)
(* replicas, so the handlers of different requests interleave between any  *)
(* two of their remote calls.  A handler's program counter is stage[r];    *)
(* each stage but the last is one remote call, which may answer, fail      *)
(* without having happened, or happen and lose its answer.                 *)
(*                                                                         *)
(* An order id is 8 bytes of crypto/rand, so a request stands for its id.  *)
(***************************************************************************)
EXTENDS Naturals, Sequences

CONSTANTS
    Requests,         \* POST /api/orders calls, which are also the order ids
    Users,            \* session ids: the user ids storefront hands down
    NoOrder,          \* an id the table holds no document for
    DispatchEnabled,  \* DISPATCH_URL is set
    StaleReads,       \* the table is DynamoDB, read without ConsistentRead
    SerialUsers,      \* the requests of one user do not overlap
    Outages           \* what may fail or never answer: a subset of Parties

Parties == {"payment", "dispatch", "store", "queue", "client", "pod"}

Verdict == {"placed", "declined"}
Order   == [owner : Users, status : Verdict, tracked : BOOLEAN]
Draft   == [owner : Users, status : Verdict \cup {"pending"}, tracked : BOOLEAN]
Summary == [id : Requests, status : Verdict]

ASSUME OrderConstants ==
    /\ NoOrder \notin Order
    /\ DispatchEnabled \in BOOLEAN
    /\ StaleReads \in BOOLEAN
    /\ SerialUsers \in BOOLEAN
    /\ Outages \subseteq Parties

VARIABLES
    stage,      \* where the handler of each request is
    draft,      \* the local variable o: the order being built
    seen,       \* the history document the handler has read
    answer,     \* the status the handler wrote to its caller
    client,     \* the caller: awaiting, cut off by WriteTimeout, or gone
    charged,    \* orders whose charge the payment service has approved
    shipments,  \* orders the dispatch service has made a shipment for
    orders,     \* the orders table: a document per order id
    index,      \* the same table: the history document of each user
    past,       \* earlier versions of the history documents
    events      \* order-placed events in the queue

local  == <<stage, draft, seen, answer>>
remote == <<charged, shipments, orders, index, past, events>>
vars   == <<stage, draft, seen, answer, client, charged, shipments, orders,
            index, past, events>>

Stages == {"idle", "charge", "dispatch", "save", "readIndex", "writeIndex",
           "emit", "respond", "done", "dead"}

\* The service a handler in a stage is waiting for.
Awaits(s) ==
    CASE s = "charge"   -> "payment"
      [] s = "dispatch" -> "dispatch"
      [] s = "emit"     -> "queue"
      [] OTHER          -> "store"

Calling == {"charge", "dispatch", "save", "readIndex", "writeIndex", "emit"}
InFlight(r) == stage[r] \in Calling \cup {"respond"}

Entry(r) == [id |-> r, status |-> draft[r].status]
Listed(doc) == {doc[i].id : i \in DOMAIN doc}
Owner(r) == draft[r].owner

\* Slip: declined orders are announced too.
AlwaysEmit(r) == "emit"

\* After the history update the handler emits the event of a placed order.
AfterIndex(r) == IF draft[r].status = "placed" THEN "emit" ELSE "respond"

\* What a read of the user's history document may return.
Versions(u) == {index[u]} \cup past[u]
Readable(u) == IF StaleReads THEN Versions(u) ELSE {index[u]}

\* A call answers only while the request's context is alive; it fails when the
\* service is out or the context is cancelled because the caller went away.
Live(r)       == client[r] # "gone"
CanFail(r, p) == p \in Outages \/ ~Live(r)

Goto(r, s) == stage' = [stage EXCEPT ![r] = s]
Fail502(r) == Goto(r, "done") /\ answer' = [answer EXCEPT ![r] = "502"]

-----------------------------------------------------------------------------

TypeOK ==
    /\ stage \in [Requests -> Stages]
    /\ draft \in [Requests -> Draft]
    /\ seen \in [Requests -> Seq(Summary)]
    /\ answer \in [Requests -> {"none", "200", "400", "502"}]
    /\ client \in [Requests -> {"waiting", "late", "gone"}]
    /\ charged \subseteq Requests
    /\ shipments \subseteq Requests
    /\ orders \in [Requests -> Order \cup {NoOrder}]
    /\ index \in [Users -> Seq(Summary)]
    /\ past \in [Users -> SUBSET Seq(Summary)]
    /\ events \subseteq Requests

Init ==
    /\ stage = [r \in Requests |-> "idle"]
    /\ draft \in [Requests -> [owner : Users, status : {"pending"}, tracked : {FALSE}]]
    /\ seen = [r \in Requests |-> <<>>]
    /\ answer = [r \in Requests |-> "none"]
    /\ client = [r \in Requests |-> "waiting"]
    /\ charged = {}
    /\ shipments = {}
    /\ orders = [r \in Requests |-> NoOrder]
    /\ index = [u \in Users |-> <<>>]
    /\ past = [u \in Users |-> {}]
    /\ events = {}

-----------------------------------------------------------------------------
(* Receiving the request.                                                  *)

\* No other request of the same user is being served.
Unshared(r) ==
    \A s \in Requests \ {r} : Owner(s) = Owner(r) => ~InFlight(s)

\* Slip: the charge is skipped.
AcceptUncharged(r) ==
    /\ stage[r] = "idle"
    /\ SerialUsers => Unshared(r)
    /\ Goto(r, "save")
    /\ UNCHANGED <<draft, seen, answer, client, remote>>

Accept(r) ==
    /\ stage[r] = "idle"
    /\ SerialUsers => Unshared(r)
    /\ Goto(r, "charge")
    /\ UNCHANGED <<draft, seen, answer, client, remote>>

\* Undecodable body, no lines, or a total that is not positive.
Reject(r) ==
    /\ stage[r] = "idle"
    /\ Goto(r, "done")
    /\ answer' = [answer EXCEPT ![r] = "400"]
    /\ UNCHANGED <<draft, seen, client, remote>>

-----------------------------------------------------------------------------
(* The payment call.                                                       *)

Approve(r) ==
    /\ stage[r] = "charge" /\ Live(r)
    /\ charged' = charged \cup {r}
    /\ draft' = [draft EXCEPT ![r].status = "placed"]
    /\ Goto(r, IF DispatchEnabled THEN "dispatch" ELSE "save")
    /\ UNCHANGED <<seen, answer, client, shipments, orders, index, past, events>>

Decline(r) ==
    /\ stage[r] = "charge" /\ Live(r)
    /\ draft' = [draft EXCEPT ![r].status = "declined"]
    /\ Goto(r, "save")
    /\ UNCHANGED <<seen, answer, client, remote>>

ChargeFails(r) ==
    /\ stage[r] = "charge" /\ CanFail(r, "payment")
    /\ charged' \in {charged, charged \cup {r}}
    /\ Fail502(r)
    /\ UNCHANGED <<draft, seen, client, shipments, orders, index, past, events>>

-----------------------------------------------------------------------------
(* The cross-team shipment call, best effort.                              *)

Ship(r) ==
    /\ stage[r] = "dispatch" /\ Live(r)
    /\ shipments' = shipments \cup {r}
    /\ draft' = [draft EXCEPT ![r].tracked = TRUE]
    /\ Goto(r, "save")
    /\ UNCHANGED <<seen, answer, client, charged, orders, index, past, events>>

\* Slip: a failed shipment call fails the order.
ShipFailsOrder(r) ==
    /\ stage[r] = "dispatch" /\ CanFail(r, "dispatch")
    /\ shipments' \in {shipments, shipments \cup {r}}
    /\ Fail502(r)
    /\ UNCHANGED <<draft, seen, client, charged, orders, index, past, events>>

ShipFails(r) ==
    /\ stage[r] = "dispatch" /\ CanFail(r, "dispatch")
    /\ shipments' \in {shipments, shipments \cup {r}}
    /\ Goto(r, "save")
    /\ UNCHANGED <<draft, seen, answer, client, charged, orders, index, past, events>>

-----------------------------------------------------------------------------
(* Persisting the order.                                                   *)

Save(r) ==
    /\ stage[r] = "save" /\ Live(r)
    /\ orders' = [orders EXCEPT ![r] = draft[r]]
    /\ Goto(r, "readIndex")
    /\ UNCHANGED <<draft, seen, answer, client, charged, shipments, index, past, events>>

\* Slip: the return after a failed save is missing.
SaveFailsOn(r) ==
    /\ stage[r] = "save" /\ CanFail(r, "store")
    /\ orders' \in {orders, [orders EXCEPT ![r] = draft[r]]}
    /\ Goto(r, "readIndex")
    /\ UNCHANGED <<draft, seen, answer, client, charged, shipments, index, past, events>>

SaveFails(r) ==
    /\ stage[r] = "save" /\ CanFail(r, "store")
    /\ orders' \in {orders, [orders EXCEPT ![r] = draft[r]]}
    /\ Fail502(r)
    /\ UNCHANGED <<draft, seen, client, charged, shipments, index, past, events>>

-----------------------------------------------------------------------------
(* AppendToUserIndex: an unconditional read-modify-write, best effort.     *)

ReadIndex(r) ==
    /\ stage[r] = "readIndex" /\ Live(r)
    /\ \E doc \in Readable(Owner(r)) : seen' = [seen EXCEPT ![r] = doc]
    /\ Goto(r, "writeIndex")
    /\ UNCHANGED <<draft, answer, client, remote>>

ReadIndexFails(r) ==
    /\ stage[r] = "readIndex" /\ CanFail(r, "store")
    /\ Goto(r, AfterIndex(r))
    /\ UNCHANGED <<draft, seen, answer, client, remote>>

\* Slip: the new entry replaces the history.
PutOnlyEntry(r) ==
    /\ index' = [index EXCEPT ![Owner(r)] = <<Entry(r)>>]
    /\ past' = [past EXCEPT ![Owner(r)] = @ \cup {index[Owner(r)]}]

\* Slip: the history is kept newest first, which ListForUser would turn around.
PutEntryFirst(r) ==
    /\ index' = [index EXCEPT ![Owner(r)] = <<Entry(r)>> \o seen[r]]
    /\ past' = [past EXCEPT ![Owner(r)] = @ \cup {index[Owner(r)]}]

PutIndex(r) ==
    /\ index' = [index EXCEPT ![Owner(r)] = Append(seen[r], Entry(r))]
    /\ past' = [past EXCEPT ![Owner(r)] = @ \cup {index[Owner(r)]}]

WriteIndex(r) ==
    /\ stage[r] = "writeIndex" /\ Live(r)
    /\ PutIndex(r)
    /\ Goto(r, AfterIndex(r))
    /\ UNCHANGED <<draft, seen, answer, client, charged, shipments, orders, events>>

\* Slip: a failed append is tried again, though it may have happened.
WriteIndexRetried(r) ==
    /\ stage[r] = "writeIndex" /\ CanFail(r, "store")
    /\ PutIndex(r) \/ UNCHANGED <<index, past>>
    /\ Goto(r, "readIndex")
    /\ UNCHANGED <<draft, seen, answer, client, charged, shipments, orders, events>>

WriteIndexFails(r) ==
    /\ stage[r] = "writeIndex" /\ CanFail(r, "store")
    /\ PutIndex(r) \/ UNCHANGED <<index, past>>
    /\ Goto(r, AfterIndex(r))
    /\ UNCHANGED <<draft, seen, answer, client, charged, shipments, orders, events>>

-----------------------------------------------------------------------------
(* The order-placed event, best effort, and the response.                  *)

Emit(r) ==
    /\ stage[r] = "emit" /\ Live(r)
    /\ events' = events \cup {r}
    /\ Goto(r, "respond")
    /\ UNCHANGED <<draft, seen, answer, client, charged, shipments, orders, index, past>>

\* Slip: a failed emit fails the order.
EmitFailsOrder(r) ==
    /\ stage[r] = "emit" /\ CanFail(r, "queue")
    /\ events' \in {events, events \cup {r}}
    /\ Fail502(r)
    /\ UNCHANGED <<draft, seen, client, charged, shipments, orders, index, past>>

EmitFails(r) ==
    /\ stage[r] = "emit" /\ CanFail(r, "queue")
    /\ events' \in {events, events \cup {r}}
    /\ Goto(r, "respond")
    /\ UNCHANGED <<draft, seen, answer, client, charged, shipments, orders, index, past>>

Respond(r) ==
    /\ stage[r] = "respond"
    /\ answer' = [answer EXCEPT ![r] = "200"]
    /\ Goto(r, "done")
    /\ UNCHANGED <<draft, seen, client, remote>>

-----------------------------------------------------------------------------
(* What happens to a handler from outside.                                 *)

\* No client has a timeout, so a call may hang past the server's WriteTimeout:
\* the handler runs on with a live context, and its response is never sent.
CutOff(r) ==
    /\ stage[r] \in Calling /\ client[r] = "waiting"
    /\ Awaits(stage[r]) \in Outages
    /\ client' = [client EXCEPT ![r] = "late"]
    /\ UNCHANGED <<local, remote>>

\* The caller closes its connection, which cancels the request's context.
Leave(r) ==
    /\ "client" \in Outages
    /\ InFlight(r) /\ Live(r)
    /\ client' = [client EXCEPT ![r] = "gone"]
    /\ UNCHANGED <<local, remote>>

\* The pod dies, or is killed when its 10 s drain runs out.
Crash(r) ==
    /\ "pod" \in Outages
    /\ InFlight(r)
    /\ Goto(r, "dead")
    /\ UNCHANGED <<draft, seen, answer, client, remote>>

-----------------------------------------------------------------------------

Step(r) ==
    \/ Approve(r) \/ Decline(r) \/ ChargeFails(r)
    \/ Ship(r) \/ ShipFails(r)
    \/ Save(r) \/ SaveFails(r)
    \/ ReadIndex(r) \/ ReadIndexFails(r) \/ WriteIndex(r) \/ WriteIndexFails(r)
    \/ Emit(r) \/ EmitFails(r) \/ Respond(r)

Environment(r) ==
    Accept(r) \/ Reject(r) \/ CutOff(r) \/ Leave(r) \/ Crash(r)

Finished(r) == stage[r] \in {"done", "dead"}

\* Every request of the instance has run: the service waits for more.
Quiescent == (\A r \in Requests : Finished(r)) /\ UNCHANGED vars

Next == (\E r \in Requests : Step(r) \/ Environment(r)) \/ Quiescent

\* A handler runs on once its call has returned, and a call returns if the party it
\* is made to holds.  A call to a party that is out may return or not: the client
\* has no timeout, the request's context no deadline, and WriteTimeout ends neither.
Returns(r) == stage[r] \in Calling => Awaits(stage[r]) \notin Outages
Fairness == \A r \in Requests : WF_vars(Returns(r) /\ Step(r))

Spec == Init /\ [][Next]_vars
FairSpec == Spec /\ Fairness
-----------------------------------------------------------------------------
(* Properties.                                                             *)

\* A history document holds orders the table has: the user's own, with the
\* status they were saved with, none of them twice.
SoundHistory(u, doc) ==
    /\ \A i \in DOMAIN doc :
         /\ orders[doc[i].id] # NoOrder
         /\ orders[doc[i].id].owner = u
         /\ orders[doc[i].id].status = doc[i].status
    /\ \A i, j \in DOMAIN doc : doc[i].id = doc[j].id => i = j

\* The history a reader of the table may be shown, now or by a stale read, never
\* lists an order that was not saved, another user's order, a status the order
\* does not have, or an order twice, however the read-modify-writes of
\* AppendToUserIndex interleave and whichever calls fail.
HistorySound ==
    \A u \in Users : \A doc \in Versions(u) : SoundHistory(u, doc)

Placed(r) == orders[r] # NoOrder /\ orders[r].status = "placed"

\* Nothing is given away: an order is recorded as placed, shipped, or announced
\* only if its charge was approved, and an event is in the queue only for an
\* order that is durably placed.
NothingUnpaid ==
    /\ \A r \in Requests : Placed(r) \/ r \in shipments => r \in charged
    /\ \A r \in events : Placed(r)

\* What the caller is told is true: 200 means the order is durable as it was
\* built, with the shipment it names; 400 means nothing happened; 502 means that
\* the order was neither announced nor listed (it may have been charged or saved).
AnswerTruthful ==
    \A r \in Requests :
        /\ answer[r] = "200" =>
             /\ orders[r] = draft[r] /\ draft[r].status # "pending"
             /\ draft[r].tracked => r \in shipments
        /\ answer[r] = "400" =>
             orders[r] = NoOrder /\ r \notin charged \cup shipments \cup events
        /\ answer[r] = "502" =>
             r \notin events /\ \A u \in Users : r \notin Listed(index[u])

\* With a consistent store that answers, and checkouts of a user made one after
\* another, the read-modify-write of the index loses nothing: every order that was
\* answered is in its owner's history.
SerialHistoryComplete ==
    \A r \in Requests : answer[r] = "200" => r \in Listed(index[Owner(r)])

\* The comment at main.go:110-112: a failed or unreachable dispatch must not fail
\* an already-paid order, so its caller gets the 200.
DispatchIsBestEffort ==
    \A r \in Requests :
        r \in charged /\ Finished(r) => answer[r] = "200" /\ client[r] = "waiting"

\* While store, caller and pod hold, an approved charge ends as a durable placed
\* order and a 200, whether dispatch and the queue answer or fail.  Only a call that
\* never returns stops it: to dispatch, and the paid order is never recorded; to the
\* queue, and the order is durable but its caller never hears of it.
PaidIsRecorded ==
    \A r \in Requests : r \in charged ~>
        \/ answer[r] = "200" /\ Placed(r)
        \/ [](stage[r] = "dispatch")
        \/ [](stage[r] = "emit" /\ Placed(r))

\* The service implements the order book: a step of a handler is a step of the
\* book or a stutter.  With every failure and race the book may lose listings;
\* with serial checkouts on a consistent store that answers it loses none.
bookBar == [r \in Requests |->
    IF orders[r] = NoOrder
      THEN [owner |-> "nobody", status |-> "none"]
      ELSE [owner |-> orders[r].owner, status |-> orders[r].status]]

listedBar == [u \in Users |-> [i \in DOMAIN index[u] |-> index[u][i].id]]

LossyBook == INSTANCE OrderBook WITH
    Lossy <- TRUE, paid <- charged, book <- bookBar,
    listed <- listedBar, announced <- events

ExactBook == INSTANCE OrderBook WITH
    Lossy <- FALSE, paid <- charged, book <- bookBar,
    listed <- listedBar, announced <- events

ImplementsLossyBook == LossyBook!Spec
ImplementsExactBook == ExactBook!Spec
====
