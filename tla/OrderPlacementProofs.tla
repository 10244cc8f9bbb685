---- MODULE OrderPlacementProofs ----
(***************************************************************************)
(* Theorems about the orders service, for any sets of requests and users,  *)
(* any setting of the switches and any set of failing parties.             *)
(***************************************************************************)
EXTENDS OrderPlacement, TLAPS

-----------------------------------------------------------------------------
(* Type correctness.                                                       *)

\* Past the payment call the order has its verdict.
Decided == \A r \in Requests :
    stage[r] \notin {"idle", "charge", "done", "dead"} => draft[r].status \in Verdict

TypeInv == TypeOK /\ Decided

\* The types hold initially.
LEMMA InitType == Init => TypeInv
<1> SUFFICES ASSUME Init PROVE TypeInv
  OBVIOUS
<1>1. draft \in [Requests -> Draft]
  BY DEF Init, Draft, Verdict
<1> QED BY <1>1 DEF Init, TypeInv, TypeOK, Decided, Stages

\* A handler step of one request keeps every variable in its type.
LEMMA StepType ==
  ASSUME TypeInv, NEW r \in Requests, Step(r)
  PROVE  TypeInv'
<1> USE DEF TypeInv, TypeOK, Decided
<1>1. CASE Approve(r)
  BY <1>1 DEF Approve, Goto, Stages, Draft, Verdict
<1>2. CASE Decline(r)
  BY <1>2 DEF Decline, Goto, Stages, Draft, Verdict, remote
<1>3. CASE ChargeFails(r)
  BY <1>3 DEF ChargeFails, Fail502, Goto, Stages
<1>4. CASE Ship(r)
  BY <1>4 DEF Ship, Goto, Stages, Draft, Verdict
<1>5. CASE ShipFails(r)
  BY <1>5 DEF ShipFails, Goto, Stages
<1>6. CASE Save(r)
  BY <1>6 DEF Save, Goto, Stages, Draft, Order
<1>7. CASE SaveFails(r)
  <2>1. draft[r] \in Order
    BY <1>7 DEF SaveFails, Draft, Order
  <2>2. orders' \in [Requests -> Order \cup {NoOrder}]
    BY <1>7, <2>1 DEF SaveFails
  <2> QED BY <1>7, <2>2 DEF SaveFails, Fail502, Goto, Stages
<1>8. CASE ReadIndex(r)
  BY <1>8 DEF ReadIndex, Readable, Versions, Owner, Goto, Stages, Draft, remote
<1>9. CASE ReadIndexFails(r)
  BY <1>9 DEF ReadIndexFails, AfterIndex, Goto, Stages, remote
<1>10. ASSUME stage[r] = "writeIndex" PROVE Entry(r) \in Summary
  BY <1>10 DEF Entry, Summary
<1>11. ASSUME stage[r] = "writeIndex", PutIndex(r)
       PROVE  index' \in [Users -> Seq(Summary)] /\ past' \in [Users -> SUBSET Seq(Summary)]
  <2>1. Append(seen[r], Entry(r)) \in Seq(Summary)
    BY <1>10, <1>11
  <2> QED BY <2>1, <1>11 DEF PutIndex, Owner, Draft
<1>12. CASE WriteIndex(r)
  BY <1>11, <1>12 DEF WriteIndex, AfterIndex, Goto, Stages
<1>13. CASE WriteIndexFails(r)
  BY <1>11, <1>13 DEF WriteIndexFails, AfterIndex, Goto, Stages
<1>14. CASE Emit(r)
  BY <1>14 DEF Emit, Goto, Stages
<1>15. CASE EmitFails(r)
  BY <1>15 DEF EmitFails, Goto, Stages
<1>16. CASE Respond(r)
  BY <1>16 DEF Respond, Goto, Stages, remote
<1> QED BY <1>1, <1>2, <1>3, <1>4, <1>5, <1>6, <1>7, <1>8, <1>9, <1>12, <1>13,
           <1>14, <1>15, <1>16 DEF Step

\* So does what happens to a request from outside.
LEMMA EnvironmentType ==
  ASSUME TypeInv, NEW r \in Requests, Environment(r)
  PROVE  TypeInv'
<1> USE DEF TypeInv, TypeOK, Decided
<1>1. CASE Accept(r)
  BY <1>1 DEF Accept, Goto, Stages, remote
<1>2. CASE Reject(r)
  BY <1>2 DEF Reject, Goto, Stages, remote
<1>3. CASE CutOff(r)
  BY <1>3 DEF CutOff, local, remote
<1>4. CASE Leave(r)
  BY <1>4 DEF Leave, local, remote
<1>5. CASE Crash(r)
  BY <1>5 DEF Crash, Goto, Stages, remote
<1> QED BY <1>1, <1>2, <1>3, <1>4, <1>5 DEF Environment

\* Every step keeps them.
LEMMA NextType == TypeInv /\ [Next]_vars => TypeInv'
<1> SUFFICES ASSUME TypeInv, [Next]_vars PROVE TypeInv'
  OBVIOUS
<1>1. CASE \E r \in Requests : Step(r) \/ Environment(r)
  BY <1>1, StepType, EnvironmentType
<1>2. CASE UNCHANGED vars
  BY <1>2 DEF TypeInv, TypeOK, Decided, vars
<1> QED BY <1>1, <1>2 DEF Next, Quiescent

\* Every variable of the service keeps its type: in particular an order is saved,
\* listed and announced only with the verdict of the payment service on it, never
\* while the handler still waits for the charge.
THEOREM TypeCorrect == Spec => []TypeOK
<1>1. Spec => []TypeInv
  BY InitType, NextType, PTL DEF Spec
<1> QED BY <1>1, PTL DEF TypeInv

-----------------------------------------------------------------------------
(* What holds of one request at each stage of its handler.                 *)

Unsaved == {"idle", "charge", "dispatch", "save"}
Saved   == {"readIndex", "writeIndex", "emit", "respond"}

MoneyInv(r) ==
    /\ stage[r] \in {"idle", "charge"} =>
         draft[r].status = "pending" /\ ~draft[r].tracked /\ r \notin charged
    /\ stage[r] \in {"idle", "charge", "dispatch"} => r \notin shipments
    /\ stage[r] \in {"dispatch", "emit"} => draft[r].status = "placed"
    /\ draft[r].status = "placed" => r \in charged
    /\ draft[r].status = "declined" => r \notin charged
    /\ r \in shipments => r \in charged
    /\ draft[r].tracked => r \in shipments

RecordInv(r) ==
    /\ stage[r] \in Unsaved => orders[r] = NoOrder
    /\ stage[r] \in Saved \/ orders[r] # NoOrder =>
         orders[r] = draft[r] /\ draft[r].status \in Verdict
    /\ stage[r] \in Unsaved \cup {"readIndex", "writeIndex", "emit"} => r \notin events
    /\ r \in events => orders[r] # NoOrder /\ draft[r].status = "placed"

AnswerInv(r) ==
    /\ stage[r] # "done" => answer[r] = "none"
    /\ answer[r] = "200" => orders[r] = draft[r] /\ draft[r].status \in Verdict
    /\ answer[r] = "400" =>
         orders[r] = NoOrder /\ r \notin charged \cup shipments \cup events
    /\ answer[r] = "502" => r \notin events

RequestInv == \A r \in Requests : MoneyInv(r) /\ RecordInv(r) /\ AnswerInv(r)

\* What is known per request holds initially.
LEMMA InitRequest == Init => RequestInv
<1> SUFFICES ASSUME Init, NEW r \in Requests
             PROVE  MoneyInv(r) /\ RecordInv(r) /\ AnswerInv(r)
  BY DEF RequestInv
<1>1. draft[r].status = "pending" /\ draft[r].tracked = FALSE
  BY DEF Init
<1> QED BY <1>1 DEF Init, MoneyInv, RecordInv, AnswerInv, Unsaved, Saved

\* A draft with a verdict is an order, hence not the absent one.
LEMMA DecidedIsOrder ==
  ASSUME TypeOK, NEW r \in Requests, draft[r].status \in Verdict
  PROVE  draft[r] \in Order /\ draft[r] # NoOrder
<1>1. draft[r] \in Order
  BY DEF TypeOK, Draft, Order
<1> QED BY <1>1, OrderConstants

\* A handler's step keeps what is known of its own request, and of the others.
LEMMA StepRequest ==
  ASSUME TypeInv, RequestInv, NEW r \in Requests, Step(r)
  PROVE  RequestInv'
<1> SUFFICES ASSUME NEW q \in Requests
             PROVE  MoneyInv(q)' /\ RecordInv(q)' /\ AnswerInv(q)'
  BY DEF RequestInv
<1> USE DEF TypeInv, TypeOK, Decided, RequestInv, MoneyInv, RecordInv, AnswerInv,
            Unsaved, Saved
<1>1. CASE Approve(r)
  BY <1>1 DEF Approve, Goto, Draft, Verdict
<1>2. CASE Decline(r)
  BY <1>2 DEF Decline, Goto, Draft, Verdict, remote
<1>3. CASE ChargeFails(r)
  BY <1>3 DEF ChargeFails, Fail502, Goto
<1>4. CASE Ship(r)
  BY <1>4 DEF Ship, Goto, Draft, Verdict
<1>5. CASE ShipFails(r)
  BY <1>5 DEF ShipFails, Goto
<1>6. CASE Save(r)
  BY <1>6 DEF Save, Goto
<1>7. CASE SaveFails(r)
  BY <1>7 DEF SaveFails, Fail502, Goto
<1>8. CASE ReadIndex(r)
  BY <1>8 DEF ReadIndex, Goto, remote
<1>9. CASE ReadIndexFails(r)
  BY <1>9 DEF ReadIndexFails, AfterIndex, Goto, remote
<1>12. CASE WriteIndex(r)
  BY <1>12 DEF WriteIndex, AfterIndex, Goto
<1>13. CASE WriteIndexFails(r)
  BY <1>13 DEF WriteIndexFails, AfterIndex, Goto
<1>14. CASE Emit(r)
  BY <1>14, DecidedIsOrder DEF Emit, Goto
<1>15. CASE EmitFails(r)
  BY <1>15, DecidedIsOrder DEF EmitFails, Goto
<1>16. CASE Respond(r)
  BY <1>16 DEF Respond, Goto, remote
<1> QED BY <1>1, <1>2, <1>3, <1>4, <1>5, <1>6, <1>7, <1>8, <1>9, <1>12, <1>13,
           <1>14, <1>15, <1>16 DEF Step

\* So does what happens to a request from outside.
LEMMA EnvironmentRequest ==
  ASSUME TypeInv, RequestInv, NEW r \in Requests, Environment(r)
  PROVE  RequestInv'
<1> SUFFICES ASSUME NEW q \in Requests
             PROVE  MoneyInv(q)' /\ RecordInv(q)' /\ AnswerInv(q)'
  BY DEF RequestInv
<1> USE DEF TypeInv, TypeOK, RequestInv, MoneyInv, RecordInv, AnswerInv, Unsaved, Saved
<1>1. CASE Accept(r)
  BY <1>1 DEF Accept, Goto, remote
<1>2. CASE Reject(r)
  BY <1>2 DEF Reject, Goto, remote
<1>3. CASE CutOff(r)
  BY <1>3 DEF CutOff, local, remote
<1>4. CASE Leave(r)
  BY <1>4 DEF Leave, local, remote
<1>5. CASE Crash(r)
  BY <1>5 DEF Crash, Goto, remote, InFlight, Calling
<1> QED BY <1>1, <1>2, <1>3, <1>4, <1>5 DEF Environment

\* Every step keeps it.
LEMMA NextRequest == TypeInv /\ RequestInv /\ [Next]_vars => RequestInv'
<1> SUFFICES ASSUME TypeInv, RequestInv, [Next]_vars PROVE RequestInv'
  OBVIOUS
<1>1. CASE \E r \in Requests : Step(r) \/ Environment(r)
  BY <1>1, StepRequest, EnvironmentRequest
<1>2. CASE UNCHANGED vars
  BY <1>2 DEF RequestInv, MoneyInv, RecordInv, AnswerInv, vars
<1> QED BY <1>1, <1>2 DEF Next, Quiescent

\* No failure, hang, crash or interleaving makes the service record an order as
\* placed, ship it or announce it without an approved charge, or announce an order
\* the table does not hold as placed.
THEOREM NothingUnpaidHolds == Spec => []NothingUnpaid
<1>1. TypeInv /\ RequestInv => NothingUnpaid
  BY DEF TypeInv, TypeOK, RequestInv, MoneyInv, RecordInv, NothingUnpaid, Placed
<1>2. Spec => [](TypeInv /\ RequestInv)
  BY InitType, NextType, InitRequest, NextRequest, PTL DEF Spec
<1> QED BY <1>1, <1>2, PTL

-----------------------------------------------------------------------------
(* The history documents.                                                  *)

\* The handler has not yet put its entry in the history, or has given up before.
Early(r) ==
    \/ stage[r] \in Unsaved \cup {"readIndex", "writeIndex"}
    \/ answer[r] \in {"400", "502"}

\* No document a reader of the table may see, and none a handler has read, lists r.
Unlisted(r) ==
    /\ \A u \in Users : \A doc \in Versions(u) : r \notin Listed(doc)
    /\ \A s \in Requests : r \notin Listed(seen[s])

HistoryInv ==
    /\ HistorySound
    /\ \A r \in Requests : SoundHistory(Owner(r), seen[r])
    /\ \A r \in Requests : Early(r) => Unlisted(r)

\* The histories are empty initially.
LEMMA InitHistory == Init => HistoryInv
BY DEF Init, HistoryInv, HistorySound, SoundHistory, Versions, Unlisted, Listed

\* Saving an order, once, leaves sound documents sound.
LEMMA SoundStays ==
  ASSUME \A r \in Requests : orders[r] # NoOrder => orders'[r] = orders[r],
         NEW u, NEW doc \in Seq(Summary), SoundHistory(u, doc)
  PROVE  SoundHistory(u, doc)'
<1> SUFFICES ASSUME NEW i \in DOMAIN doc
             PROVE  orders'[doc[i].id] = orders[doc[i].id]
  BY DEF SoundHistory
<1>1. doc[i] \in Summary
  OBVIOUS
<1> QED BY <1>1 DEF SoundHistory, Summary

\* Appending an order of the user that the document does not list yet.
LEMMA SoundAppend ==
  ASSUME NEW u, NEW doc \in Seq(Summary), SoundHistory(u, doc),
         NEW e \in Summary, e.id \notin Listed(doc),
         orders[e.id] # NoOrder, orders[e.id].owner = u, orders[e.id].status = e.status
  PROVE  SoundHistory(u, Append(doc, e)) /\ Listed(Append(doc, e)) = Listed(doc) \cup {e.id}
<1> DEFINE new == Append(doc, e)
<1>1. /\ new \in Seq(Summary) /\ Len(new) = Len(doc) + 1
      /\ DOMAIN new = 1..(Len(doc) + 1) /\ DOMAIN doc = 1..Len(doc)
      /\ \A i \in 1..Len(doc) : new[i] = doc[i]
      /\ new[Len(doc) + 1] = e /\ Len(doc) \in Nat
  OBVIOUS
<1>2. Listed(new) = Listed(doc) \cup {e.id}
  <2>1. \A i \in DOMAIN new : i \in DOMAIN doc \/ i = Len(doc) + 1
    BY <1>1
  <2> HIDE DEF new
  <2> QED BY <1>1, <2>1 DEF Listed
<1>3. SoundHistory(u, new)
  <2>1. \A i \in DOMAIN new : i \in DOMAIN doc \/ i = Len(doc) + 1
    BY <1>1
  <2>2. \A i \in DOMAIN doc : doc[i].id # e.id
    BY DEF Listed
  <2> HIDE DEF new
  <2> QED BY <1>1, <2>1, <2>2 DEF SoundHistory
<1> QED BY <1>2, <1>3

\* What a step can do to the history: nothing, load a version of it, or put one.
Loads(r) ==
    /\ UNCHANGED <<index, past>>
    /\ \E doc \in Versions(Owner(r)) : seen' = [seen EXCEPT ![r] = doc]

Puts(r) ==
    /\ stage[r] = "writeIndex" /\ ~Early(r)'
    /\ PutIndex(r)
    /\ UNCHANGED seen

HistoryStep ==
    \/ UNCHANGED <<index, past, seen>>
    \/ \E r \in Requests : Loads(r) \/ Puts(r)

Monotone ==
    \A q \in Requests :
        /\ Early(q)' => Early(q)
        /\ Owner(q)' = Owner(q)
        /\ orders[q] # NoOrder => orders'[q] = orders[q]

\* What a handler's step may do to the tables, whichever step it is.
LEMMA StepShape ==
  ASSUME TypeInv, RequestInv, NEW r \in Requests, Step(r)
  PROVE  HistoryStep /\ Monotone
<1> USE DEF TypeInv, TypeOK, Early, Owner, Monotone, HistoryStep, Unsaved
<1>1. CASE Approve(r)
  BY <1>1 DEF Approve, Goto, Draft
<1>2. CASE Decline(r)
  BY <1>2 DEF Decline, Goto, Draft, remote
<1>3. CASE ChargeFails(r)
  BY <1>3 DEF ChargeFails, Fail502, Goto
<1>4. CASE Ship(r)
  BY <1>4 DEF Ship, Goto, Draft
<1>5. CASE ShipFails(r)
  BY <1>5 DEF ShipFails, Goto
<1>6. CASE Save(r)
  BY <1>6 DEF Save, Goto, RequestInv, RecordInv
<1>7. CASE SaveFails(r)
  BY <1>7 DEF SaveFails, Fail502, Goto, RequestInv, RecordInv
<1>8. CASE ReadIndex(r)
  <2>1. Loads(r)
    BY <1>8 DEF ReadIndex, Readable, Versions, Loads, remote
  <2> QED BY <1>8, <2>1 DEF ReadIndex, Goto, remote
<1>9. CASE ReadIndexFails(r)
  BY <1>9 DEF ReadIndexFails, AfterIndex, Goto, remote
<1>10. CASE WriteIndex(r)
  <2>1. Puts(r)
    BY <1>10 DEF WriteIndex, AfterIndex, Puts, Goto, RequestInv, AnswerInv
  <2> QED BY <1>10, <2>1 DEF WriteIndex, AfterIndex, Goto
<1>11. CASE WriteIndexFails(r)
  <2>1. Puts(r) \/ UNCHANGED <<index, past, seen>>
    BY <1>11 DEF WriteIndexFails, AfterIndex, Puts, Goto, RequestInv, AnswerInv
  <2> QED BY <1>11, <2>1 DEF WriteIndexFails, AfterIndex, Goto
<1>12. CASE Emit(r)
  BY <1>12 DEF Emit, Goto
<1>13. CASE EmitFails(r)
  BY <1>13 DEF EmitFails, Goto
<1>14. CASE Respond(r)
  BY <1>14 DEF Respond, Goto, remote
<1> QED BY <1>1, <1>2, <1>3, <1>4, <1>5, <1>6, <1>7, <1>8, <1>9, <1>10, <1>11,
           <1>12, <1>13, <1>14 DEF Step

\* Nothing from outside touches the tables.
LEMMA EnvironmentShape ==
  ASSUME TypeInv, NEW r \in Requests, Environment(r)
  PROVE  HistoryStep /\ Monotone
<1> USE DEF TypeInv, TypeOK, Early, Owner, Monotone, HistoryStep, Unsaved
<1>1. CASE Accept(r)
  BY <1>1 DEF Accept, Goto, remote
<1>2. CASE Reject(r)
  BY <1>2 DEF Reject, Goto, remote
<1>3. CASE CutOff(r)
  BY <1>3 DEF CutOff, local, remote
<1>4. CASE Leave(r)
  BY <1>4 DEF Leave, local, remote
<1>5. CASE Crash(r)
  BY <1>5 DEF Crash, Goto, remote
<1> QED BY <1>1, <1>2, <1>3, <1>4, <1>5 DEF Environment

\* The same of every step.
LEMMA NextShape ==
  ASSUME TypeInv, RequestInv, [Next]_vars
  PROVE  HistoryStep /\ Monotone
<1>1. CASE \E r \in Requests : Step(r) \/ Environment(r)
  BY <1>1, StepShape, EnvironmentShape
<1>2. CASE UNCHANGED vars
  BY <1>2 DEF vars, HistoryStep, Monotone, Early, Owner
<1> QED BY <1>1, <1>2 DEF Next, Quiescent

\* The document a handler has read is sound.
LEMMA SoundCopy ==
  ASSUME Monotone, NEW r \in Requests, NEW u, NEW doc \in Seq(Summary),
         SoundHistory(u, doc), Owner(r)' = u, seen'[r] = doc
  PROVE  SoundHistory(Owner(r), seen[r])'
<1>1. SoundHistory(u, doc)'
  BY SoundStays DEF Monotone
<1> QED BY <1>1 DEF SoundHistory

\* Every step keeps the histories sound.
LEMMA NextHistory ==
  ASSUME TypeInv, RequestInv, HistoryInv, [Next]_vars
  PROVE  HistoryInv'
<1>1. HistoryStep /\ Monotone
  BY NextShape
<1>2. TypeOK
  BY DEF TypeInv
<1>3. \A u \in Users : Versions(u) \subseteq Seq(Summary)
  BY <1>2 DEF TypeOK, Versions
<1>4. \A u \in Users : \A doc \in Versions(u) : SoundHistory(u, doc) /\ SoundHistory(u, doc)'
  BY <1>1, <1>3, SoundStays DEF Monotone, HistoryInv, HistorySound
<1>5. \A r \in Requests : Owner(r) \in Users /\ seen[r] \in Seq(Summary)
  BY <1>2 DEF TypeOK, Owner, Draft
<1>6. \A r \in Requests : seen'[r] = seen[r] => SoundHistory(Owner(r), seen[r])'
  <2> SUFFICES ASSUME NEW r \in Requests, seen'[r] = seen[r]
               PROVE  SoundHistory(Owner(r), seen[r])'
    OBVIOUS
  <2>1. SoundHistory(Owner(r), seen[r]) /\ Owner(r)' = Owner(r)
    BY <1>1 DEF HistoryInv, Monotone
  <2> QED BY <1>1, <1>5, <2>1, SoundCopy
<1>7. \A r \in Requests : Early(r)' => Early(r) /\ Unlisted(r)
  BY <1>1 DEF HistoryInv, Monotone
<1>8. CASE UNCHANGED <<index, past, seen>>
  <2>1. HistorySound'
    BY <1>4, <1>8 DEF HistorySound, Versions
  <2>2. \A r \in Requests : Early(r)' => Unlisted(r)'
    BY <1>7, <1>8 DEF Unlisted, Versions
  <2> QED BY <1>6, <1>8, <2>1, <2>2 DEF HistoryInv
<1>9. ASSUME NEW r \in Requests, Loads(r) PROVE HistoryInv'
  <2>1. PICK doc \in Versions(Owner(r)) : seen' = [seen EXCEPT ![r] = doc]
    BY <1>9 DEF Loads
  <2>2. seen'[r] = doc /\ \A q \in Requests \ {r} : seen'[q] = seen[q]
    BY <1>2, <2>1 DEF TypeOK
  <2>3. HistorySound'
    BY <1>4, <1>9 DEF HistorySound, Versions, Loads
  <2>4. SoundHistory(Owner(r), seen[r])'
    <3>1. doc \in Seq(Summary) /\ SoundHistory(Owner(r), doc) /\ Owner(r)' = Owner(r)
      BY <1>1, <1>3, <1>4, <1>5 DEF Monotone
    <3> QED BY <1>1, <2>2, <3>1, SoundCopy
  <2>5. \A q \in Requests : SoundHistory(Owner(q), seen[q])'
    BY <1>6, <2>2, <2>4
  <2>6. \A q \in Requests : Early(q)' => Unlisted(q)'
    <3> SUFFICES ASSUME NEW q \in Requests, Unlisted(q) PROVE Unlisted(q)'
      BY <1>7
    <3>1. \A s \in Requests : q \notin Listed(seen'[s])
      BY <1>5, <2>2 DEF Unlisted
    <3> QED BY <1>9, <3>1 DEF Unlisted, Versions, Loads, Listed
  <2> QED BY <2>3, <2>5, <2>6 DEF HistoryInv
<1>10. ASSUME NEW r \in Requests, Puts(r) PROVE HistoryInv'
  <2>1. PICK u \in Users : u = Owner(r)
    BY <1>5
  <2>2. r \notin Listed(seen[r]) /\ SoundHistory(u, seen[r])
    BY <1>10, <2>1 DEF Puts, HistoryInv, Early, Unlisted
  <2>3. orders[r] = draft[r] /\ draft[r].status \in Verdict
    BY <1>10 DEF Puts, RequestInv, RecordInv, Saved
  <2>4. /\ Entry(r) \in Summary /\ Entry(r).id = r /\ Entry(r).status = orders[r].status
        /\ orders[r] # NoOrder /\ orders[r].owner = u
    BY <1>2, <2>1, <2>3, DecidedIsOrder DEF Entry, Summary, Owner
  <2>5. PICK new : new = Append(seen[r], Entry(r))
    OBVIOUS
  <2>6. new \in Seq(Summary) /\ SoundHistory(u, new) /\ Listed(new) = Listed(seen[r]) \cup {r}
    BY <1>5, <2>2, <2>4, <2>5, SoundAppend
  <2>7. SoundHistory(u, new)'
    BY <1>1, <2>6, SoundStays DEF Monotone
  <2>8. \A v \in Users : \A doc \in Versions(v)' : doc \in Versions(v) \/ (v = u /\ doc = new)
    <3>1. /\ index' = [index EXCEPT ![u] = new]
          /\ past' = [past EXCEPT ![u] = past[u] \cup {index[u]}]
      BY <1>10, <2>1, <2>5 DEF Puts, PutIndex
    <3> QED BY <1>2, <3>1 DEF Versions, TypeOK
  <2>9. HistorySound'
    BY <1>4, <2>7, <2>8 DEF HistorySound
  <2>10. \A q \in Requests : SoundHistory(Owner(q), seen[q])'
    BY <1>6, <1>10 DEF Puts
  <2>11. \A q \in Requests : Early(q)' => Unlisted(q)'
    <3> SUFFICES ASSUME NEW q \in Requests, Early(q)' PROVE Unlisted(q)'
      OBVIOUS
    <3>1. q # r /\ Unlisted(q)
      BY <1>7, <1>10 DEF Puts
    <3>2. q \notin Listed(new)
      BY <2>6, <3>1 DEF Unlisted
    <3>3. \A v \in Users : \A doc \in Versions(v)' : q \notin Listed(doc)
      BY <2>8, <3>1, <3>2 DEF Unlisted
    <3>4. \A s \in Requests : q \notin Listed(seen'[s])
      BY <1>10, <3>1 DEF Puts, Unlisted
    <3> QED BY <3>3, <3>4 DEF Unlisted, Listed
  <2> QED BY <2>9, <2>10, <2>11 DEF HistoryInv
<1> QED BY <1>1, <1>8, <1>9, <1>10 DEF HistoryStep

-----------------------------------------------------------------------------
(* The theorems that rest on the whole invariant.                          *)

IInv == TypeInv /\ RequestInv /\ HistoryInv

\* The inductive invariant always holds.
LEMMA Invariance == Spec => []IInv
<1>1. Init => IInv
  BY InitType, InitRequest, InitHistory DEF IInv
<1>2. IInv /\ [Next]_vars => IInv'
  BY NextType, NextRequest, NextHistory DEF IInv
<1> QED BY <1>1, <1>2, PTL DEF Spec

\* Every version of every history document lists durable orders of its user only,
\* with the status they were saved with and none of them twice, although
\* AppendToUserIndex is an unlocked read-modify-write on possibly stale reads.
THEOREM HistoryIsSound == Spec => []HistorySound
<1>1. IInv => HistorySound
  BY DEF IInv, HistoryInv
<1> QED BY <1>1, Invariance, PTL

\* Whatever fails, a 200 names a durable order and a real shipment, a 400 means that
\* nothing happened, and a 502 means that nothing was announced or listed.
THEOREM AnswersAreTruthful == Spec => []AnswerTruthful
<1>1. IInv => AnswerTruthful
  <2> SUFFICES ASSUME IInv, NEW r \in Requests
               PROVE  /\ answer[r] = "200" =>
                           /\ orders[r] = draft[r] /\ draft[r].status # "pending"
                           /\ draft[r].tracked => r \in shipments
                      /\ answer[r] = "400" =>
                           orders[r] = NoOrder /\ r \notin charged \cup shipments \cup events
                      /\ answer[r] = "502" =>
                           r \notin events /\ \A u \in Users : r \notin Listed(index[u])
    BY DEF AnswerTruthful
  <2>1. MoneyInv(r) /\ AnswerInv(r) /\ (Early(r) => Unlisted(r))
    BY DEF IInv, RequestInv, HistoryInv
  <2> QED BY <2>1 DEF MoneyInv, AnswerInv, Early, Unlisted, Versions, Verdict
<1> QED BY <1>1, Invariance, PTL

-----------------------------------------------------------------------------
(* The service implements the order book that may lose listings.           *)

\* How an order of the table appears in the book.
InBook(o) == IF o = NoOrder THEN [owner |-> "nobody", status |-> "none"]
             ELSE [owner |-> o.owner, status |-> o.status]

LEMMA BookEntries ==
  /\ bookBar = [r \in Requests |-> InBook(orders[r])]
  /\ LossyBook!Absent = InBook(NoOrder)
  BY DEF bookBar, InBook, LossyBook!Absent

\* Only an absent order looks absent: a saved one has its verdict.
LEMMA AbsentInBook ==
  ASSUME TypeOK, NEW r \in Requests
  PROVE  bookBar[r] = LossyBook!Absent <=> orders[r] = NoOrder
<1>1. orders[r] \in Order \cup {NoOrder} /\ bookBar[r] = InBook(orders[r])
  BY BookEntries DEF TypeOK
<1>2. orders[r] \in Order => orders[r].status # "none" /\ orders[r].status \in Verdict
  BY DEF Order, Verdict
<1>3. orders[r] # NoOrder => InBook(orders[r]).status = orders[r].status
  BY DEF InBook
<1>4. InBook(NoOrder).status = "none"
  BY DEF InBook
<1> QED BY <1>1, <1>2, <1>3, <1>4, BookEntries

LEMMA BookInit == Init => LossyBook!Init
<1> SUFFICES ASSUME Init PROVE LossyBook!Init
  OBVIOUS
<1>1. bookBar = [r \in Requests |-> LossyBook!Absent]
  BY BookEntries DEF Init
<1>2. listedBar = [u \in Users |-> <<>>]
  <2>1. \A u \in Users : [i \in DOMAIN index[u] |-> index[u][i].id] = <<>>
    BY DEF Init
  <2> QED BY <2>1 DEF listedBar
<1> QED BY <1>1, <1>2 DEF Init, LossyBook!Init

-----------------------------------------------------------------------------
(* Each kind of change is a step of the book.                              *)

LEMMA PayStep ==
  ASSUME IInv, NEW r \in Requests, stage[r] = "charge", charged' = charged \cup {r},
         UNCHANGED <<orders, index, events>>
  PROVE  LossyBook!Pay(r)
<1>1. r \notin charged /\ orders[r] = NoOrder /\ TypeOK
  BY DEF IInv, RequestInv, MoneyInv, RecordInv, Unsaved, TypeInv
<1> QED BY <1>1, AbsentInBook DEF LossyBook!Pay, bookBar, listedBar

LEMMA RecordStep ==
  ASSUME IInv, NEW r \in Requests, stage[r] = "save",
         orders' = [orders EXCEPT ![r] = draft[r]], UNCHANGED <<charged, index, events>>
  PROVE  LossyBook!Record(r)
<1>1. TypeOK /\ orders[r] = NoOrder /\ draft[r].status \in Verdict
  BY DEF IInv, RequestInv, RecordInv, Unsaved, TypeInv, Decided
<1>2. draft[r].owner \in Users /\ draft[r] # NoOrder
  BY <1>1, DecidedIsOrder DEF Order
<1>3. bookBar' = [bookBar EXCEPT ![r] = [owner |-> draft[r].owner, status |-> draft[r].status]]
  BY <1>1, <1>2 DEF TypeOK, bookBar
<1>4. \/ draft[r].status = "placed" /\ r \in charged
      \/ draft[r].status = "declined" /\ r \notin charged
  BY <1>1 DEF IInv, RequestInv, MoneyInv, Verdict
<1>5. listedBar' = listedBar
  BY DEF listedBar
<1> QED BY <1>1, <1>2, <1>3, <1>4, <1>5, AbsentInBook DEF LossyBook!Record

LEMMA AnnounceStep ==
  ASSUME IInv, NEW r \in Requests, stage[r] = "emit", events' = events \cup {r},
         UNCHANGED <<charged, orders, index>>
  PROVE  LossyBook!Announce(r)
<1>1. /\ orders[r] = draft[r] /\ draft[r].status = "placed" /\ r \notin events /\ TypeOK
  BY DEF IInv, RequestInv, MoneyInv, RecordInv, Saved, TypeInv
<1>2. orders[r] # NoOrder
  BY <1>1, DecidedIsOrder DEF Verdict
<1>3. bookBar[r].status = "placed"
  BY <1>1, <1>2 DEF bookBar
<1> QED BY <1>1, <1>3 DEF LossyBook!Announce, bookBar, listedBar

\* The history a handler puts is a listing the book allows.
LEMMA ListStep ==
  ASSUME IInv, IInv', NEW r \in Requests, stage[r] = "writeIndex", PutIndex(r),
         UNCHANGED <<charged, orders, events>>
  PROVE  \E u \in Users : LossyBook!List(r, u)
<1>1. PICK u \in Users : u = Owner(r)
  BY DEF IInv, TypeInv, TypeOK, Owner, Draft
<1>2. TypeOK /\ TypeOK' /\ HistoryInv /\ HistorySound'
  BY DEF IInv, TypeInv, HistoryInv
<1>3. /\ orders[r] = draft[r] /\ draft[r].status \in Verdict /\ seen[r] \in Seq(Summary)
      /\ orders[r] # NoOrder /\ Entry(r) \in Summary /\ Entry(r).id = r
  BY <1>2, DecidedIsOrder DEF IInv, RequestInv, RecordInv, Saved, TypeOK, Entry, Summary
<1>4. PICK new : new = Append(seen[r], Entry(r))
  OBVIOUS
<1>5. /\ index' = [index EXCEPT ![u] = new] /\ index'[u] = new
      /\ new \in Seq(Summary) /\ Len(new) = Len(seen[r]) + 1 /\ Len(seen[r]) \in Nat
      /\ new[Len(new)] = Entry(r) /\ DOMAIN new = 1..Len(new)
  BY <1>1, <1>2, <1>3, <1>4 DEF PutIndex, TypeOK
<1>6. SoundHistory(u, new)'
  BY <1>2, <1>5 DEF HistorySound, Versions
<1> DEFINE ids == [i \in DOMAIN new |-> new[i].id]
<1>7. /\ listedBar'[u] = ids /\ \A v \in Users \ {u} : listedBar'[v] = listedBar[v]
  BY <1>2, <1>5 DEF listedBar, TypeOK
<1>8. Len(ids) = Len(new) /\ ids # <<>> /\ ids[Len(ids)] = r /\ DOMAIN ids = DOMAIN new
  BY <1>3, <1>5
<1>9. \A i \in DOMAIN ids : LossyBook!Belongs(ids[i], u)
  <2> SUFFICES ASSUME NEW i \in DOMAIN new PROVE LossyBook!Belongs(new[i].id, u)
    BY <1>8
  <2>0. new[i] \in Summary
    BY <1>5
  <2>1. new[i].id \in Requests
    BY <2>0 DEF Summary
  <2>2. orders[new[i].id] # NoOrder /\ orders[new[i].id].owner = u
    BY <1>6 DEF SoundHistory
  <2> QED BY <1>2, <2>1, <2>2, AbsentInBook DEF LossyBook!Belongs, bookBar
<1>10. \A i, j \in DOMAIN ids : ids[i] = ids[j] => i = j
  BY <1>6, <1>8 DEF SoundHistory
<1>11. \A i \in DOMAIN listedBar[u] : listedBar[u][i] # r
  <2>1. r \notin Listed(index[u])
    BY <1>2 DEF HistoryInv, Early, Unlisted, Versions
  <2> QED BY <2>1 DEF Listed, listedBar
<1>12. LossyBook!Belongs(r, u)
  BY <1>1, <1>2, <1>3, AbsentInBook DEF LossyBook!Belongs, bookBar, Owner
<1>13. bookBar' = bookBar
  BY DEF bookBar
<1> HIDE DEF ids
<1>14. LossyBook!List(r, u)
  BY <1>7, <1>8, <1>9, <1>10, <1>11, <1>12, <1>13 DEF LossyBook!List, LossyBook!Belongs
<1> QED BY <1>14

-----------------------------------------------------------------------------
(* Every step is one of these, or none that the book sees.                 *)

BookStutters == UNCHANGED <<charged, orders, index, events>>

\* The history is written.
Lists(r) == stage[r] = "writeIndex" /\ PutIndex(r) /\ UNCHANGED <<charged, orders, events>>

LEMMA HandlerInBook ==
  ASSUME IInv, IInv', NEW r \in Requests, Step(r)
  PROVE  \/ LossyBook!Pay(r) \/ LossyBook!Record(r) \/ LossyBook!Announce(r)
         \/ Lists(r) /\ \E u \in Users : LossyBook!List(r, u)
         \/ BookStutters
<1>1. CASE Approve(r)
  BY <1>1, PayStep DEF Approve
<1>2. CASE ChargeFails(r)
  BY <1>2, PayStep DEF ChargeFails, BookStutters
<1>3. CASE Save(r)
  BY <1>3, RecordStep DEF Save
<1>4. CASE SaveFails(r)
  BY <1>4, RecordStep DEF SaveFails, BookStutters
<1>5. CASE WriteIndex(r)
  BY <1>5, ListStep DEF WriteIndex, Lists
<1>6. CASE WriteIndexFails(r)
  BY <1>6, ListStep DEF WriteIndexFails, BookStutters, Lists
<1>7. CASE Emit(r)
  BY <1>7, AnnounceStep DEF Emit
<1>8. CASE EmitFails(r)
  BY <1>8, AnnounceStep DEF EmitFails, BookStutters
<1>9. CASE Decline(r) \/ Ship(r) \/ ShipFails(r) \/ ReadIndex(r) \/ ReadIndexFails(r) \/ Respond(r)
  BY <1>9 DEF Decline, Ship, ShipFails, ReadIndex, ReadIndexFails, Respond, remote, BookStutters
<1> QED BY <1>1, <1>2, <1>3, <1>4, <1>5, <1>6, <1>7, <1>8, <1>9 DEF Step

LEMMA NextInBook == IInv /\ IInv' /\ [Next]_vars => [LossyBook!Next]_(LossyBook!vars)
<1> SUFFICES ASSUME IInv, IInv', [Next]_vars PROVE LossyBook!Next \/ UNCHANGED LossyBook!vars
  OBVIOUS
<1>1. BookStutters => UNCHANGED LossyBook!vars
  BY DEF BookStutters, LossyBook!vars, bookBar, listedBar
<1>2. ASSUME NEW r \in Requests, Step(r) PROVE LossyBook!Next \/ BookStutters
  BY <1>2, HandlerInBook DEF LossyBook!Next
<1>3. ASSUME NEW r \in Requests, Environment(r) PROVE BookStutters
  BY <1>3 DEF Environment, Accept, Reject, CutOff, Leave, Crash, local, remote, BookStutters
<1>4. CASE UNCHANGED vars
  BY <1>1, <1>4 DEF vars, BookStutters
<1> QED BY <1>1, <1>2, <1>3, <1>4 DEF Next, Quiescent

\* Whatever fails, hangs, crashes or is read late, the orders service does to its
\* tables only what an order book that may lose listings allows: entries are final,
\* paid before they are placed, and listed and announced after (main.go:76-160).
THEOREM ImplementsOrderBook == Spec => ImplementsLossyBook
<1>1. Init => LossyBook!Init
  BY BookInit
<1>2. IInv /\ IInv' /\ [Next]_vars => [LossyBook!Next]_(LossyBook!vars)
  BY NextInBook
<1>3. Spec => []IInv
  BY Invariance
<1> QED BY <1>1, <1>2, <1>3, PTL DEF Spec, ImplementsLossyBook, LossyBook!Spec

-----------------------------------------------------------------------------
(* Checkouts of a user one after another, on a consistent table that       *)
(* answers, for callers who stay: no listing is lost.                      *)

Orderly == SerialUsers /\ ~StaleReads /\ {"store", "client"} \cap Outages = {}

Listing(r) == stage[r] \in {"emit", "respond"} \/ answer[r] = "200"

\* Users take turns, so what a handler has read is still what there is.
SerialInv ==
    /\ \A r, s \in Requests : InFlight(r) /\ InFlight(s) /\ Owner(r) = Owner(s) => r = s
    /\ \A r \in Requests : client[r] # "gone"
    /\ \A r \in Requests : stage[r] = "writeIndex" => seen[r] = index[Owner(r)]
    /\ \A r \in Requests : Listing(r) => r \in Listed(index[Owner(r)])

LEMMA InitSerial == Init => SerialInv
  BY DEF Init, SerialInv, InFlight, Calling, Listing

\* An append lists the new order and all that were.
LEMMA PutLists ==
  ASSUME TypeInv, NEW r \in Requests, stage[r] = "writeIndex", PutIndex(r), seen[r] = index[Owner(r)]
  PROVE  /\ Listed(index'[Owner(r)]) = Listed(index[Owner(r)]) \cup {r}
         /\ \A u \in Users \ {Owner(r)} : index'[u] = index[u]
<1>1. /\ Owner(r) \in Users /\ seen[r] \in Seq(Summary) /\ Entry(r) \in Summary /\ Entry(r).id = r
  BY DEF TypeInv, TypeOK, Decided, Owner, Draft, Entry, Summary
<1>2. PICK doc \in Seq(Summary), e \in Summary : doc = index[Owner(r)] /\ e = Entry(r)
  BY <1>1
<1>3. index'[Owner(r)] = Append(doc, e) /\ \A u \in Users \ {Owner(r)} : index'[u] = index[u]
  BY <1>1, <1>2 DEF PutIndex, TypeInv, TypeOK
<1>4. Listed(Append(doc, e)) = Listed(doc) \cup {e.id}
  <2>1. /\ DOMAIN Append(doc, e) = DOMAIN doc \cup {Len(doc) + 1}
        /\ \A i \in DOMAIN doc : Append(doc, e)[i] = doc[i]
        /\ Append(doc, e)[Len(doc) + 1] = e
    BY <1>2
  <2> QED BY <2>1 DEF Listed
<1> QED BY <1>1, <1>2, <1>3, <1>4

\* No owner changes, and a handler comes in flight only alone.
LEMMA TurnsStep ==
  ASSUME Orderly, IInv, SerialInv, NEW r \in Requests, Step(r) \/ Environment(r)
  PROVE  /\ \A q \in Requests : Owner(q)' = Owner(q)
         /\ \A q \in Requests \ {r} : stage'[q] = stage[q] /\ answer'[q] = answer[q] /\ seen'[q] = seen[q]
         /\ \A q \in Requests : client'[q] # "gone"
         /\ \A q \in Requests \ {r} : InFlight(r)' /\ InFlight(q) => Owner(q) # Owner(r)
<1> USE DEF IInv, TypeInv, TypeOK, Owner, InFlight, Calling
<1>1. /\ ~CanFail(r, "store") /\ "client" \notin Outages /\ SerialUsers
      /\ \A q \in Requests : client[q] # "gone"
  BY DEF Orderly, SerialInv, CanFail, Live
<1>2. \A q \in Requests \ {r} : InFlight(r) /\ InFlight(q) => Owner(q) # Owner(r)
  BY DEF SerialInv
<1>3. \A q \in Requests : Owner(q)' = Owner(q)
  BY StepShape, EnvironmentShape DEF Monotone
<1>4. \A q \in Requests \ {r} : stage'[q] = stage[q] /\ answer'[q] = answer[q] /\ seen'[q] = seen[q]
  BY DEF Step, Environment, Approve, Decline, ChargeFails, Ship, ShipFails, Save, SaveFails, ReadIndex,
         ReadIndexFails, WriteIndex, WriteIndexFails, Emit, EmitFails, Respond, Accept, Reject, CutOff,
         Leave, Crash, local, Goto, Fail502
<1>5. \A q \in Requests : client'[q] # "gone"
  BY <1>1 DEF Step, Environment, Approve, Decline, ChargeFails, Ship, ShipFails, Save, SaveFails, ReadIndex,
         ReadIndexFails, WriteIndex, WriteIndexFails, Emit, EmitFails, Respond, Accept, Reject, CutOff,
         Leave, Crash
<1>6. InFlight(r)' => InFlight(r) \/ Accept(r)
  BY DEF Step, Environment, Approve, Decline, ChargeFails, Ship, ShipFails, Save, SaveFails, ReadIndex,
         ReadIndexFails, WriteIndex, WriteIndexFails, Emit, EmitFails, Respond, Reject, CutOff,
         Leave, Crash, local, Goto, Fail502
<1>7. Accept(r) => \A q \in Requests \ {r} : InFlight(q) => Owner(q) # Owner(r)
  BY <1>1 DEF Accept, Unshared
<1> QED BY <1>2, <1>3, <1>4, <1>5, <1>6, <1>7

\* What a step does to the histories, and what it needs to list an order.
LEMMA SerialShape ==
  ASSUME Orderly, IInv, SerialInv, NEW r \in Requests, Step(r) \/ Environment(r)
  PROVE  /\ index' = index \/ (stage[r] = "writeIndex" /\ PutIndex(r))
         /\ stage'[r] = "writeIndex" => index' = index /\ seen'[r] = index[Owner(r)]
         /\ Listing(r)' => Listing(r) \/ (stage[r] = "writeIndex" /\ PutIndex(r))
<1> USE DEF IInv, TypeInv, TypeOK, Goto, Listing
<1>1. ~CanFail(r, "store") /\ ~StaleReads
  BY DEF Orderly, SerialInv, CanFail, Live
<1>2. CASE ReadIndex(r)
  BY <1>1, <1>2 DEF ReadIndex, Readable, remote
<1>3. CASE WriteIndex(r)
  BY <1>3 DEF WriteIndex, AfterIndex
<1>4. CASE CutOff(r) \/ Leave(r) \/ Crash(r) \/ Accept(r) \/ Reject(r)
  BY <1>4 DEF CutOff, Leave, Crash, Accept, Reject, local, remote, SerialInv
<1>5. CASE Approve(r) \/ Decline(r) \/ ChargeFails(r) \/ Ship(r) \/ ShipFails(r) \/ Save(r)
  BY <1>5 DEF Approve, Decline, ChargeFails, Ship, ShipFails, Save, Fail502, remote
<1>6. CASE Emit(r) \/ EmitFails(r) \/ Respond(r)
  BY <1>6 DEF Emit, EmitFails, Respond, remote
<1>7. ~SaveFails(r) /\ ~ReadIndexFails(r) /\ ~WriteIndexFails(r)
  BY <1>1 DEF SaveFails, ReadIndexFails, WriteIndexFails
<1> QED BY <1>2, <1>3, <1>4, <1>5, <1>6, <1>7 DEF Step, Environment

LEMMA SerialStep ==
  ASSUME Orderly, IInv, SerialInv, NEW r \in Requests, Step(r) \/ Environment(r)
  PROVE  SerialInv'
<1>0. TypeInv
  BY DEF IInv
<1>1. \A p, q \in Requests : (InFlight(p) /\ InFlight(q) /\ Owner(p) = Owner(q))' => p = q
  BY TurnsStep DEF SerialInv, InFlight
<1>2. \A q \in Requests : client'[q] # "gone"
  BY TurnsStep
<1>3. ASSUME NEW q \in Requests, stage'[q] = "writeIndex" PROVE seen'[q] = index'[Owner(q)']
  <2>1. CASE q = r
    BY <1>3, <2>1, TurnsStep, SerialShape
  <2>2. CASE q # r
    <3>1. seen'[q] = index[Owner(q)] /\ stage[q] = "writeIndex" /\ Owner(q)' = Owner(q)
      BY <1>3, <2>2, TurnsStep DEF SerialInv
    <3>2. stage[r] = "writeIndex" => Owner(q) # Owner(r)
      BY <2>2, <3>1 DEF SerialInv, InFlight, Calling
    <3>3. Owner(q) \in Users
      BY <1>0 DEF TypeInv, TypeOK, Owner, Draft
    <3>4. index'[Owner(q)] = index[Owner(q)]
      BY <1>0, <3>2, <3>3, SerialShape, PutLists DEF SerialInv
    <3> QED BY <3>1, <3>4
  <2> QED BY <2>1, <2>2
<1>4. \A u \in Users : Listed(index[u]) \subseteq Listed(index'[u])
  <2>1. CASE index' = index
    BY <2>1
  <2>2. CASE stage[r] = "writeIndex" /\ PutIndex(r)
    <3>1. seen[r] = index[Owner(r)]
      BY <2>2 DEF SerialInv
    <3> QED BY <1>0, <2>2, <3>1, PutLists
  <2> QED BY <2>1, <2>2, SerialShape
<1>5. ASSUME NEW q \in Requests, Listing(q)' PROVE q \in Listed(index'[Owner(q)'])
  <2>0. Owner(q)' = Owner(q) /\ Owner(q) \in Users
    BY <1>0, TurnsStep DEF TypeInv, TypeOK, Owner, Draft
  <2>1. CASE Listing(q)
    <3>1. q \in Listed(index[Owner(q)])
      BY <2>1 DEF SerialInv
    <3> QED BY <1>4, <2>0, <3>1
  <2>2. CASE ~Listing(q)
    <3>1. q = r
      BY <1>5, <2>2, TurnsStep DEF Listing
    <3>2. stage[r] = "writeIndex" /\ PutIndex(r) /\ seen[r] = index[Owner(r)]
      BY <1>5, <2>2, <3>1, SerialShape DEF SerialInv
    <3> QED BY <1>0, <2>0, <3>1, <3>2, PutLists
  <2> QED BY <2>1, <2>2
<1>6. \A q \in Requests : Listing(q)' => (q \in Listed(index[Owner(q)]))'
  BY <1>5 DEF Listed
<1> QED BY <1>1, <1>2, <1>3, <1>6 DEF SerialInv

LEMMA SerialHolds == Orderly => (Spec => [](IInv /\ SerialInv))
<1> SUFFICES ASSUME Orderly PROVE Spec => [](IInv /\ SerialInv)
  OBVIOUS
<1>1. IInv /\ SerialInv /\ [Next]_vars => SerialInv'
  <2> SUFFICES ASSUME IInv, SerialInv, [Next]_vars PROVE SerialInv'
    OBVIOUS
  <2>1. CASE \E r \in Requests : Step(r) \/ Environment(r)
    BY <2>1, SerialStep
  <2>2. CASE UNCHANGED vars
    BY <2>2 DEF vars, SerialInv, InFlight, Listing, Listed, Owner
  <2> QED BY <2>1, <2>2 DEF Next, Quiescent
<1> QED BY <1>1, InitSerial, Invariance, PTL DEF Spec

\* On a consistent table that answers, with a user's checkouts made one after
\* another by callers who stay, every order that was answered is in its owner's
\* history, though AppendToUserIndex locks nothing (orders.go:116-135).
THEOREM SerialHistoryIsComplete == Orderly => (Spec => []SerialHistoryComplete)
<1> SUFFICES ASSUME Orderly PROVE Spec => []SerialHistoryComplete
  OBVIOUS
<1>1. IInv /\ SerialInv => SerialHistoryComplete
  BY DEF SerialInv, SerialHistoryComplete, Listing
<1>2. Spec => [](IInv /\ SerialInv)
  BY SerialHolds
<1> QED BY <1>1, <1>2, PTL

\* Then an append of what was read is an append of what there is.
LEMMA ExactListStep ==
  ASSUME IInv, IInv', SerialInv, NEW r \in Requests, Lists(r), NEW u \in Users, LossyBook!List(r, u)
  PROVE  ExactBook!List(r, u)
<1>1. TypeOK /\ u = Owner(r) /\ seen[r] = index[u]
  <2>1. TypeOK /\ orders[r] = draft[r] /\ draft[r].status \in Verdict
    BY DEF Lists, IInv, TypeInv, RequestInv, RecordInv, Saved
  <2>2. bookBar[r].owner = draft[r].owner
    BY <2>1, DecidedIsOrder DEF bookBar
  <2>3. u = Owner(r)
    BY <2>2 DEF LossyBook!List, LossyBook!Belongs, Owner
  <2> QED BY <2>1, <2>3 DEF Lists, SerialInv
<1>2. Entry(r) \in Summary /\ Entry(r).id = r
  BY <1>1 DEF Lists, IInv, TypeInv, Decided, Entry, Summary
<1>3. PICK doc \in Seq(Summary), e \in Summary : doc = index[u] /\ e = Entry(r)
  BY <1>1, <1>2 DEF TypeOK
<1>4. index'[u] = Append(doc, e)
  BY <1>1, <1>3 DEF Lists, PutIndex, TypeOK
<1>5. listedBar[u] = [i \in 1..Len(doc) |-> doc[i].id] /\ Len(doc) \in Nat
  BY <1>3 DEF listedBar
<1>6. listedBar'[u] = [i \in 1..(Len(doc) + 1) |-> Append(doc, e)[i].id]
  <2>1. DOMAIN Append(doc, e) = 1..(Len(doc) + 1)
    BY <1>3
  <2> QED BY <1>4, <2>1 DEF listedBar
<1>7. [i \in 1..(Len(doc) + 1) |-> Append(doc, e)[i].id] = Append([i \in 1..Len(doc) |-> doc[i].id], r)
  <2>1. \A i \in 1..(Len(doc) + 1) : Append(doc, e)[i].id = IF i = Len(doc) + 1 THEN r ELSE doc[i].id
    BY <1>2, <1>3
  <2>2. [i \in 1..Len(doc) |-> doc[i].id] \in Seq(Requests)
    <3>1. \A i \in 1..Len(doc) : doc[i] \in Summary
      BY <1>3
    <3> QED BY <1>5, <3>1 DEF Summary
  <2> QED BY <1>5, <2>1, <2>2
<1>8. listedBar'[u] = Append(listedBar[u], r)
  BY <1>5, <1>6, <1>7
<1> QED BY <1>8 DEF LossyBook!List, ExactBook!List, LossyBook!Belongs, ExactBook!Belongs,
                     LossyBook!Absent, ExactBook!Absent

LEMMA NextInExactBook == IInv /\ IInv' /\ SerialInv /\ [Next]_vars => [ExactBook!Next]_(ExactBook!vars)
<1> SUFFICES ASSUME IInv, IInv', SerialInv, [Next]_vars PROVE ExactBook!Next \/ UNCHANGED ExactBook!vars
  OBVIOUS
<1>1. BookStutters => UNCHANGED ExactBook!vars
  BY DEF BookStutters, ExactBook!vars, bookBar, listedBar
<1>2. ASSUME NEW r \in Requests, Step(r) PROVE ExactBook!Next \/ BookStutters
  <2>1. CASE LossyBook!Pay(r) \/ LossyBook!Record(r) \/ LossyBook!Announce(r)
    <3>1. LossyBook!Pay(r) => ExactBook!Pay(r)
      BY DEF LossyBook!Pay, ExactBook!Pay, LossyBook!Absent, ExactBook!Absent
    <3>2. LossyBook!Record(r) => ExactBook!Record(r)
      BY DEF LossyBook!Record, ExactBook!Record, LossyBook!Absent, ExactBook!Absent
    <3>3. LossyBook!Announce(r) => ExactBook!Announce(r)
      BY DEF LossyBook!Announce, ExactBook!Announce
    <3> QED BY <2>1, <3>1, <3>2, <3>3 DEF ExactBook!Next
  <2>2. CASE Lists(r) /\ \E u \in Users : LossyBook!List(r, u)
    BY <2>2, ExactListStep DEF ExactBook!Next
  <2> QED BY <1>2, <2>1, <2>2, HandlerInBook
<1>3. ASSUME NEW r \in Requests, Environment(r) PROVE BookStutters
  BY <1>3 DEF Environment, Accept, Reject, CutOff, Leave, Crash, local, remote, BookStutters
<1>4. CASE UNCHANGED vars
  BY <1>1, <1>4 DEF vars, BookStutters
<1> QED BY <1>1, <1>2, <1>3, <1>4 DEF Next, Quiescent

\* Under the same conditions the service implements the book that loses nothing,
\* whatever payment, dispatch and the queue do, and wherever a pod dies.
THEOREM ImplementsOrderBookExactly == Orderly => (Spec => ImplementsExactBook)
<1> SUFFICES ASSUME Orderly PROVE Spec => ImplementsExactBook
  OBVIOUS
<1>1. Init => ExactBook!Init
  BY BookInit DEF LossyBook!Init, ExactBook!Init, LossyBook!Absent, ExactBook!Absent
<1>2. IInv /\ IInv' /\ SerialInv /\ [Next]_vars => [ExactBook!Next]_(ExactBook!vars)
  BY NextInExactBook
<1>3. Spec => [](IInv /\ SerialInv)
  BY SerialHolds
<1> QED BY <1>1, <1>2, <1>3, PTL DEF Spec, ImplementsExactBook, ExactBook!Spec
====
