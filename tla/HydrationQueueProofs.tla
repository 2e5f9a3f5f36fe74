------------------------ MODULE HydrationQueueProofs ------------------------
(***************************************************************************)
(* Proofs about refresh_url and the hydration queue.                        *)
(*                                                                          *)
(* RefreshInv is inductive for every step of a refresh; the lemmas are      *)
(* stated per step, so that the queue's next-state relation can cite them.  *)
(*                                                                          *)
(* QueueInv is inductive, so the store cap holds in every reachable state,  *)
(* and from it follow the action properties: a live lease is kept, DEAD is  *)
(* left by hand only, a late worker changes nothing.  Every step but a      *)
(* claim only lets rows leave PROCESSING (QueueKept); the claim is the one  *)
(* step for which the cap has to be counted.                                *)
(*                                                                          *)
(* OfferInv is inductive whatever refreshes overlap: a row is DONE only     *)
(* with an item, which an error may hide but not take back.                 *)
(***************************************************************************)
EXTENDS HydrationQueue, FiniteSetTheorems, TLAPS

USE DEF Offers, Parses, Failures

\* Ageing a row keeps its type and lets price and row age together.
LEMMA AgedRowType ==
  ASSUME NEW row \in ProductRow
  PROVE  /\ AgedRow(row) \in ProductRow
         /\ AgedRow(row).status = row.status
         /\ AgedRow(row).price = NoPrice <=> row.price = NoPrice
         /\ row.price = row.age /\ row.status # "NONE"
              => AgedRow(row).price = AgedRow(row).age
<1>1. PricedFresh \in Nat /\ NoPrice \notin Nat
  BY WindowsAssumption, NamesAssumption
<1>2. \A a \in Ages : Older(a) \in Ages /\ Older(a) # NoPrice
  BY <1>1 DEF Ages, Older
<1>3. 0 \in Ages
  BY <1>1 DEF Ages
<1>4. row.status \in {"NONE", "OK"} \cup Failures /\ row.age \in Ages
      /\ row.price \in Ages \cup {NoPrice} /\ row.hidden \in BOOLEAN
  BY DEF ProductRow
<1>6. AgedRow(row) \in ProductRow
  BY <1>2, <1>3, <1>4 DEF AgedRow, ProductRow
<1>7. AgedRow(row).price = NoPrice <=> row.price = NoPrice
  BY <1>2, <1>4 DEF AgedRow
<1>8. ASSUME row.price = row.age, row.status # "NONE"
      PROVE  AgedRow(row).price = AgedRow(row).age
  <2>1. row.price # NoPrice
    BY <1>1, <1>4, <1>8 DEF Ages
  <2> QED
    BY <1>8, <2>1 DEF AgedRow
<1> QED
  BY <1>6, <1>7, <1>8 DEF AgedRow

\* The success transaction keeps the type of the row, and the price of a row it
\* leaves OK is as old as the row.
LEMMA MergedType ==
  ASSUME NEW row \in ProductRow, NEW seen \in Parses, NEW age \in Ages
  PROVE  /\ Merged(row, seen, age) \in ProductRow
         /\ Merged(row, seen, age).status # "NONE"
<1>1. CASE row.status = "NONE"
  BY <1>1 DEF Merged, ProductRow
<1>2. CASE row.status # "NONE"
  BY <1>2 DEF Merged, ProductRow
<1> QED
  BY <1>1, <1>2

LEMMA MergedAge ==
  ASSUME NEW row \in ProductRow, NEW seen \in Parses, NEW age \in Ages,
         row.status = "NONE" => row.price = NoPrice,
         row.status = "OK" /\ row.price # NoPrice => row.price = row.age
  PROVE  Merged(row, seen, age).status = "OK" /\ Merged(row, seen, age).price # NoPrice
           => Merged(row, seen, age).price = Merged(row, seen, age).age
<1>1. CASE seen = "nameonly"
  BY <1>1 DEF Merged
<1>2. CASE seen # "nameonly"
  BY <1>2 DEF Merged
<1> QED
  BY <1>1, <1>2

-----------------------------------------------------------------------------
\* A thread that is idle or is somewhere inside refresh_url.
LEMMA ZeroAge == 0 \in Ages
  BY WindowsAssumption DEF Ages

LEMMA IdleTaskOK == IdleTask \in Task /\ TaskOK(IdleTask)
  BY ZeroAge DEF IdleTask, Task, Phases, TaskOK

LEMMA TaskAtOK ==
  ASSUME NEW p \in Pages, NEW phase \in {"held", "fetching"}
  PROVE  TaskAt(phase, p) \in Task /\ TaskOK(TaskAt(phase, p))
  BY ZeroAge DEF TaskAt, IdleTask, Task, Phases, TaskOK

LEMMA ReturnedOK ==
  ASSUME NEW t \in Threads, NEW k \in Task, k.page \in Pages, k.seen \in Outcomes
  PROVE  Returned(t, k) \in Task /\ TaskOK(Returned(t, k))
<1>1. [k EXCEPT !.phase = "returned"] \in Task
  BY DEF Task, Phases
<1>2. TaskOK([k EXCEPT !.phase = "returned"])
  BY DEF Task, TaskOK
<1> QED
  BY <1>1, <1>2, IdleTaskOK DEF Returned

\* The part of RefreshInv about tasks, and the part about rows.
TasksOK == task \in [Threads -> Task] /\ \A t \in Threads : TaskOK(task[t])
RowsOK ==
  /\ product \in [Pages -> ProductRow]
  /\ \A p \in Pages : product[p].status = "NONE" => product[p].price = NoPrice
  /\ PriceIsAsOldAsItsRow
LEMMA RefreshInvParts ==
  RefreshInv <=> /\ storeUrl \in [Pages -> UrlStates]
                 /\ lastError \in [Pages -> Failures \cup {"none"}]
                 /\ TasksOK /\ RowsOK
  BY DEF RefreshInv, TypeOKRefresh, TasksOK, RowsOK

LEMMA TaskUpdate ==
  ASSUME TasksOK, NEW t \in Threads, NEW k \in Task, TaskOK(k),
         task' = [task EXCEPT ![t] = k]
  PROVE  TasksOK'
<1>1. task' \in [Threads -> Task]
  BY DEF TasksOK
<1>2. ASSUME NEW u \in Threads PROVE TaskOK(task'[u])
  BY <1>2 DEF TasksOK
<1> QED
  BY <1>1, <1>2 DEF TasksOK, TaskOK

LEMMA RowUpdate ==
  ASSUME RowsOK, NEW p \in Pages, NEW row \in ProductRow,
         product' = [product EXCEPT ![p] = row],
         row.status = "NONE" => row.price = NoPrice,
         row.status = "OK" /\ row.price # NoPrice => row.price = row.age
  PROVE  RowsOK'
  BY DEF RowsOK, PriceIsAsOldAsItsRow

LEMMA TasksUnchanged == ASSUME TasksOK, UNCHANGED task PROVE TasksOK'
  BY DEF TasksOK, TaskOK
LEMMA RowsUnchanged == ASSUME RowsOK, UNCHANGED product PROVE RowsOK'
  BY DEF RowsOK, PriceIsAsOldAsItsRow

-----------------------------------------------------------------------------
\* Every step of one refresh preserves RefreshInv.
LEMMA StartRefreshStep ==
  ASSUME RefreshInv, NEW r \in Refreshers, NEW p \in Pages, StartRefresh(r, p)
  PROVE  RefreshInv'
<1>1. TasksOK'
  <2>1. r \in Threads
    BY DEF Threads
  <2> QED
    BY <2>1, RefreshInvParts, TaskAtOK, TaskUpdate DEF StartRefresh
<1> QED
  BY <1>1, RefreshInvParts, RowsUnchanged DEF StartRefresh, RefreshInv, TasksOK, RowsOK, TypeOKRefresh

LEMMA ParseStep ==
  ASSUME RefreshInv, NEW t \in Threads, Parse(t)
  PROVE  RefreshInv'
<1>1. PICK seen \in Parses :
        task' = [task EXCEPT ![t] = [task[t] EXCEPT !.phase = "parsed", !.seen = seen]]
  BY DEF Parse
<1> DEFINE k == [task[t] EXCEPT !.phase = "parsed", !.seen = seen]
<1>2. task[t] \in Task /\ task[t].page \in Pages
  BY RefreshInvParts DEF TasksOK, TaskOK, Parse
<1>3. k \in Task /\ TaskOK(k)
  BY <1>2 DEF Task, Phases, Outcomes, TaskOK
<1>4. TasksOK'
  BY <1>1, <1>3, RefreshInvParts, TaskUpdate
<1> QED
  BY <1>4, RefreshInvParts, RowsUnchanged DEF Parse, RefreshInv, TasksOK, RowsOK, TypeOKRefresh

LEMMA PersistStep ==
  ASSUME RefreshInv, NEW t \in Threads, Persist(t)
  PROVE  RefreshInv'
<1> DEFINE k == task[t]
           after == [k EXCEPT !.phase = "committed", !.age = 0]
           row == Merged(product[k.page], k.seen, k.age)
<1>1. k \in Task /\ k.page \in Pages /\ k.seen \in Parses /\ k.age \in Ages
  BY RefreshInvParts DEF TasksOK, TaskOK, Task, Persist
<1>2. after \in Task /\ TaskOK(after)
  BY <1>1, ZeroAge DEF Task, Phases, TaskOK
<1>3. TasksOK'
  BY <1>2, RefreshInvParts, TaskUpdate DEF Persist
<1>4. product[k.page] \in ProductRow
  BY <1>1, RefreshInvParts DEF RowsOK
<1>5. row \in ProductRow /\ row.status # "NONE"
  BY <1>1, <1>4, MergedType
<1>6. row.status = "OK" /\ row.price # NoPrice => row.price = row.age
  BY <1>1, <1>4, MergedAge, RefreshInvParts DEF RowsOK, PriceIsAsOldAsItsRow
<1>7. RowsOK'
  BY <1>1, <1>5, <1>6, RefreshInvParts, RowUpdate DEF Persist
<1> QED
  BY <1>1, <1>3, <1>7, RefreshInvParts
  DEF Persist, RefreshInv, TasksOK, RowsOK, TypeOKRefresh, UrlStates

LEMMA FinishRefreshStep ==
  ASSUME RefreshInv, NEW t \in Threads, FinishRefresh(t)
  PROVE  RefreshInv'
<1>1. task[t] \in Task /\ task[t].page \in Pages /\ task[t].seen \in Outcomes
  BY RefreshInvParts DEF TasksOK, TaskOK, FinishRefresh, Outcomes
<1>2. TasksOK'
  BY <1>1, RefreshInvParts, ReturnedOK, TaskUpdate DEF FinishRefresh
<1> QED
  BY <1>1, <1>2, RefreshInvParts, RowsUnchanged
  DEF FinishRefresh, RefreshInv, TasksOK, RowsOK, TypeOKRefresh

LEMMA RaiseWithStep ==
  ASSUME RefreshInv, NEW t \in Threads, task[t].phase \in {"fetching", "parsed"},
         NEW failure \in Failures, RaiseWith(t, failure)
  PROVE  RefreshInv'
<1> DEFINE k == [task[t] EXCEPT !.phase = "raised", !.seen = failure, !.age = 0]
<1>1. task[t] \in Task /\ task[t].page \in Pages
  BY RefreshInvParts DEF TasksOK, TaskOK
<1>2. k \in Task /\ TaskOK(k)
  BY <1>1, ZeroAge DEF Task, Phases, Outcomes, TaskOK
<1>3. TasksOK'
  BY <1>2, RefreshInvParts, TaskUpdate DEF RaiseWith
<1> QED
  BY <1>1, <1>3, RefreshInvParts, RowsUnchanged
  DEF RaiseWith, RefreshInv, TasksOK, RowsOK, TypeOKRefresh

LEMMA ReadOfferStep ==
  ASSUME RefreshInv, NEW t \in Threads, ReadOffer(t)
  PROVE  RefreshInv'
<1> DEFINE k == [task[t] EXCEPT !.phase = "writing",
                                !.good = (product[task[t].page].status = "OK")]
<1>1. task[t] \in Task /\ task[t].page \in Pages /\ task[t].seen \in Failures
  BY RefreshInvParts DEF TasksOK, TaskOK, ReadOffer
<1>2. k \in Task /\ TaskOK(k)
  BY <1>1 DEF Task, Phases, TaskOK
<1>3. TasksOK'
  BY <1>2, RefreshInvParts, TaskUpdate DEF ReadOffer
<1> QED
  BY <1>3, RefreshInvParts, RowsUnchanged
  DEF ReadOffer, RefreshInv, TasksOK, RowsOK, TypeOKRefresh

LEMMA WriteErrorStep ==
  ASSUME RefreshInv, NEW t \in Threads, WriteError(t)
  PROVE  RefreshInv'
<1> DEFINE k == task[t]
           noted == [k EXCEPT !.good = FALSE]
           hidden == product[k.page].hidden \/ product[k.page].status = "OK"
           row == [product[k.page] EXCEPT !.status = k.seen, !.age = 0, !.hidden = hidden]
<1>1. k \in Task /\ k.page \in Pages /\ k.seen \in Failures
  BY RefreshInvParts DEF TasksOK, TaskOK, WriteError
<1>2. noted \in Task /\ noted.page \in Pages /\ noted.seen \in Outcomes
  BY <1>1 DEF Task, Outcomes
<1>3. TasksOK'
  BY <1>2, RefreshInvParts, ReturnedOK, TaskUpdate DEF WriteError
<1>4. row \in ProductRow /\ row.status \notin {"NONE", "OK"}
  <2>1. product[k.page] \in ProductRow
    BY <1>1, RefreshInvParts DEF RowsOK
  <2>2. hidden \in BOOLEAN
    BY <2>1 DEF ProductRow
  <2> HIDE DEF hidden
  <2> QED
    BY <1>1, <2>1, <2>2, ZeroAge DEF ProductRow
<1>5. RowsOK'
  <2>1. CASE k.good
    BY <2>1, RefreshInvParts, RowsUnchanged DEF WriteError
  <2>2. CASE ~k.good
    <3>1. product' = [product EXCEPT ![k.page] = row]
      BY <1>1, <2>2, RefreshInvParts DEF WriteError, RowsOK
    <3> HIDE DEF row
    <3> QED
      BY <1>1, <1>4, <3>1, RefreshInvParts, RowUpdate
  <2> QED
    BY <2>1, <2>2
<1> QED
  BY <1>1, <1>3, <1>5, RefreshInvParts
  DEF WriteError, RefreshInv, TasksOK, RowsOK, TypeOKRefresh, UrlStates

LEMMA ErrorWriteFailsStep ==
  ASSUME RefreshInv, NEW t \in Threads, ErrorWriteFails(t)
  PROVE  RefreshInv'
<1> DEFINE k == [task[t] EXCEPT !.seen = "escaped", !.good = FALSE]
<1>1. task[t] \in Task /\ task[t].page \in Pages
  BY RefreshInvParts DEF TasksOK, TaskOK, ErrorWriteFails
<1>2. k \in Task /\ k.page \in Pages /\ k.seen \in Outcomes
  BY <1>1 DEF Task, Outcomes
<1>3. TasksOK'
  BY <1>2, RefreshInvParts, ReturnedOK, TaskUpdate DEF ErrorWriteFails
<1> QED
  BY <1>3, RefreshInvParts, RowsUnchanged
  DEF ErrorWriteFails, RefreshInv, TasksOK, RowsOK, TypeOKRefresh

LEMMA RefreshStepInv ==
  ASSUME RefreshInv, NEW t \in Threads, RefreshStep(t)
  PROVE  RefreshInv'
<1>1. CASE FetchFails(t)
  BY <1>1, RaiseWithStep DEF FetchFails
<1>2. CASE PersistFails(t)
  BY <1>2, RaiseWithStep DEF PersistFails
<1> QED
  BY <1>1, <1>2, ParseStep, PersistStep, FinishRefreshStep, ReadOfferStep,
     WriteErrorStep, ErrorWriteFailsStep DEF RefreshStep

LEMMA AgeEverythingStep ==
  ASSUME RefreshInv, AgeEverything
  PROVE  RefreshInv'
<1>1. RowsOK'
  BY RefreshInvParts, AgedRowType DEF AgeEverything, RowsOK, PriceIsAsOldAsItsRow
<1>2. ASSUME NEW t \in Threads PROVE AgedTask(task[t]) \in Task /\ TaskOK(AgedTask(task[t]))
  <2>1. task[t] \in Task /\ TaskOK(task[t])
    BY RefreshInvParts DEF TasksOK
  <2>2. Older(task[t].age) \in Ages
    BY <2>1, WindowsAssumption DEF Task, Ages, Older
  <2> QED
    BY <2>1, <2>2 DEF AgedTask, Task, TaskOK
<1>3. TasksOK'
  BY <1>2, RefreshInvParts DEF AgeEverything, TasksOK, TaskOK
<1> QED
  BY <1>1, <1>3, RefreshInvParts DEF AgeEverything, RefreshInv, TasksOK, RowsOK, TypeOKRefresh

-----------------------------------------------------------------------------
LEMMA InitRefreshInv == InitRefresh => RefreshInv
<1> SUFFICES ASSUME InitRefresh PROVE RefreshInv
  OBVIOUS
<1>1. NoProduct \in ProductRow
  BY ZeroAge DEF NoProduct, ProductRow
<1>2. TasksOK
  BY IdleTaskOK DEF InitRefresh, TasksOK
<1>3. RowsOK
  BY <1>1 DEF InitRefresh, RowsOK, PriceIsAsOldAsItsRow, NoProduct
<1> QED
  BY <1>2, <1>3, RefreshInvParts DEF InitRefresh, UrlStates

LEMMA RefreshInvUnchanged ==
  ASSUME RefreshInv, UNCHANGED refreshVars
  PROVE  RefreshInv'
BY RefreshInvParts, TasksUnchanged, RowsUnchanged
   DEF refreshVars, RefreshInv, TasksOK, RowsOK, TypeOKRefresh

\* The inductive step for refresh_url on its own.
LEMMA NextRefreshInv == RefreshInv /\ [NextRefresh]_refreshVars => RefreshInv'
<1> SUFFICES ASSUME RefreshInv, [NextRefresh]_refreshVars PROVE RefreshInv'
  OBVIOUS
<1>1. CASE AgeEverything
  BY <1>1, AgeEverythingStep
<1>2. ASSUME NEW r \in Refreshers, NEW p \in Pages, StartRefresh(r, p) PROVE RefreshInv'
  BY <1>2, StartRefreshStep
<1>3. ASSUME NEW r \in Refreshers, RefreshStep(r) PROVE RefreshInv'
  BY <1>3, RefreshStepInv DEF Threads
<1>4. CASE UNCHANGED refreshVars
  BY <1>4, RefreshInvUnchanged
<1> QED
  BY <1>1, <1>2, <1>3, <1>4 DEF NextRefresh

\* Whatever refreshes of whatever pages overlap, the rows, the tasks and the notes
\* keep their types and a thread about to write knows what it saw.
THEOREM RefreshTypeCorrect == SpecRefresh => []RefreshInv
  BY InitRefreshInv, NextRefreshInv, PTL DEF SpecRefresh

\* A served price is never presented as newer than the observation it was read
\* from (the CASE on fetched_at in refresh_url's UPSERT), for any number of threads
\* and pages and any freshness windows.
THEOREM ServedPriceHasItsAge == SpecRefresh => []PriceIsAsOldAsItsRow
<1>1. RefreshInv => PriceIsAsOldAsItsRow
  BY DEF RefreshInv
<1> QED
  BY <1>1, RefreshTypeCorrect, PTL

-----------------------------------------------------------------------------
LEMMA PersistPrice ==
  ASSUME RefreshInv, NEW t \in Threads, Persist(t)
  PROVE  PriceStep
<1> SUFFICES ASSUME NEW p \in Pages, product'[p].price # product[p].price
             PROVE  /\ task[t].page = p /\ task'[t].phase = "committed"
                    /\ task[t].seen \in Offers \cup {"zero"}
  BY DEF PriceStep
<1>1. task[t].page = p
  BY RefreshInvParts DEF Persist, RowsOK
<1>2. task[t] \in Task /\ task[t].seen \in Parses
  BY RefreshInvParts DEF Persist, TasksOK, TaskOK
<1>3. task'[t].phase = "committed"
  BY <1>2, RefreshInvParts DEF Persist, TasksOK, Task
<1>4. task[t].seen # "nameonly"
  BY <1>1, RefreshInvParts DEF Persist, RowsOK, Merged
<1> QED
  BY <1>1, <1>2, <1>3, <1>4

LEMMA WriteErrorPrice ==
  ASSUME RefreshInv, NEW t \in Threads, WriteError(t)
  PROVE  \A p \in Pages : product'[p].price = product[p].price
<1> SUFFICES ASSUME NEW p \in Pages PROVE product'[p].price = product[p].price
  OBVIOUS
<1>1. product \in [Pages -> ProductRow] /\ task[t].page \in Pages
  BY RefreshInvParts DEF RowsOK, TasksOK, TaskOK, WriteError
<1> QED
  BY <1>1 DEF WriteError, ProductRow

LEMMA NextRefreshPrice == RefreshInv /\ [NextRefresh]_refreshVars => [PriceStep]_refreshVars
<1> SUFFICES ASSUME RefreshInv, [NextRefresh]_refreshVars PROVE [PriceStep]_refreshVars
  OBVIOUS
<1>1. CASE AgeEverything
  BY <1>1 DEF AgeEverything, PriceStep
<1>2. ASSUME NEW r \in Refreshers, NEW p \in Pages, StartRefresh(r, p) PROVE PriceStep
  BY <1>2 DEF StartRefresh, PriceStep
<1>3. ASSUME NEW r \in Refreshers, RefreshStep(r) PROVE PriceStep
  <2>1. r \in Threads
    BY DEF Threads
  <2>2. CASE Persist(r)
    BY <2>1, <2>2, PersistPrice
  <2>3. CASE WriteError(r)
    BY <2>1, <2>3, WriteErrorPrice DEF PriceStep
  <2>4. CASE UNCHANGED product
    BY <2>4 DEF PriceStep
  <2> QED
    BY <1>3, <2>2, <2>3, <2>4
    DEF RefreshStep, Parse, FinishRefresh, FetchFails, PersistFails, RaiseWith,
        ReadOffer, ErrorWriteFails
<1> QED
  BY <1>1, <1>2, <1>3 DEF NextRefresh

\* No interleaving of refreshes lets a failed fetch, a timeout or a name without a
\* price change a stored price: only the commit of an observed page does.
THEOREM PriceOnlyByObservation == SpecRefresh => PriceChangesByObservation
  BY RefreshTypeCorrect, NextRefreshPrice, PTL DEF SpecRefresh, PriceChangesByObservation

-----------------------------------------------------------------------------
(***************************************************************************)
(* The queue.                                                               *)
(***************************************************************************)
\* What every step but a claim does to the rows.
QueueKept ==
  /\ queue' \in [Pages -> QueueRow]
  /\ \A p \in Pages : queue'[p].state = "PROCESSING" =>
       queue[p].state = "PROCESSING" /\ queue'[p].wait = 0

\* A row that may stand in the place of queue[p].
RowKept(p, row) ==
  /\ row \in QueueRow
  /\ row.state = "PROCESSING" => queue[p].state = "PROCESSING" /\ row.wait = 0
  /\ p \notin NonProduct /\ queue[p].state = "DEAD" =>
       row.state = "DEAD" \/ (row.state = "PENDING" /\ row.attempts = 0)

-----------------------------------------------------------------------------
LEMMA ConstantTypes ==
  /\ LeaseTime \in Nat \ {0} /\ Len(Backoff) \in Nat \ {0}
  /\ \A i \in 1 .. Len(Backoff) : Backoff[i] \in Nat
  /\ NStores \in Nat \ {0} /\ StoreCap \in Nat \ {0}
  /\ \A p \in Pages : StoreOf[p] \in 0 .. NStores - 1
  BY StoresAssumption, LeaseAssumption

LEMMA NewRowType ==
  ASSUME NEW state \in States
  PROVE  NewRow(state) \in QueueRow /\ NewRow(state).state = state
  BY ConstantTypes DEF NewRow, QueueRow

LEMMA ClosedType ==
  ASSUME NEW row \in QueueRow, NEW state \in States, NEW wait \in Nat
  PROVE  /\ Closed(row, state, wait) \in QueueRow
         /\ Closed(row, state, wait).state = state
         /\ Closed(row, state, wait).wait = wait
<1> DEFINE marked == [row EXCEPT !.state = state, !.wait = wait]
           closed == [marked EXCEPT !.lease = 0, !.token = NoToken]
<1>1. marked \in QueueRow /\ marked.state = state /\ marked.wait = wait
  BY DEF QueueRow
<1> HIDE DEF marked
<1>2. 0 \in 0 .. LeaseTime
  BY ConstantTypes
<1>3. closed \in QueueRow /\ closed.state = state /\ closed.wait = wait
  BY <1>1, <1>2 DEF QueueRow
<1> QED
  BY <1>3 DEF marked, Closed

LEMMA PendingType ==
  ASSUME NEW row \in QueueRow
  PROVE  Pending(row) \in QueueRow /\ Pending(row).state = "PENDING"
                                   /\ Pending(row).wait = 0
  BY ClosedType DEF Pending, States

LEMMA AfreshType ==
  ASSUME NEW row \in QueueRow
  PROVE  /\ Afresh(row) \in QueueRow /\ Afresh(row).state = "PENDING"
         /\ Afresh(row).attempts = 0
<1>1. PICK pending \in QueueRow : pending = Pending(row) /\ pending.state = "PENDING"
  BY PendingType
<1>2. 0 \in 0 .. Len(Backoff)
  BY ConstantTypes
<1> QED
  BY <1>1, <1>2 DEF Afresh, QueueRow

LEMMA FailedType ==
  ASSUME NEW row \in QueueRow, NEW detail
  PROVE  Failed(row, detail) \in QueueRow /\ Failed(row, detail).state \in {"DEAD", "ERROR"}
<1>1. Delay(row) \in Nat
  BY ConstantTypes DEF Delay, QueueRow
<1> DEFINE state == IF detail \in {"gone", "placeholder"} THEN "DEAD" ELSE "ERROR"
<1>2. state \in States /\ state \in {"DEAD", "ERROR"}
  BY DEF States
<1> HIDE DEF state
<1>3. Closed(row, state, Delay(row)) \in QueueRow /\ Closed(row, state, Delay(row)).state = state
  BY <1>1, <1>2, ClosedType
<1> QED
  BY <1>2, <1>3 DEF Failed, state

LEMMA InFlightFinite ==
  \A s : IsFiniteSet(InFlight(s)) /\ Cardinality(InFlight(s)) \in Nat
<1> TAKE s
<1>1. InFlight(s) \subseteq Pages
  BY DEF InFlight
<1> QED
  BY <1>1, StoresAssumption, FS_Subset, FS_CardinalityType

\* Rows that only leave PROCESSING leave no store over its cap.
LEMMA KeptCap ==
  ASSUME QueueInv, QueueKept
  PROVE  StoreCapInv' /\ \A p \in Pages : queue'[p].state = "PROCESSING" => queue'[p].wait = 0
<1> SUFFICES ASSUME NEW s \in 0 .. NStores - 1
             PROVE  Cardinality(InFlight(s)') <= StoreCap
  BY DEF StoreCapInv, QueueKept
<1>1. InFlight(s)' \subseteq InFlight(s)
  BY DEF InFlight, QueueKept
<1>2. IsFiniteSet(InFlight(s)) /\ Cardinality(InFlight(s)) \in Nat
  BY InFlightFinite
<1>3. IsFiniteSet(InFlight(s)') /\ Cardinality(InFlight(s)') <= Cardinality(InFlight(s))
  BY <1>1, <1>2, FS_Subset
<1>4. Cardinality(InFlight(s)') \in Nat
  BY <1>3, FS_CardinalityType
<1>5. Cardinality(InFlight(s)) <= StoreCap
  BY DEF QueueInv, StoreCapInv
<1> QED
  BY <1>2, <1>3, <1>4, <1>5, ConstantTypes

LEMMA OneRowKept ==
  ASSUME QueueInv, NEW p \in Pages, NEW row, RowKept(p, row),
         queue' = [queue EXCEPT ![p] = row]
  PROVE  QueueKept /\ DeadStep
  BY DEF QueueInv, TypeOK, RowKept, QueueKept, DeadStep

LEMMA OneRowLease ==
  ASSUME QueueInv, NEW p \in Pages, NEW row, queue' = [queue EXCEPT ![p] = row],
         ~Leased(queue[p])
  PROVE  LeaseStep
  BY DEF QueueInv, TypeOK, LeaseStep

\* Rows that no live lease protects are replaced together.
LEMMA RowsReplaced ==
  ASSUME QueueInv, queue' \in [Pages -> QueueRow],
         \A p \in Pages : \/ queue'[p] = queue[p]
                          \/ queue'[p].state # "PROCESSING" /\ ~Leased(queue[p])
  PROVE  QueueKept /\ LeaseStep
  BY DEF QueueInv, QueueKept, LeaseStep

LEMMA QueueUnchanged ==
  ASSUME QueueInv, UNCHANGED queue
  PROVE  QueueKept /\ DeadStep /\ LeaseStep
  BY DEF QueueInv, TypeOK, QueueKept, DeadStep, LeaseStep

\* The sweep: rows without a live lease go back to PENDING, the others stay.
LEMMA RecoveredType ==
  ASSUME QueueInv
  PROVE  Recovered \in [Pages -> QueueRow]
<1>1. \A q \in Pages : queue[q] \in QueueRow /\ Pending(queue[q]) \in QueueRow
  BY PendingType DEF QueueInv, TypeOK
<1> QED
  BY <1>1 DEF Recovered

LEMMA RecoveredRow ==
  ASSUME QueueInv, NEW p \in Pages
  PROVE  /\ queue[p].state # "PROCESSING" \/ Leased(queue[p]) => Recovered[p] = queue[p]
         /\ Recovered[p].state = "PROCESSING" =>
              queue[p].state = "PROCESSING" /\ Recovered[p].wait = 0
         /\ queue[p].state = "DEAD" => Recovered[p].state = "DEAD"
<1>1. queue[p] \in QueueRow /\ Pending(queue[p]).state = "PENDING"
  BY PendingType DEF QueueInv, TypeOK
<1> QED
  BY <1>1 DEF Recovered, QueueInv, Leased

LEMMA SweepKept ==
  ASSUME QueueInv, queue' = Recovered
  PROVE  QueueKept /\ DeadStep /\ LeaseStep
<1>1. QueueKept
  BY RecoveredType, RecoveredRow DEF QueueKept
<1>2. DeadStep
  BY RecoveredRow DEF DeadStep
<1>3. LeaseStep
  BY RecoveredRow DEF LeaseStep
<1> QED
  BY <1>1, <1>2, <1>3

\* A task that ends under its token: the row it holds is closed, if it holds one.
LEMMA OwnedKept ==
  ASSUME QueueInv, NEW w \in Workers, task[w].phase # "idle",
         NEW row \in QueueRow, row.state # "PROCESSING",
         SetOwned(w, row), task' = Drop({w})
  PROVE  QueueKept /\ DeadStep /\ LeaseStep
<1>1. CASE UNCHANGED queue
  BY <1>1, QueueUnchanged
<1>2. CASE Owns(w)
  <2> DEFINE p == task[w].page
  <2>1. p \in Pages /\ w \in Threads
    BY RefreshInvParts DEF QueueInv, TasksOK, TaskOK, Threads
  <2>2. queue' = [queue EXCEPT ![p] = row] /\ queue[p].token = w
        /\ queue[p].state = "PROCESSING"
    BY <1>2 DEF SetOwned, Owns
  <2>3. RowKept(p, row)
    BY <2>2 DEF RowKept
  <2>4. task'[w] = IdleTask
    BY <2>1 DEF Drop
  <2>5. LeaseStep
    BY <2>1, <2>2, <2>4 DEF LeaseStep, QueueInv, TypeOK
  <2> QED
    BY <2>1, <2>2, <2>3, <2>5, OneRowKept
<1> QED
  BY <1>1, <1>2 DEF SetOwned

-----------------------------------------------------------------------------
\* What a step has to show.
StepOK == QueueInv' /\ LeaseStep /\ DeadStep

LEMMA StepOKFromParts ==
  ASSUME QueueInv, RefreshInv', QueueKept, LeaseStep, DeadStep,
         cursor' \in 0 .. NStores - 1, loop' \in LoopStates, searching' \in BOOLEAN
  PROVE  StepOK
<1>1. StoreCapInv' /\ \A p \in Pages : queue'[p].state = "PROCESSING" => queue'[p].wait = 0
  BY KeptCap
<1>2. TypeOK'
  BY DEF RefreshInv, TypeOK, QueueKept
<1> QED
  BY <1>1, <1>2 DEF StepOK, QueueInv

LEMMA DropTasks ==
  ASSUME QueueInv, NEW ws, task' = Drop(ws), UNCHANGED <<storeUrl, product, lastError>>
  PROVE  RefreshInv'
<1>1. TasksOK'
  BY IdleTaskOK, RefreshInvParts DEF QueueInv, Drop, TasksOK, TaskOK
<1> QED
  BY <1>1, RefreshInvParts, RowsUnchanged
  DEF QueueInv, RefreshInv, TasksOK, RowsOK, TypeOKRefresh

LEMMA OneTask ==
  ASSUME QueueInv, NEW t \in Threads, NEW k \in Task, TaskOK(k),
         task' = [task EXCEPT ![t] = k], UNCHANGED <<storeUrl, product, lastError>>
  PROVE  RefreshInv'
<1>1. TasksOK'
  BY TaskUpdate, RefreshInvParts DEF QueueInv
<1> QED
  BY <1>1, RefreshInvParts, RowsUnchanged
  DEF QueueInv, RefreshInv, TasksOK, RowsOK, TypeOKRefresh

LEMMA UrlSet ==
  ASSUME QueueInv, NEW p \in Pages, NEW url \in UrlStates,
         storeUrl' = [storeUrl EXCEPT ![p] = url], UNCHANGED <<product, lastError, task>>
  PROVE  RefreshInv'
<1>1. storeUrl' \in [Pages -> UrlStates]
  BY RefreshInvParts DEF QueueInv
<1> QED
  BY <1>1, RefreshInvParts, RowsUnchanged, TasksUnchanged
  DEF QueueInv, RefreshInv, TasksOK, RowsOK, TypeOKRefresh

-----------------------------------------------------------------------------
\* The scheduler loop.
LEMMA BackfillStep ==
  ASSUME QueueInv, NEW p \in Pages, Backfill(p)
  PROVE  StepOK
<1>1. CASE p \in NonProduct
  <2>1. queue' = [queue EXCEPT ![p] = NewRow("ABSENT")]
        /\ storeUrl' = [storeUrl EXCEPT ![p] = "retired"]
    BY <1>1 DEF Backfill
  <2>2. RowKept(p, NewRow("ABSENT"))
    BY <1>1, NewRowType DEF RowKept, States
  <2>3. QueueKept /\ DeadStep
    BY <2>1, <2>2, OneRowKept
  <2>4. LeaseStep
    BY <1>1, <2>1 DEF LeaseStep, QueueInv, TypeOK
  <2>5. RefreshInv'
    BY <2>1, UrlSet DEF Backfill, UrlStates
  <2> QED
    BY <2>3, <2>4, <2>5, StepOKFromParts DEF Backfill, QueueInv, TypeOK
<1>2. CASE p \notin NonProduct
  <2> DEFINE row == NewRow(IF product[p].status = "OK" THEN "DONE" ELSE "PENDING")
  <2>1. queue' = [queue EXCEPT ![p] = row] /\ queue[p].state = "ABSENT"
        /\ UNCHANGED storeUrl
    BY <1>2 DEF Backfill
  <2>2. RowKept(p, row)
    BY <2>1, NewRowType DEF RowKept, States
  <2> HIDE DEF row
  <2>3. QueueKept /\ DeadStep
    BY <2>1, <2>2, OneRowKept
  <2>4. LeaseStep
    BY <2>1, OneRowLease DEF Leased
  <2>5. RefreshInv'
    BY <2>1, RefreshInvUnchanged DEF Backfill, refreshVars, QueueInv
  <2> QED
    BY <2>3, <2>4, <2>5, StepOKFromParts DEF Backfill, QueueInv, TypeOK
<1> QED
  BY <1>1, <1>2

\* Steps that only sweep, or only move the loop.
LEMMA SweepStep ==
  ASSUME QueueInv, FinishBoot \/ StartBatch \/ ClaimNothing
  PROVE  StepOK
<1>1. RefreshInv'
  BY RefreshInvUnchanged DEF FinishBoot, StartBatch, ClaimNothing, QueueInv
<1>2. QueueKept /\ DeadStep /\ LeaseStep
  BY SweepKept DEF FinishBoot, StartBatch, ClaimNothing
<1> QED
  BY <1>1, <1>2, StepOKFromParts
  DEF FinishBoot, StartBatch, ClaimNothing, QueueInv, TypeOK, LoopStates

LEMMA LoopOnlyStep ==
  ASSUME QueueInv, UNCHANGED <<refreshVars, queue, cursor>>,
         loop' \in LoopStates, searching' \in BOOLEAN
  PROVE  StepOK
BY RefreshInvUnchanged, QueueUnchanged, StepOKFromParts DEF QueueInv, TypeOK

LEMMA RequeueStep ==
  ASSUME QueueInv, Requeue
  PROVE  StepOK
<1>1. PICK picked \in SUBSET Pages :
        /\ Requeueable(picked)
        /\ queue' = [p \in Pages |-> IF p \in picked
             THEN [queue[p] EXCEPT !.state = "PENDING", !.wait = 0,
                                   !.priority = Lower(@, 50)]
             ELSE queue[p]]
        /\ UNCHANGED cursor \/ \E last \in picked : cursor' = StoreOf[last]
  BY DEF Requeue
<1>2. \A p \in picked : queue[p].state = "DONE"
  BY <1>1 DEF Requeueable, StaleDone
<1> DEFINE row(p) == [queue[p] EXCEPT !.state = "PENDING", !.wait = 0,
                                      !.priority = Lower(@, 50)]
<1>3. ASSUME NEW p \in Pages
      PROVE  row(p) \in QueueRow /\ row(p).state = "PENDING"
  <2>1. queue[p] \in QueueRow
    BY DEF QueueInv, TypeOK
  <2>2. Lower(queue[p].priority, 50) \in {0, 50, 100}
    BY <2>1 DEF QueueRow, Lower
  <2> DEFINE low == Lower(queue[p].priority, 50)
  <2> HIDE DEF low
  <2>3. LET low_row == [queue[p] EXCEPT !.state = "PENDING", !.wait = 0, !.priority = low]
        IN  low_row \in QueueRow /\ low_row.state = "PENDING"
    BY <2>1, <2>2 DEF QueueRow, States, low
  <2> QED
    BY <2>3 DEF low
<1>4. queue' \in [Pages -> QueueRow]
  BY <1>1, <1>3 DEF QueueInv, TypeOK
<1>5. QueueKept
  <2>1. \A p \in picked : queue'[p] = row(p)
    BY <1>1
  <2>2. \A p \in Pages \ picked : queue'[p] = queue[p]
    BY <1>1
  <2> HIDE DEF row
  <2> QED
    BY <1>3, <1>4, <2>1, <2>2 DEF QueueKept, QueueInv
<1>6. DeadStep
  BY <1>1, <1>2 DEF DeadStep
<1>7. LeaseStep
  BY <1>1, <1>2 DEF LeaseStep, Leased
<1>8. cursor' \in 0 .. NStores - 1
  BY <1>1, ConstantTypes DEF QueueInv, TypeOK
<1>9. RefreshInv'
  BY RefreshInvUnchanged DEF Requeue, QueueInv
<1> QED
  BY <1>5, <1>6, <1>7, <1>8, <1>9, StepOKFromParts DEF Requeue, QueueInv, TypeOK, LoopStates

\* A batch that is given up, or ends: held tasks are forgotten, rows stay.
LEMMA ForgetStep ==
  ASSUME QueueInv, AbandonBatch \/ EndBatch
  PROVE  StepOK
<1>1. RefreshInv'
  BY DropTasks DEF AbandonBatch, EndBatch
<1>2. QueueKept /\ DeadStep /\ LeaseStep
  BY QueueUnchanged DEF AbandonBatch, EndBatch
<1> QED
  BY <1>1, <1>2, StepOKFromParts DEF AbandonBatch, EndBatch, QueueInv, TypeOK, LoopStates
-----------------------------------------------------------------------------
\* The tasks of the batch, on the loop thread and on the pool threads.
LEMMA OwnRowType ==
  ASSUME QueueInv, NEW w \in Workers, task[w].phase # "idle"
  PROVE  queue[task[w].page] \in QueueRow
<1>1. w \in Threads
  BY DEF Threads
<1>2. task[w].page \in Pages
  BY <1>1, RefreshInvParts DEF QueueInv, TasksOK, TaskOK
<1> QED
  BY <1>2 DEF QueueInv, TypeOK

LEMMA ReleaseStep ==
  ASSUME QueueInv, NEW w \in Workers, Release(w) \/ StartReleases(w)
  PROVE  StepOK
<1> DEFINE row == Pending(queue[task[w].page])
<1>1. row \in QueueRow /\ row.state # "PROCESSING"
  BY OwnRowType, PendingType DEF Release, StartReleases
<1>2. task[w].phase # "idle" /\ task' = Drop({w}) /\ (SetOwned(w, row) \/ UNCHANGED queue)
      /\ UNCHANGED <<storeUrl, product, lastError, cursor, searching>>
  BY DEF Release, StartReleases
<1>3. loop' \in LoopStates
  BY DEF Release, StartReleases, QueueInv, TypeOK, LoopStates
<1> HIDE DEF row
<1>4. QueueKept /\ DeadStep /\ LeaseStep
  BY <1>1, <1>2, OwnedKept, QueueUnchanged
<1>5. RefreshInv'
  BY <1>2, DropTasks
<1> QED
  BY <1>2, <1>3, <1>4, <1>5, StepOKFromParts DEF QueueInv, TypeOK

LEMMA MarkDoneStep ==
  ASSUME QueueInv, NEW w \in Workers, MarkDone(w)
  PROVE  StepOK
<1> DEFINE held == queue[task[w].page]
           row == Closed(held, "DONE", held.wait)
<1>1. row \in QueueRow /\ row.state # "PROCESSING"
  <2>1. held \in QueueRow
    BY OwnRowType DEF MarkDone
  <2>2. held.wait \in Nat /\ "DONE" \in States
    BY <2>1 DEF QueueRow, States
  <2> QED
    BY <2>1, <2>2, ClosedType
<1>2. task[w].phase # "idle" /\ task' = Drop({w}) /\ SetOwned(w, row)
      /\ UNCHANGED <<storeUrl, product, lastError, cursor, loop, searching>>
  BY DEF MarkDone
<1> HIDE DEF row
<1>3. QueueKept /\ DeadStep /\ LeaseStep
  BY <1>1, <1>2, OwnedKept
<1>4. RefreshInv'
  BY <1>2, DropTasks
<1> QED
  BY <1>2, <1>3, <1>4, StepOKFromParts DEF QueueInv, TypeOK

LEMMA MarkErrorStep ==
  ASSUME QueueInv, NEW w \in Workers, MarkError(w)
  PROVE  StepOK
<1> DEFINE row == Failed(queue[task[w].page], task[w].seen)
<1>1. row \in QueueRow /\ row.state # "PROCESSING"
  BY OwnRowType, FailedType DEF MarkError
<1>2. task[w].phase # "idle" /\ task' = Drop({w}) /\ SetOwned(w, row)
      /\ UNCHANGED <<storeUrl, product, lastError, cursor, loop, searching>>
  BY DEF MarkError
<1> HIDE DEF row
<1>3. QueueKept /\ DeadStep /\ LeaseStep
  BY <1>1, <1>2, OwnedKept
<1>4. RefreshInv'
  BY <1>2, DropTasks
<1> QED
  BY <1>2, <1>3, <1>4, StepOKFromParts DEF QueueInv, TypeOK

\* Steps that leave the queue alone.
LEMMA NoQueueStep ==
  ASSUME QueueInv, RefreshInv', UNCHANGED queueVars
  PROVE  StepOK
BY QueueUnchanged, StepOKFromParts DEF queueVars, QueueInv, TypeOK

LEMMA StartStep ==
  ASSUME QueueInv, NEW w \in Workers, Start(w)
  PROVE  StepOK
<1> DEFINE k == [task[w] EXCEPT !.phase = "fetching"]
<1>1. w \in Threads /\ task' = [task EXCEPT ![w] = k]
  BY DEF Start, Threads
<1>2. task[w] \in Task /\ task[w].page \in Pages
  BY <1>1, RefreshInvParts DEF Start, QueueInv, TasksOK, TaskOK
<1>3. k \in Task /\ TaskOK(k)
  BY <1>2 DEF Task, Phases, TaskOK
<1> HIDE DEF k
<1>4. RefreshInv'
  BY <1>1, <1>3, OneTask DEF Start
<1> QED
  BY <1>4, NoQueueStep DEF Start, queueVars

LEMMA MarkFailsStep ==
  ASSUME QueueInv, NEW w \in Workers, MarkFails(w)
  PROVE  StepOK
<1> DEFINE k == [task[w] EXCEPT !.phase = "reporting", !.seen = "escaped"]
<1>1. w \in Threads
  BY DEF Threads
<1>2. task[w] \in Task /\ task[w].page \in Pages
  BY <1>1, RefreshInvParts DEF MarkFails, QueueInv, TasksOK, TaskOK
<1>3. k \in Task /\ TaskOK(k)
  BY <1>2 DEF Task, Phases, Outcomes, TaskOK
<1>4. RefreshInv'
  <2>1. CASE task[w].seen = "escaped"
    BY <2>1, DropTasks DEF MarkFails
  <2>2. CASE task[w].seen # "escaped"
    <3>1. task' = [task EXCEPT ![w] = k]
      BY <2>2 DEF MarkFails
    <3> HIDE DEF k
    <3> QED
      BY <1>1, <1>3, <3>1, OneTask DEF MarkFails
  <2> QED
    BY <2>1, <2>2
<1> QED
  BY <1>4, NoQueueStep DEF MarkFails, queueVars

LEMMA ExplainStep ==
  ASSUME QueueInv, NEW w \in Workers, Explain(w)
  PROVE  StepOK
<1> DEFINE p == task[w].page
           reason == IF task[w].seen \in Failures THEN Recorded(p) ELSE "transient"
           k == [task[w] EXCEPT !.phase = "reporting", !.seen = reason]
<1>1. w \in Threads /\ task' = [task EXCEPT ![w] = k]
  BY DEF Explain, Threads
<1>2. task[w] \in Task /\ p \in Pages
  BY <1>1, RefreshInvParts DEF Explain, QueueInv, TasksOK, TaskOK
<1>3. reason \in Failures
  <2>1. lastError[p] \in Failures \cup {"none"}
    BY <1>2, RefreshInvParts DEF QueueInv
  <2> QED
    BY <2>1 DEF Recorded, Failures
<1> HIDE DEF reason
<1>4. k \in Task /\ TaskOK(k)
  BY <1>2, <1>3 DEF Task, Phases, Outcomes, TaskOK
<1> HIDE DEF k
<1>5. TasksOK'
  BY <1>1, <1>4, RefreshInvParts, TaskUpdate DEF QueueInv
<1>6. lastError' \in [Pages -> Failures \cup {"none"}]
  BY RefreshInvParts DEF Explain, QueueInv, Failures
<1>7. RefreshInv'
  BY <1>5, <1>6, RefreshInvParts, RowsUnchanged
  DEF Explain, QueueInv, RefreshInv, TasksOK, RowsOK, TypeOKRefresh
<1> QED
  BY <1>7, NoQueueStep DEF Explain, queueVars

LEMMA RefreshQueued ==
  ASSUME QueueInv, NEW t \in Threads, Refresh(t)
  PROVE  StepOK
<1>1. CASE PersistQueued(t)
  <2> DEFINE p == task[t].page
  <2>1. RefreshInv'
    BY <1>1, PersistStep DEF PersistQueued, QueueInv
  <2>2. QueueKept /\ DeadStep /\ LeaseStep
    <3>1. CASE queue[p].state = "ABSENT"
      <4>1. p \in Pages
        BY <1>1, RefreshInvParts DEF PersistQueued, Persist, QueueInv, TasksOK, TaskOK
      <4>2. queue' = [queue EXCEPT ![p] = NewRow("PENDING")]
        BY <1>1, <3>1 DEF PersistQueued
      <4>3. RowKept(p, NewRow("PENDING"))
        BY <3>1, NewRowType DEF RowKept, States
      <4>4. ~Leased(queue[p])
        BY <3>1 DEF Leased
      <4> QED
        BY <4>1, <4>2, <4>3, <4>4, OneRowKept, OneRowLease
    <3>2. CASE queue[p].state # "ABSENT"
      BY <1>1, <3>2, QueueUnchanged DEF PersistQueued
    <3> QED
      BY <3>1, <3>2
  <2> QED
    BY <1>1, <2>1, <2>2, StepOKFromParts DEF PersistQueued, QueueInv, TypeOK
<1>2. CASE RefreshStep(t) /\ UNCHANGED queueVars
  BY <1>2, RefreshStepInv, NoQueueStep DEF QueueInv
<1> QED
  BY <1>1, <1>2 DEF Refresh, RefreshStep

LEMMA HydrateStep ==
  ASSUME QueueInv, NEW w \in Workers, Hydrate(w)
  PROVE  StepOK
<1>1. w \in Threads
  BY DEF Threads
<1> QED
  BY <1>1, StartStep, ReleaseStep, RefreshQueued, MarkDoneStep, ExplainStep,
     MarkErrorStep, MarkFailsStep DEF Hydrate

LEMMA UnleasedStep ==
  ASSUME QueueInv, NEW r \in Refreshers, Unleased(r)
  PROVE  StepOK
<1>1. CASE Refresh(r)
  BY <1>1, RefreshQueued DEF Threads
<1>2. ASSUME NEW p \in Pages, StartRefresh(r, p), UNCHANGED queueVars PROVE StepOK
  BY <1>2, StartRefreshStep, NoQueueStep DEF QueueInv
<1> QED
  BY <1>1, <1>2 DEF Unleased

-----------------------------------------------------------------------------
\* The claim: the one step that puts a row in flight.
LEMMA ClaimedType ==
  ASSUME NEW w \in Workers, NEW row \in QueueRow
  PROVE  /\ ClaimedBy(w, row) \in QueueRow
         /\ ClaimedBy(w, row).state = "PROCESSING" /\ ClaimedBy(w, row).wait = row.wait
<1> DEFINE low == Lower(row.attempts + 1, Len(Backoff))
           leased == [row EXCEPT !.state = "PROCESSING", !.lease = LeaseTime]
           claimed == [leased EXCEPT !.token = w, !.attempts = low]
<1>1. low \in 0 .. Len(Backoff)
  BY ConstantTypes DEF Lower, QueueRow
<1>2. LeaseTime \in 0 .. LeaseTime
  BY ConstantTypes
<1>3. leased \in QueueRow /\ leased.state = "PROCESSING" /\ leased.wait = row.wait
  BY <1>2 DEF QueueRow, States
<1>4. leased.attempts = row.attempts
  BY DEF QueueRow
<1>5. ClaimedBy(w, row) = claimed
  BY <1>4 DEF ClaimedBy, QueueRow
<1> HIDE DEF low, leased
<1>6. claimed \in QueueRow /\ claimed.state = "PROCESSING" /\ claimed.wait = row.wait
  BY <1>1, <1>3 DEF QueueRow
<1> QED
  BY <1>5, <1>6

LEMMA ClaimStep ==
  ASSUME QueueInv, NEW w \in Workers, Claim(w)
  PROVE  StepOK
<1> DEFINE after(p) == ClaimedBy(w, Recovered[p])
           InStore(p) == {q \in Pages : StoreOf[q] = StoreOf[p]
                                        /\ Recovered[q].state = "PROCESSING"}
<1>1. PICK p \in Pages :
        /\ Recovered[p].state \in {"PENDING", "ERROR"} /\ Recovered[p].wait = 0
        /\ Cardinality(InStore(p)) < StoreCap
        /\ queue' = [Recovered EXCEPT ![p] = after(p)]
        /\ cursor' = StoreOf[p]
        /\ task' = [task EXCEPT ![w] = TaskAt("held", p)]
  BY DEF Claim, NextInTurn, Claimable
<1>2. after(p) \in QueueRow /\ after(p).state = "PROCESSING" /\ after(p).wait = 0
  BY <1>1, RecoveredType, ClaimedType
<1> HIDE DEF after
<1>3. queue' \in [Pages -> QueueRow]
  BY <1>1, <1>2, RecoveredType
<1>4. queue'[p] = after(p) /\ \A q \in Pages \ {p} : queue'[q] = Recovered[q]
  BY <1>1, RecoveredType
<1>5. \A q \in Pages : queue'[q].state = "PROCESSING" => queue'[q].wait = 0
  <2> SUFFICES ASSUME NEW q \in Pages, queue'[q].state = "PROCESSING"
               PROVE  queue'[q].wait = 0
    OBVIOUS
  <2>1. CASE q = p
    BY <1>2, <1>4, <2>1
  <2>2. CASE q # p
    BY <1>4, <2>2, RecoveredRow
  <2> QED
    BY <2>1, <2>2
<1>6. StoreCapInv'
  <2> SUFFICES ASSUME NEW s \in 0 .. NStores - 1
               PROVE  Cardinality(InFlight(s)') <= StoreCap
    BY DEF StoreCapInv
  <2>1. CASE s = StoreOf[p]
    <3>1. InStore(p) \subseteq Pages /\ IsFiniteSet(Pages)
      BY StoresAssumption
    <3>2. IsFiniteSet(InStore(p)) /\ Cardinality(InStore(p)) \in Nat
      BY <3>1, FS_Subset, FS_CardinalityType
    <3>3. p \notin InStore(p)
      BY <1>1
    <3>4. InFlight(s)' = InStore(p) \cup {p}
      <4>1. ASSUME NEW q \in Pages, q # p
            PROVE  queue'[q].state = "PROCESSING" <=> Recovered[q].state = "PROCESSING"
        BY <1>4, <4>1
      <4>2. queue'[p].state = "PROCESSING"
        BY <1>2, <1>4
      <4> QED
        BY <2>1, <4>1, <4>2 DEF InFlight
    <3> HIDE DEF InStore
    <3>5. Cardinality(InFlight(s)') = Cardinality(InStore(p)) + 1
      BY <3>2, <3>3, <3>4, FS_AddElement
    <3> QED
      BY <1>1, <3>2, <3>5, ConstantTypes
  <2>2. CASE s # StoreOf[p]
    <3>1. InFlight(s)' \subseteq InFlight(s)
      BY <1>4, <2>2, RecoveredRow DEF InFlight
    <3>2. IsFiniteSet(InFlight(s)) /\ Cardinality(InFlight(s)) \in Nat
      BY InFlightFinite
    <3>3. IsFiniteSet(InFlight(s)') /\ Cardinality(InFlight(s)') <= Cardinality(InFlight(s))
      BY <3>1, <3>2, FS_Subset
    <3>4. Cardinality(InFlight(s)') \in Nat
      BY <3>3, FS_CardinalityType
    <3>5. Cardinality(InFlight(s)) <= StoreCap
      BY DEF QueueInv, StoreCapInv
    <3> QED
      BY <3>2, <3>3, <3>4, <3>5, ConstantTypes
  <2> QED
    BY <2>1, <2>2
<1>7. queue[p].state # "DEAD" /\ ~Leased(queue[p])
  BY <1>1, RecoveredRow DEF Leased
<1>8. DeadStep
  BY <1>4, <1>7, RecoveredRow DEF DeadStep
<1>9. LeaseStep
  BY <1>4, <1>7, RecoveredRow DEF LeaseStep
<1>10. RefreshInv'
  <2>1. w \in Threads
    BY DEF Threads
  <2> QED
    BY <1>1, <2>1, OneTask, TaskAtOK DEF Claim
<1>11. TypeOK'
  BY <1>1, <1>3, <1>10, ConstantTypes DEF Claim, RefreshInv, QueueInv, TypeOK
<1> QED
  BY <1>5, <1>6, <1>8, <1>9, <1>10, <1>11 DEF StepOK, QueueInv

LEMMA LoopStepOK ==
  ASSUME QueueInv, LoopStep
  PROVE  StepOK
<1>1. CASE RequeueSkipped \/ YieldToSearch \/ CloseBatch
  BY <1>1, LoopOnlyStep DEF RequeueSkipped, YieldToSearch, CloseBatch, LoopStates,
     QueueInv, TypeOK
<1> QED
  BY <1>1, SweepStep, RequeueStep, ForgetStep, ClaimStep, ReleaseStep DEF LoopStep

-----------------------------------------------------------------------------
\* The other writers, and the environment.
Marked(row, state, wait) == [row EXCEPT !.state = state, !.wait = wait]
LEMMA MarkedType ==
  ASSUME NEW row \in QueueRow, NEW state \in States, NEW wait \in Nat
  PROVE  /\ Marked(row, state, wait) \in QueueRow
         /\ Marked(row, state, wait).state = state
         /\ row.state = state /\ row.wait = wait => Marked(row, state, wait) = row
  BY DEF Marked, QueueRow

LEMMA UpsertKept ==
  ASSUME QueueInv, NEW p \in Pages, NEW settled \in BOOLEAN
  PROVE  /\ RowKept(p, Upserted(queue[p], settled))
         /\ Leased(queue[p]) => Upserted(queue[p], settled) = queue[p]
<1>1. PICK old \in QueueRow : old = queue[p]
  BY DEF QueueInv, TypeOK
<1>2. PICK row : row = Upserted(old, settled)
  OBVIOUS
<1>3. old = queue[p] /\ row = Upserted(old, settled)
  BY <1>1, <1>2
<1>4. RowKept(p, row) /\ (Leased(old) => row = old)
  <2>1. CASE old.state = "ABSENT"
    BY <1>3, <2>1, NewRowType DEF Upserted, RowKept, States, Leased
  <2>2. CASE Leased(old)
    <3>1. row = Marked(old, "PROCESSING", old.wait)
      BY <1>3, <2>2 DEF Upserted, Leased, Marked
    <3>2. row = old
      <4>1. old.state = "PROCESSING" /\ old.state \in States /\ old.wait \in Nat
        BY <2>2 DEF Leased, QueueRow
      <4> QED
        BY <3>1, <4>1, MarkedType
    <3> QED
      BY <1>3, <2>2, <3>2 DEF RowKept, Leased, QueueInv
  <2>3. CASE old.state # "ABSENT" /\ ~Leased(old)
    <3>1. PICK state \in {"DEAD", "DONE", "PENDING"}, wait \in {old.wait, 0} :
            row = Marked(old, state, wait) /\ (old.state = "DEAD" => state = "DEAD")
      BY <1>3, <2>3 DEF Upserted, Marked
    <3>2. row \in QueueRow /\ row.state = state
      <4>1. state \in States /\ wait \in Nat
        BY DEF QueueRow, States
      <4> QED
        BY <3>1, <4>1, MarkedType
    <3> QED
      BY <1>3, <2>3, <3>1, <3>2 DEF RowKept
  <2> QED
    BY <2>1, <2>2, <2>3
<1> QED
  BY <1>3, <1>4

LEMMA UpsertStep ==
  ASSUME QueueInv, NEW p \in Pages, NEW settled \in BOOLEAN,
         storeUrl' = [storeUrl EXCEPT ![p] = "active"],
         queue' = [queue EXCEPT ![p] = Upserted(queue[p], settled)],
         UNCHANGED <<product, lastError, task, cursor, loop, searching>>
  PROVE  StepOK
<1> DEFINE row == Upserted(queue[p], settled)
<1>1. RowKept(p, row) /\ (Leased(queue[p]) => row = queue[p])
  BY UpsertKept
<1> HIDE DEF row
<1>2. queue' = [queue EXCEPT ![p] = row]
  BY DEF row
<1>3. QueueKept /\ DeadStep
  BY <1>1, <1>2, OneRowKept
<1>4. LeaseStep
  BY <1>1, <1>2 DEF LeaseStep, QueueInv, TypeOK
<1>5. RefreshInv'
  BY UrlSet DEF UrlStates
<1> QED
  BY <1>3, <1>4, <1>5, StepOKFromParts DEF QueueInv, TypeOK

LEMMA DiscoverStep ==
  ASSUME QueueInv, NEW p \in Pages, Discover(p) \/ DiscoverDeloox(p)
  PROVE  StepOK
<1>1. CASE Discover(p)
  <2>1. Fresh(product[p]) \in BOOLEAN
    BY DEF Fresh
  <2> QED
    BY <1>1, <2>1, UpsertStep DEF Discover, Discovered
<1>2. CASE DiscoverDeloox(p)
  <2>1. PICK settled \in BOOLEAN :
          queue' = [queue EXCEPT ![p] = Upserted(queue[p], settled)]
    BY <1>2 DEF DiscoverDeloox, Fresh
  <2> QED
    BY <1>2, <2>1, UpsertStep DEF DiscoverDeloox
<1> QED
  BY <1>1, <1>2

\* A page that is retired is closed only where no lease on it is live.
LEMMA RetireStep ==
  ASSUME QueueInv, RetireNavigation
  PROVE  StepOK
<1> DEFINE closed(p) == Closed(queue[p], "DONE", queue[p].wait)
<1>1. PICK gone \in SUBSET Navigation :
        /\ storeUrl' = [p \in Pages |-> IF p \in gone THEN "retired" ELSE storeUrl[p]]
        /\ queue' = [p \in Pages |->
             IF p \in gone /\ queue[p].state # "ABSENT" /\ ~Leased(queue[p])
             THEN closed(p) ELSE queue[p]]
  BY DEF RetireNavigation
<1>2. ASSUME NEW p \in Pages
      PROVE  queue[p] \in QueueRow /\ closed(p) \in QueueRow /\ closed(p).state = "DONE"
  <2>1. queue[p] \in QueueRow /\ queue[p].wait \in Nat /\ "DONE" \in States
    BY DEF QueueInv, TypeOK, QueueRow, States
  <2> QED
    BY <2>1, ClosedType
<1> HIDE DEF closed
<1>3. queue' \in [Pages -> QueueRow]
  BY <1>1, <1>2
<1>4. QueueKept /\ LeaseStep
  BY <1>1, <1>2, <1>3, RowsReplaced
<1>5. DeadStep
  BY <1>1, <1>2 DEF DeadStep
<1>6. RefreshInv'
  <2>1. storeUrl' \in [Pages -> UrlStates]
    BY <1>1, RefreshInvParts DEF QueueInv, UrlStates
  <2> QED
    BY <2>1, RefreshInvParts, RowsUnchanged, TasksUnchanged
    DEF RetireNavigation, QueueInv, RefreshInv, TasksOK, RowsOK, TypeOKRefresh
<1> QED
  BY <1>4, <1>5, <1>6, StepOKFromParts DEF RetireNavigation, QueueInv, TypeOK

\* Rows made ready again by a start or by an operator.
LEMMA RequeueIncompleteStep ==
  ASSUME QueueInv, RequeueIncomplete
  PROVE  StepOK
<1> DEFINE row(p) == [Afresh(queue[p]) EXCEPT !.priority = 0]
<1>1. PICK picked \in SUBSET Pages :
        /\ \A p \in picked : queue[p].state = "DONE"
        /\ queue' = [p \in Pages |-> IF p \in picked THEN row(p) ELSE queue[p]]
  BY StoresAssumption DEF RequeueIncomplete
<1>2. ASSUME NEW p \in Pages
      PROVE  queue[p] \in QueueRow /\ row(p) \in QueueRow /\ row(p).state = "PENDING"
  <2>1. queue[p] \in QueueRow
    BY DEF QueueInv, TypeOK
  <2>2. PICK afresh \in QueueRow : afresh = Afresh(queue[p]) /\ afresh.state = "PENDING"
    BY <2>1, AfreshType
  <2> QED
    BY <2>1, <2>2 DEF QueueRow
<1> HIDE DEF row
<1>3. queue' \in [Pages -> QueueRow]
  BY <1>1, <1>2
<1>4. QueueKept /\ LeaseStep
  BY <1>1, <1>2, <1>3, RowsReplaced DEF Leased
<1>5. DeadStep
  BY <1>1 DEF DeadStep
<1>6. RefreshInv'
  BY RefreshInvUnchanged DEF RequeueIncomplete, QueueInv
<1> QED
  BY <1>4, <1>5, <1>6, StepOKFromParts DEF RequeueIncomplete, QueueInv, TypeOK

LEMMA ResumeDeadStep ==
  ASSUME QueueInv, ResumeDead
  PROVE  StepOK
<1>1. PICK picked \in SUBSET Pages :
        /\ \A p \in picked : queue[p].state = "DEAD"
        /\ queue' = [p \in Pages |-> IF p \in picked THEN Afresh(queue[p]) ELSE queue[p]]
  BY StoresAssumption DEF ResumeDead
<1>2. ASSUME NEW p \in Pages
      PROVE  /\ queue[p] \in QueueRow /\ Afresh(queue[p]) \in QueueRow
             /\ Afresh(queue[p]).state = "PENDING" /\ Afresh(queue[p]).attempts = 0
  BY AfreshType DEF QueueInv, TypeOK
<1>3. queue' \in [Pages -> QueueRow]
  BY <1>1, <1>2
<1>4. QueueKept /\ LeaseStep
  BY <1>1, <1>2, <1>3, RowsReplaced DEF Leased
<1>5. DeadStep
  BY <1>1, <1>2 DEF DeadStep
<1>6. RefreshInv'
  BY RefreshInvUnchanged DEF ResumeDead, QueueInv
<1> QED
  BY <1>4, <1>5, <1>6, StepOKFromParts DEF ResumeDead, QueueInv, TypeOK

LEMMA RecoverParserErrorStep ==
  ASSUME QueueInv, NEW p \in Pages, RecoverParserError(p)
  PROVE  StepOK
<1> DEFINE row == Afresh(queue[p])
<1>1. queue[p] \in QueueRow /\ queue' = [queue EXCEPT ![p] = row]
      /\ queue[p].state \in {"ERROR", "DEAD"}
  BY DEF RecoverParserError, QueueInv, TypeOK
<1>2. RowKept(p, row) /\ ~Leased(queue[p])
  BY <1>1, AfreshType DEF RowKept, Leased
<1> HIDE DEF row
<1>3. QueueKept /\ DeadStep /\ LeaseStep
  BY <1>1, <1>2, OneRowKept, OneRowLease
<1>4. RefreshInv'
  BY RefreshInvUnchanged DEF RecoverParserError, QueueInv
<1> QED
  BY <1>3, <1>4, StepOKFromParts DEF RecoverParserError, QueueInv, TypeOK

LEMMA CoverageFindStep ==
  ASSUME QueueInv, NEW p \in Pages, CoverageFind(p)
  PROVE  StepOK
<1>1. RefreshInv'
  BY UrlSet DEF CoverageFind, UrlStates
<1>2. QueueKept /\ DeadStep /\ LeaseStep
  <2>1. CASE queue[p].state = "ABSENT"
    <3>1. queue' = [queue EXCEPT ![p] = NewRow("PENDING")]
      BY <2>1 DEF CoverageFind
    <3>2. RowKept(p, NewRow("PENDING")) /\ ~Leased(queue[p])
      BY <2>1, NewRowType DEF RowKept, States, Leased
    <3> QED
      BY <3>1, <3>2, OneRowKept, OneRowLease
  <2>2. CASE queue[p].state # "ABSENT"
    BY <2>2, QueueUnchanged DEF CoverageFind
  <2> QED
    BY <2>1, <2>2
<1> QED
  BY <1>1, <1>2, StepOKFromParts DEF CoverageFind, QueueInv, TypeOK

LEMMA PrioritizeStep ==
  ASSUME QueueInv, NEW p \in Pages, Prioritize(p)
  PROVE  StepOK
<1> DEFINE old == queue[p]
           state == IF old.state = "DONE" THEN "PENDING" ELSE old.state
           wait == IF old.state = "DONE" THEN 0 ELSE old.wait
           row == [old EXCEPT !.state = state, !.wait = wait, !.priority = 0]
<1>1. old \in QueueRow /\ old.state \in {"DONE", "PENDING", "ERROR"}
  BY DEF Prioritize, QueueInv, TypeOK
<1>2. queue' = [queue EXCEPT ![p] = row]
  BY <1>1 DEF Prioritize, QueueInv, TypeOK, QueueRow
<1>3. state \in {"PENDING", "ERROR"} /\ wait \in Nat
  BY <1>1 DEF QueueRow
<1> HIDE DEF state, wait
<1>4. row \in QueueRow /\ row.state = state
  BY <1>1, <1>3 DEF QueueRow, States
<1>5. RowKept(p, row) /\ ~Leased(old)
  BY <1>1, <1>3, <1>4 DEF RowKept, Leased
<1> HIDE DEF row
<1>6. QueueKept /\ DeadStep /\ LeaseStep
  BY <1>2, <1>5, OneRowKept, OneRowLease
<1>7. RefreshInv'
  BY RefreshInvUnchanged DEF Prioritize, QueueInv
<1> QED
  BY <1>6, <1>7, StepOKFromParts DEF Prioritize, QueueInv, TypeOK

LEMMA SearchStep ==
  ASSUME QueueInv, SearchStarts \/ SearchEnds \/ BootFails \/ Restart
  PROVE  StepOK
BY LoopOnlyStep DEF SearchStarts, SearchEnds, BootFails, Restart, LoopStates, QueueInv, TypeOK

LEMMA TickStep ==
  ASSUME QueueInv, Tick
  PROVE  StepOK
<1> DEFINE row(p) == [queue[p] EXCEPT !.lease = CountDown(@), !.wait = CountDown(@)]
<1>1. RefreshInv'
  BY AgeEverythingStep DEF Tick, QueueInv
<1>2. ASSUME NEW p \in Pages
      PROVE  /\ row(p) \in QueueRow /\ row(p).state = queue[p].state
             /\ queue[p].wait = 0 => row(p).wait = 0
             /\ queue[p].wait = 0 /\ queue[p].lease > 0
                  => row(p) = [queue[p] EXCEPT !.lease = @ - 1]
  <2>1. queue[p] \in QueueRow
    BY DEF QueueInv, TypeOK
  <2>2. queue[p].lease \in 0 .. LeaseTime /\ queue[p].wait \in Nat
    BY <2>1 DEF QueueRow
  <2>3. CountDown(queue[p].lease) \in 0 .. LeaseTime /\ CountDown(queue[p].wait) \in Nat
    BY <2>2, ConstantTypes DEF CountDown
  <2>4. row(p) \in QueueRow
    BY <2>1, <2>3 DEF QueueRow
  <2>5. row(p).state = queue[p].state /\ row(p).wait = CountDown(queue[p].wait)
    BY <2>1 DEF QueueRow
  <2>6. ASSUME queue[p].wait = 0, queue[p].lease > 0
        PROVE  row(p) = [queue[p] EXCEPT !.lease = @ - 1]
    <3>1. CountDown(queue[p].lease) = queue[p].lease - 1 /\ CountDown(queue[p].wait) = queue[p].wait
      BY <2>2, <2>6 DEF CountDown
    <3> QED
      BY <2>1, <3>1 DEF QueueRow
  <2> QED
    BY <2>4, <2>5, <2>6 DEF CountDown
<1>3. \A p \in Pages : queue'[p] = row(p)
  BY DEF Tick
<1>4. queue' = [p \in Pages |-> row(p)]
  BY DEF Tick
<1> HIDE DEF row
<1>5. QueueKept /\ DeadStep
  BY <1>2, <1>3, <1>4 DEF QueueKept, DeadStep, QueueInv
<1>6. LeaseStep
  BY <1>2, <1>3 DEF LeaseStep, Leased, QueueInv
<1> QED
  BY <1>1, <1>5, <1>6, StepOKFromParts DEF Tick, QueueInv, TypeOK

LEMMA CrashStep ==
  ASSUME QueueInv, Crash
  PROVE  StepOK
<1>1. TasksOK'
  BY IdleTaskOK DEF Crash, TasksOK, TaskOK
<1>2. RefreshInv'
  BY <1>1, RefreshInvParts, RowsUnchanged
  DEF Crash, QueueInv, RefreshInv, TasksOK, RowsOK, TypeOKRefresh
<1> QED
  BY <1>2, QueueUnchanged, StepOKFromParts DEF Crash, QueueInv, TypeOK, LoopStates

-----------------------------------------------------------------------------
\* Every step of the system preserves QueueInv and respects leases and DEAD rows.
LEMMA NextOK == QueueInv /\ [Next]_vars => QueueInv' /\ [LeaseStep]_vars /\ [DeadStep]_vars
<1> SUFFICES ASSUME QueueInv, [Next]_vars
             PROVE  QueueInv' /\ [LeaseStep]_vars /\ [DeadStep]_vars
  OBVIOUS
<1>1. CASE LoopStep
  BY <1>1, LoopStepOK DEF StepOK
<1>2. CASE BootFails \/ SearchStarts \/ SearchEnds \/ Restart
  BY <1>2, SearchStep DEF StepOK
<1>3. ASSUME NEW p \in Pages,
             \/ Backfill(p) \/ Discover(p) \/ DiscoverDeloox(p)
             \/ CoverageFind(p) \/ Prioritize(p) \/ RecoverParserError(p)
      PROVE  StepOK
  BY <1>3, BackfillStep, DiscoverStep, CoverageFindStep, PrioritizeStep,
     RecoverParserErrorStep
<1>4. ASSUME NEW w \in Workers, Hydrate(w) PROVE StepOK
  BY <1>4, HydrateStep
<1>5. ASSUME NEW r \in Refreshers, Unleased(r) PROVE StepOK
  BY <1>5, UnleasedStep
<1>6. CASE Tick \/ Crash
  BY <1>6, TickStep, CrashStep DEF StepOK
<1>7. CASE UNCHANGED vars
  BY <1>7, LoopOnlyStep DEF StepOK, vars, refreshVars, QueueInv, TypeOK
<1>8. CASE RetireNavigation \/ RequeueIncomplete \/ ResumeDead
  BY <1>8, RetireStep, RequeueIncompleteStep, ResumeDeadStep DEF StepOK
<1> QED
  BY <1>1, <1>2, <1>3, <1>4, <1>5, <1>6, <1>7, <1>8 DEF Next, StepOK

LEMMA InitQueueInv == Init => QueueInv
<1> SUFFICES ASSUME Init PROVE QueueInv
  OBVIOUS
<1>1. RefreshInv
  BY InitRefreshInv DEF Init
<1>2. queue \in [Pages -> QueueRow] /\ \A p \in Pages : queue[p].state = "ABSENT"
  BY NewRowType DEF Init, States
<1>3. StoreCapInv
  <2> SUFFICES ASSUME NEW s \in 0 .. NStores - 1
               PROVE  Cardinality(InFlight(s)) <= StoreCap
    BY DEF StoreCapInv
  <2>1. InFlight(s) = {}
    BY <1>2 DEF InFlight
  <2> QED
    BY <2>1, FS_EmptySet, ConstantTypes
<1>4. cursor \in 0 .. NStores - 1 /\ loop \in LoopStates /\ searching \in BOOLEAN
  <2>1. 0 \in 0 .. NStores - 1
    BY StoresAssumption
  <2> QED
    BY <2>1 DEF Init, LoopStates
<1> QED
  BY <1>1, <1>2, <1>3, <1>4 DEF QueueInv, TypeOK, RefreshInv

\* QueueInv holds in every reachable state, for any number of pages, stores,
\* workers and unleased refreshes, any lease, backoff and store cap.
THEOREM QueueInvariant == Spec => []QueueInv
  BY InitQueueInv, NextOK, PTL DEF Spec

\* No crash, abandoned batch, discovery or late worker ever leaves more rows of one
\* store in flight than the claim's bound (active_by_store in
\* _claim_one_hydration_task).
THEOREM StoreCapHolds == Spec => []StoreCapInv
<1>1. QueueInv => StoreCapInv
  BY DEF QueueInv
<1> QED
  BY <1>1, QueueInvariant, PTL

\* A product page's live lease ends by the clock or by the task that holds its
\* token, whoever else writes the queue at the same time.
THEOREM LeaseOfOwnerOnly == Spec => LiveLeaseIsKept
  BY QueueInvariant, NextOK, PTL DEF Spec, LiveLeaseIsKept

\* A dead-lettered product page stays dead through discovery, coverage, a start's
\* recoveries, a priority hint and a late worker: an operator revives it, with all its
\* attempts anew, or its retirement as a navigation page closes it.
THEOREM DeadOnlyByHand == Spec => DeadIsRevivedByHand
  BY QueueInvariant, NextOK, PTL DEF Spec, DeadIsRevivedByHand

-----------------------------------------------------------------------------
(***************************************************************************)
(* A worker that comes late.                                                *)
(***************************************************************************)
Finishing(w) == task[w].phase \in {"returned", "reporting"}

\* A step that ends no finishing task, or writes no queue row, cannot be a late
\* worker's.
LEMMA NobodyEnds ==
  ASSUME \A w \in Workers : Finishing(w) => task'[w].phase # "idle"
  PROVE  LateWorkerStep
  BY DEF LateWorkerStep, Finishing, IdleTask

LEMMA NoRowWritten ==
  ASSUME QueueInv, UNCHANGED queue
  PROVE  LateWorkerStep
  BY DEF LateWorkerStep

LEMMA NoTaskTouched ==
  ASSUME QueueInv, UNCHANGED task
  PROVE  LateWorkerStep
  BY NobodyEnds DEF Finishing

\* The tasks that end are those of ws; all the others stay where they are.
LEMMA OthersStay ==
  ASSUME QueueInv, NEW ws, task' = Drop(ws)
  PROVE  \A v \in Workers \ ws : task'[v] = task[v]
  BY DEF Drop, Threads

\* The row a worker closes is the row it still holds.
LEMMA LateOwner ==
  ASSUME QueueInv, NEW w \in Workers, task[w].phase # "idle",
         NEW row, SetOwned(w, row), task' = Drop({w})
  PROVE  LateWorkerStep
<1> SUFFICES ASSUME NEW v \in Workers, Finishing(v), task'[v] = IdleTask,
                    NEW p \in Pages, queue'[p] # queue[p]
             PROVE  p = task[v].page /\ queue[p].token = v /\ queue[p].state = "PROCESSING"
  BY DEF LateWorkerStep, Finishing
<1>1. v = w
  <2>1. CASE v # w
    <3>1. task'[v] = task[v]
      BY <2>1, OthersStay
    <3> QED
      BY <3>1 DEF Finishing, IdleTask
  <2> QED
    BY <2>1
<1>2. Owns(w) /\ queue' = [queue EXCEPT ![task[w].page] = row]
  BY DEF SetOwned
<1>3. p = task[w].page
  BY <1>2 DEF QueueInv, TypeOK
<1> QED
  BY <1>1, <1>2, <1>3 DEF Owns

\* A release of a task that never fetched: no finishing task ends.
LEMMA ReleaseLate ==
  ASSUME QueueInv, NEW w \in Workers, Release(w) \/ StartReleases(w)
  PROVE  LateWorkerStep
<1>1. task[w].phase = "held" /\ task' = Drop({w})
  BY DEF Release, StartReleases
<1>2. ASSUME NEW v \in Workers, Finishing(v) PROVE task'[v].phase # "idle"
  BY <1>1, <1>2, OthersStay DEF Finishing
<1> QED
  BY <1>2, NobodyEnds

LEMMA ClaimLate ==
  ASSUME QueueInv, NEW w \in Workers, Claim(w)
  PROVE  LateWorkerStep
<1>1. ASSUME NEW v \in Workers, Finishing(v) PROVE task'[v].phase # "idle"
  <2>1. v # w /\ task'[v] = task[v]
    BY <1>1, RefreshInvParts DEF Claim, Finishing, QueueInv, TasksOK
  <2> QED
    BY <1>1, <2>1 DEF Finishing
<1> QED
  BY <1>1, NobodyEnds

\* The commit of a refresh may insert a queue row, but its thread goes on.
LEMMA RefreshLate ==
  ASSUME QueueInv, NEW t \in Threads, Refresh(t)
  PROVE  LateWorkerStep
<1>1. CASE PersistQueued(t)
  <2>1. ASSUME NEW v \in Workers, Finishing(v) PROVE task'[v].phase # "idle"
    <3>1. v \in Threads /\ v # t /\ task'[v] = task[v]
      BY <1>1, <2>1, RefreshInvParts
      DEF PersistQueued, Persist, Finishing, QueueInv, TasksOK, Threads
    <3> QED
      BY <2>1, <3>1 DEF Finishing
  <2> QED
    BY <2>1, NobodyEnds
<1>2. CASE UNCHANGED queueVars
  BY <1>2, NoRowWritten DEF queueVars
<1> QED
  BY <1>1, <1>2 DEF Refresh

LEMMA HydrateLate ==
  ASSUME QueueInv, NEW w \in Workers, Hydrate(w)
  PROVE  LateWorkerStep
<1>1. CASE Start(w) \/ Explain(w) \/ MarkFails(w)
  BY <1>1, NoRowWritten DEF Start, Explain, MarkFails
<1>2. CASE MarkDone(w) \/ MarkError(w)
  BY <1>2, LateOwner DEF MarkDone, MarkError
<1>3. CASE Refresh(w)
  BY <1>3, RefreshLate DEF Threads
<1> QED
  BY <1>1, <1>2, <1>3, ReleaseLate DEF Hydrate

LEMMA AgeLate ==
  ASSUME QueueInv, Tick
  PROVE  LateWorkerStep
<1>1. ASSUME NEW w \in Workers, Finishing(w) PROVE task'[w].phase # "idle"
  BY <1>1 DEF Tick, AgeEverything, AgedTask, Finishing, Threads
<1> QED
  BY <1>1, NobodyEnds

LEMMA LoopLate ==
  ASSUME QueueInv, LoopStep
  PROVE  LateWorkerStep
<1>1. CASE FinishBoot \/ Requeue \/ StartBatch \/ ClaimNothing
  BY <1>1, NoTaskTouched DEF FinishBoot, Requeue, StartBatch, ClaimNothing, refreshVars
<1>2. CASE RequeueSkipped \/ YieldToSearch \/ CloseBatch \/ AbandonBatch \/ EndBatch
  BY <1>2, NoRowWritten DEF RequeueSkipped, YieldToSearch, CloseBatch, AbandonBatch, EndBatch
<1> QED
  BY <1>1, <1>2, ClaimLate, ReleaseLate DEF LoopStep

LEMMA NextLate == QueueInv /\ [Next]_vars => [LateWorkerStep]_vars
<1> SUFFICES ASSUME QueueInv, Next PROVE LateWorkerStep
  OBVIOUS
<1>1. ASSUME NEW p \in Pages,
             \/ Backfill(p) \/ Discover(p) \/ DiscoverDeloox(p)
             \/ CoverageFind(p) \/ Prioritize(p) \/ RecoverParserError(p)
      PROVE  LateWorkerStep
  BY <1>1, NoTaskTouched DEF Backfill, Discover, DiscoverDeloox, CoverageFind, Prioritize,
     RecoverParserError, refreshVars
<1>2. ASSUME NEW w \in Workers, Hydrate(w) PROVE LateWorkerStep
  BY <1>2, HydrateLate
<1>3. ASSUME NEW r \in Refreshers, Unleased(r) PROVE LateWorkerStep
  BY <1>3, RefreshLate, NoRowWritten DEF Unleased, Threads, queueVars
<1>4. CASE BootFails \/ SearchStarts \/ SearchEnds \/ Restart \/ Crash
  BY <1>4, NoRowWritten DEF BootFails, SearchStarts, SearchEnds, Restart, Crash
<1>5. CASE RetireNavigation \/ RequeueIncomplete \/ ResumeDead
  BY <1>5, NoTaskTouched DEF RetireNavigation, RequeueIncomplete, ResumeDead, refreshVars
<1> QED
  BY <1>1, <1>2, <1>3, <1>4, <1>5, LoopLate, AgeLate DEF Next

\* A worker that reports after its lease ran out, or was given to somebody else,
\* writes nothing: of all the rows only the one that still carries its token and is
\* PROCESSING can change (WHERE lease_token=? AND state='PROCESSING' in every
\* _queue_mark_* statement), for any number of workers, pages and leases.
THEOREM LateWorkerIsHarmless == Spec => LateWorkerChangesNothing
  BY QueueInvariant, NextLate, PTL DEF Spec, LateWorkerChangesNothing

-----------------------------------------------------------------------------
(***************************************************************************)
(* DONE means an offer.                                                     *)
(***************************************************************************)
\* The catalogue has had an item of the page that no observation has taken back: it
\* has one, or the error of a refresh hides it.
HadItem(p) == product[p].status = "OK" \/ product[p].hidden

\* What a thread has committed is still true of its page.
Truthful(t) ==
  task[t].phase \in {"committed", "returned"} /\ task[t].seen \in Offers
    => HadItem(task[t].page)

\* The inductive invariant behind DoneHasOffer.
OfferInv == DoneHasOffer /\ \A t \in Threads : Truthful(t)

\* No step takes an item back; a refresh hides it at most.
ItemsStay == \A p \in Pages : HadItem(p) => HadItem(p)'

LEMMA TruthfulElsewhere ==
  ASSUME QueueInv, NEW t \in Threads, Truthful(t), task'[t] = task[t], ItemsStay
  PROVE  Truthful(t)'
<1>1. TaskOK(task[t])
  BY RefreshInvParts DEF QueueInv, TasksOK
<1> QED
  BY <1>1 DEF Truthful, TaskOK, ItemsStay

LEMMA ProductsSame == ASSUME UNCHANGED product PROVE ItemsStay
  BY DEF ItemsStay, HadItem

\* A step that marks no row DONE whose page had no item.
NoFalseDone ==
  \A p \in Pages \ Navigation : queue'[p].state = "DONE" =>
    queue[p].state = "DONE" \/ HadItem(p)

LEMMA FromParts ==
  ASSUME OfferInv, NoFalseDone, \A t \in Threads : Truthful(t)', ItemsStay
  PROVE  OfferInv'
  BY DEF OfferInv, NoFalseDone, DoneHasOffer, ItemsStay, HadItem

LEMMA RowsOnly ==
  ASSUME QueueInv, OfferInv, NoFalseDone, UNCHANGED <<task, product>>
  PROVE  OfferInv'
<1>1. \A t \in Threads : Truthful(t)'
  BY TruthfulElsewhere, ProductsSame DEF OfferInv
<1> QED
  BY <1>1, FromParts, ProductsSame

\* Tasks that end claim nothing any more.
LEMMA TasksDropped ==
  ASSUME QueueInv, OfferInv, NoFalseDone, NEW ws, task' = Drop(ws), UNCHANGED product
  PROVE  OfferInv'
<1>1. ASSUME NEW t \in Threads PROVE Truthful(t)'
  <2>1. CASE t \in ws
    BY <2>1 DEF Drop, IdleTask, Truthful
  <2>2. CASE t \notin ws
    BY <2>2, TruthfulElsewhere, ProductsSame DEF OfferInv, Drop
  <2> QED
    BY <2>1, <2>2
<1> QED
  BY <1>1, FromParts, ProductsSame

LEMMA QueueSame ==
  ASSUME UNCHANGED queue
  PROVE  NoFalseDone
  BY DEF NoFalseDone

LEMMA OneRow ==
  ASSUME QueueInv, NEW p, NEW row, queue' = [queue EXCEPT ![p] = row],
         row.state = "DONE" => HadItem(p)
  PROVE  NoFalseDone
  BY DEF NoFalseDone, QueueInv, TypeOK

LEMMA OwnedRow ==
  ASSUME QueueInv, NEW w, NEW row, SetOwned(w, row),
         row.state = "DONE" => HadItem(task[w].page)
  PROVE  NoFalseDone
  BY OneRow, QueueSame DEF SetOwned

LEMMA RecoveredDone ==
  ASSUME QueueInv, NEW p \in Pages, Recovered[p].state = "DONE"
  PROVE  queue[p].state = "DONE"
<1>1. queue[p] \in QueueRow /\ Pending(queue[p]).state = "PENDING"
  BY PendingType DEF QueueInv, TypeOK
<1> QED
  BY <1>1 DEF Recovered

-----------------------------------------------------------------------------
LEMMA BackfillDone ==
  ASSUME QueueInv, OfferInv, NEW p \in Pages, Backfill(p)
  PROVE  OfferInv'
<1>1. NoFalseDone
  <2>1. CASE p \in NonProduct
    BY <2>1, OneRow, NewRowType DEF Backfill, States
  <2>2. CASE p \notin NonProduct
    <3> DEFINE state == IF product[p].status = "OK" THEN "DONE" ELSE "PENDING"
    <3>1. queue' = [queue EXCEPT ![p] = NewRow(state)] /\ NewRow(state).state = state
      BY <2>2, NewRowType DEF Backfill, States
    <3> QED
      BY <3>1, OneRow DEF HadItem
  <2> QED
    BY <2>1, <2>2
<1> QED
  BY <1>1, RowsOnly DEF Backfill

LEMMA UpsertDone ==
  ASSUME QueueInv, NEW p \in Pages, NEW settled \in BOOLEAN,
         Upserted(queue[p], settled).state = "DONE"
  PROVE  settled
<1>1. PICK old \in QueueRow : old = queue[p]
  BY DEF QueueInv, TypeOK
<1> DEFINE row == Upserted(old, settled)
<1>2. CASE old.state = "ABSENT"
  BY <1>1, <1>2, NewRowType DEF Upserted, States
<1>3. CASE Leased(old)
  <2>1. row = Marked(old, "PROCESSING", old.wait)
    BY <1>3 DEF Upserted, Leased, Marked
  <2> QED
    BY <1>1, <2>1 DEF Marked, QueueRow
<1>4. CASE old.state # "ABSENT" /\ ~Leased(old)
  <2>1. PICK state \in {"DEAD", "DONE", "PENDING"}, wait \in {old.wait, 0} :
          row = Marked(old, state, wait) /\ (state = "DONE" => settled)
    BY <1>4 DEF Upserted, Marked
  <2>2. row.state = state
    BY <2>1 DEF Marked, QueueRow
  <2> QED
    BY <1>1, <2>1, <2>2
<1> QED
  BY <1>2, <1>3, <1>4

LEMMA DiscoverDone ==
  ASSUME QueueInv, OfferInv, NEW p \in Pages, Discover(p) \/ DiscoverDeloox(p)
  PROVE  OfferInv'
<1>1. PICK settled \in BOOLEAN :
        /\ queue' = [queue EXCEPT ![p] = Upserted(queue[p], settled)]
        /\ settled => Fresh(product[p])
  BY DEF Discover, Discovered, DiscoverDeloox, Fresh
<1>2. Upserted(queue[p], settled).state = "DONE" => HadItem(p)
  BY <1>1, UpsertDone DEF Fresh, HadItem
<1>3. NoFalseDone
  BY <1>1, <1>2, OneRow
<1> QED
  BY <1>3, RowsOnly DEF Discover, DiscoverDeloox

\* Only navigation pages are closed without an item.
LEMMA RetireDone ==
  ASSUME QueueInv, OfferInv, RetireNavigation
  PROVE  OfferInv'
<1>1. \A p \in Pages \ Navigation : queue'[p] = queue[p]
  BY DEF RetireNavigation
<1>2. NoFalseDone
  BY <1>1 DEF NoFalseDone
<1> QED
  BY <1>2, RowsOnly DEF RetireNavigation

LEMMA AfreshDone ==
  ASSUME QueueInv, OfferInv, RequeueIncomplete \/ ResumeDead
  PROVE  OfferInv'
<1>1. ASSUME NEW p \in Pages, queue'[p].state = "DONE" PROVE queue[p].state = "DONE"
  <2>1. PICK afresh \in QueueRow : afresh = Afresh(queue[p]) /\ afresh.state = "PENDING"
    BY AfreshType DEF QueueInv, TypeOK
  <2>2. queue'[p] \in {queue[p], afresh, [afresh EXCEPT !.priority = 0]}
    BY <2>1 DEF RequeueIncomplete, ResumeDead
  <2>3. [afresh EXCEPT !.priority = 0].state = "PENDING"
    BY <2>1 DEF QueueRow
  <2> QED
    BY <1>1, <2>1, <2>2, <2>3
<1>2. NoFalseDone
  BY <1>1 DEF NoFalseDone
<1> QED
  BY <1>2, RowsOnly DEF RequeueIncomplete, ResumeDead, refreshVars

LEMMA RecoverParserErrorDone ==
  ASSUME QueueInv, OfferInv, NEW p \in Pages, RecoverParserError(p)
  PROVE  OfferInv'
<1>1. Afresh(queue[p]).state = "PENDING"
  BY AfreshType DEF QueueInv, TypeOK
<1>2. NoFalseDone
  BY <1>1, OneRow DEF RecoverParserError
<1> QED
  BY <1>2, RowsOnly DEF RecoverParserError, refreshVars

LEMMA CoverageFindDone ==
  ASSUME QueueInv, OfferInv, NEW p \in Pages, CoverageFind(p)
  PROVE  OfferInv'
<1>1. NoFalseDone
  BY OneRow, QueueSame, NewRowType DEF CoverageFind, States
<1> QED
  BY <1>1, RowsOnly DEF CoverageFind

LEMMA PrioritizeDone ==
  ASSUME QueueInv, OfferInv, NEW p \in Pages, Prioritize(p)
  PROVE  OfferInv'
<1>1. queue[p] \in QueueRow
  BY DEF QueueInv, TypeOK
<1>2. queue'[p].state # "DONE"
  BY <1>1 DEF Prioritize, QueueInv, TypeOK, QueueRow
<1>3. NoFalseDone
  BY <1>2 DEF Prioritize, NoFalseDone, QueueInv, TypeOK
<1> QED
  BY <1>3, RowsOnly DEF Prioritize, refreshVars

LEMMA RequeueDone ==
  ASSUME QueueInv, OfferInv, Requeue
  PROVE  OfferInv'
<1>1. PICK picked \in SUBSET Pages :
        queue' = [p \in Pages |-> IF p \in picked
             THEN [queue[p] EXCEPT !.state = "PENDING", !.wait = 0,
                                   !.priority = Lower(@, 50)]
             ELSE queue[p]]
  BY DEF Requeue
<1>2. ASSUME NEW p \in Pages, queue'[p].state = "DONE" PROVE queue[p].state = "DONE"
  <2>1. queue[p] \in QueueRow
    BY DEF QueueInv, TypeOK
  <2> DEFINE low == Lower(queue[p].priority, 50)
  <2>2. queue'[p] = IF p \in picked
             THEN [queue[p] EXCEPT !.state = "PENDING", !.wait = 0, !.priority = low]
             ELSE queue[p]
    BY <1>1
  <2> HIDE DEF low
  <2> QED
    BY <1>2, <2>1, <2>2 DEF QueueRow
<1>3. NoFalseDone
  BY <1>2 DEF NoFalseDone
<1> QED
  BY <1>3, RowsOnly DEF Requeue, refreshVars

LEMMA SweepDone ==
  ASSUME QueueInv, OfferInv, FinishBoot \/ StartBatch \/ ClaimNothing
  PROVE  OfferInv'
<1>1. NoFalseDone
  BY RecoveredDone DEF FinishBoot, StartBatch, ClaimNothing, NoFalseDone
<1> QED
  BY <1>1, RowsOnly DEF FinishBoot, StartBatch, ClaimNothing, refreshVars

\* A task that has just been placed, or only moved, claims nothing about its page.
LEMMA TaskMoved ==
  ASSUME QueueInv, OfferInv, NoFalseDone, NEW t \in Threads, NEW k,
         task' = [task EXCEPT ![t] = k], UNCHANGED product,
         k.phase \in {"committed", "returned"} /\ k.seen \in Offers => HadItem(k.page)
  PROVE  OfferInv'
<1>1. task'[t] = k /\ \A u \in Threads \ {t} : task'[u] = task[u]
  BY RefreshInvParts DEF QueueInv, TasksOK
<1>2. ASSUME NEW u \in Threads PROVE Truthful(u)'
  <2>1. CASE u = t
    BY <1>1, <2>1 DEF Truthful, HadItem
  <2>2. CASE u # t
    BY <1>1, <2>2, TruthfulElsewhere, ProductsSame DEF OfferInv
  <2> QED
    BY <2>1, <2>2
<1> QED
  BY <1>2, FromParts, ProductsSame

LEMMA ClaimDone ==
  ASSUME QueueInv, OfferInv, NEW w \in Workers, Claim(w)
  PROVE  OfferInv'
<1>1. PICK p \in Pages :
        /\ queue' = [Recovered EXCEPT ![p] = ClaimedBy(w, Recovered[p])]
        /\ task' = [task EXCEPT ![w] = TaskAt("held", p)]
  BY DEF Claim
<1>2. ClaimedBy(w, Recovered[p]).state = "PROCESSING"
  BY RecoveredType, ClaimedType
<1>3. NoFalseDone
  BY <1>1, <1>2, RecoveredType, RecoveredDone DEF NoFalseDone
<1>4. TaskAt("held", p).phase = "held" /\ w \in Threads /\ UNCHANGED product
  BY DEF TaskAt, IdleTask, Threads, Claim
<1> QED
  BY <1>1, <1>3, <1>4, TaskMoved

LEMMA EndsDone ==
  ASSUME QueueInv, OfferInv, NEW w \in Workers,
         Release(w) \/ StartReleases(w) \/ MarkError(w)
  PROVE  OfferInv'
<1>1. queue[task[w].page] \in QueueRow
  BY OwnRowType DEF Release, StartReleases, MarkError
<1>2. Pending(queue[task[w].page]).state = "PENDING"
      /\ Failed(queue[task[w].page], task[w].seen).state \in {"DEAD", "ERROR"}
  BY <1>1, PendingType, FailedType
<1>3. NoFalseDone
  BY <1>2, OwnedRow, QueueSame DEF Release, StartReleases, MarkError
<1> QED
  BY <1>3, TasksDropped DEF Release, StartReleases, MarkError

\* The one step of a worker that makes a row DONE: what it saw is in the table.
LEMMA MarkDoneDone ==
  ASSUME QueueInv, OfferInv, NEW w \in Workers, MarkDone(w)
  PROVE  OfferInv'
<1>1. HadItem(task[w].page)
  BY DEF MarkDone, OfferInv, Truthful, Threads
<1>2. NoFalseDone
  BY <1>1, OwnedRow DEF MarkDone
<1> QED
  BY <1>2, TasksDropped DEF MarkDone

-----------------------------------------------------------------------------
\* Inside refresh_url.
LEMMA PersistDone ==
  ASSUME QueueInv, OfferInv, NEW t \in Threads, PersistQueued(t)
  PROVE  OfferInv'
<1> DEFINE k == task[t]
           row == Merged(product[k.page], k.seen, k.age)
<1>1. k \in Task /\ k.phase = "parsed" /\ k.page \in Pages /\ k.seen \in Parses
  BY RefreshInvParts DEF QueueInv, TasksOK, TaskOK, PersistQueued, Persist
<1>2. product' = [product EXCEPT ![k.page] = row] /\ product \in [Pages -> ProductRow]
  BY RefreshInvParts DEF QueueInv, RowsOK, PersistQueued, Persist
<1>3. HadItem(k.page) => row.status = "OK" \/ row.hidden
  BY DEF Merged, HadItem
<1>4. k.seen \in Offers => row.status = "OK"
  BY DEF Merged, Offers
<1>5. task'[t].phase = "committed" /\ task'[t].page = k.page /\ task'[t].seen = k.seen
      /\ \A u \in Threads \ {t} : task'[u] = task[u]
  BY <1>1, RefreshInvParts DEF QueueInv, TasksOK, Task, PersistQueued, Persist
<1> HIDE DEF row
<1>6. ItemsStay
  BY <1>2, <1>3 DEF ItemsStay, HadItem
<1>7. ASSUME NEW u \in Threads PROVE Truthful(u)'
  <2>1. CASE u = t
    BY <1>1, <1>2, <1>4, <1>5, <2>1 DEF Truthful, HadItem
  <2>2. CASE u # t
    BY <1>5, <1>6, <2>2, TruthfulElsewhere DEF OfferInv
  <2> QED
    BY <2>1, <2>2
<1>8. NoFalseDone
  BY <1>1, OneRow, QueueSame, NewRowType DEF PersistQueued, States
<1> QED
  BY <1>6, <1>7, <1>8, FromParts

\* An error that replaces an OK row says so.
LEMMA WriteErrorDone ==
  ASSUME QueueInv, OfferInv, NEW t \in Threads, WriteError(t), UNCHANGED queue
  PROVE  OfferInv'
<1> DEFINE k == task[t]
           hidden == product[k.page].hidden \/ product[k.page].status = "OK"
           row == [product[k.page] EXCEPT !.status = k.seen, !.age = 0, !.hidden = hidden]
<1>1. k \in Task /\ k.phase = "writing" /\ k.page \in Pages /\ k.seen \in Failures
  BY RefreshInvParts DEF QueueInv, TasksOK, TaskOK, WriteError
<1>2. product \in [Pages -> ProductRow] /\ task \in [Threads -> Task]
  BY RefreshInvParts DEF QueueInv, RowsOK, TasksOK
<1>3. task'[t].phase \in {"idle", "returned"} /\ \A u \in Threads \ {t} : task'[u] = task[u]
  BY <1>1, <1>2 DEF WriteError, Returned, IdleTask, Task
<1>4. task'[t].phase = "returned" => task'[t].seen = k.seen
  BY <1>1, <1>2 DEF WriteError, Returned, IdleTask, Task
<1>5. Truthful(t)'
  BY <1>1, <1>3, <1>4 DEF Truthful, Offers, Failures
<1>6. ItemsStay
  <2>1. CASE k.good
    BY <2>1, ProductsSame DEF WriteError
  <2>2. CASE ~k.good
    <3>1. product' = [product EXCEPT ![k.page] = row]
      BY <1>1, <1>2, <2>2 DEF WriteError
    <3>2. row.hidden = hidden
      BY <1>1, <1>2 DEF ProductRow
    <3>3. \A p \in Pages \ {k.page} : product'[p] = product[p]
      BY <1>2, <3>1
    <3>4. product'[k.page] = row
      BY <1>1, <1>2, <3>1
    <3> HIDE DEF row
    <3> QED
      BY <3>2, <3>3, <3>4 DEF ItemsStay, HadItem
  <2> QED
    BY <2>1, <2>2
<1>7. ASSUME NEW u \in Threads PROVE Truthful(u)'
  BY <1>3, <1>5, <1>6, TruthfulElsewhere DEF OfferInv
<1> QED
  BY <1>6, <1>7, QueueSame, FromParts

\* The steps that write neither table of the catalogue.
LEMMA QuietRefreshDone ==
  ASSUME QueueInv, OfferInv, NEW t \in Threads, UNCHANGED queue,
         \/ Parse(t) \/ FinishRefresh(t) \/ FetchFails(t) \/ PersistFails(t)
         \/ ReadOffer(t) \/ ErrorWriteFails(t)
  PROVE  OfferInv'
<1> DEFINE k == task[t]
<1>1. k \in Task /\ task \in [Threads -> Task] /\ NoFalseDone
  BY RefreshInvParts, QueueSame DEF QueueInv, TasksOK
<1>2. CASE Parse(t)
  <2>1. PICK seen \in Parses :
          task' = [task EXCEPT ![t] = [k EXCEPT !.phase = "parsed", !.seen = seen]]
    BY <1>2 DEF Parse
  <2>2. [k EXCEPT !.phase = "parsed", !.seen = seen].phase = "parsed"
    BY <1>1 DEF Task
  <2> QED
    BY <1>1, <1>2, <2>1, <2>2, TaskMoved DEF Parse
<1>3. CASE FinishRefresh(t)
  <2> DEFINE after == Returned(t, k)
  <2>1. task' = [task EXCEPT ![t] = after] /\ UNCHANGED product /\ k.phase = "committed"
    BY <1>3 DEF FinishRefresh
  <2>2. \/ after.phase = "idle"
        \/ after.phase = "returned" /\ after.page = k.page /\ after.seen = k.seen
    BY <1>1 DEF Returned, IdleTask, Task
  <2>3. k.seen \in Offers => HadItem(k.page)
    BY <2>1 DEF OfferInv, Truthful
  <2> HIDE DEF after
  <2> QED
    BY <1>1, <2>1, <2>2, <2>3, TaskMoved
<1>4. ASSUME NEW failure \in Failures, RaiseWith(t, failure) PROVE OfferInv'
  <2> DEFINE after == [k EXCEPT !.phase = "raised", !.seen = failure, !.age = 0]
  <2>1. task' = [task EXCEPT ![t] = after] /\ UNCHANGED product
    BY <1>4 DEF RaiseWith
  <2>2. after.phase = "raised"
    BY <1>1 DEF Task
  <2> HIDE DEF after
  <2> QED
    BY <1>1, <2>1, <2>2, TaskMoved
<1>5. CASE ReadOffer(t)
  <2> DEFINE good == product[k.page].status = "OK"
             after == [k EXCEPT !.phase = "writing", !.good = good]
  <2>1. task' = [task EXCEPT ![t] = after] /\ UNCHANGED product
    BY <1>5 DEF ReadOffer
  <2>2. after.phase = "writing"
    BY <1>1 DEF Task
  <2> HIDE DEF after
  <2> QED
    BY <1>1, <2>1, <2>2, TaskMoved
<1>6. CASE ErrorWriteFails(t)
  <2> DEFINE escaped == [k EXCEPT !.seen = "escaped", !.good = FALSE]
             after == Returned(t, escaped)
  <2>1. task' = [task EXCEPT ![t] = after] /\ UNCHANGED product
    BY <1>6 DEF ErrorWriteFails
  <2>2. escaped \in [phase : {k.phase}, page : {k.page}, seen : {"escaped"},
                     age : {k.age}, good : {FALSE}]
    BY <1>1 DEF Task
  <2> HIDE DEF escaped
  <2>3. \/ after.phase = "idle"
        \/ after.phase = "returned" /\ after.seen = "escaped"
    BY <2>2 DEF Returned, IdleTask
  <2> HIDE DEF after
  <2> QED
    BY <1>1, <2>1, <2>3, TaskMoved DEF Offers
<1> QED
  BY <1>2, <1>3, <1>4, <1>5, <1>6 DEF FetchFails, PersistFails, Failures

LEMMA RefreshDone ==
  ASSUME QueueInv, OfferInv, NEW t \in Threads, Refresh(t)
  PROVE  OfferInv'
  BY PersistDone, WriteErrorDone, QuietRefreshDone DEF Refresh, queueVars

LEMMA HydrateDone ==
  ASSUME QueueInv, OfferInv, NEW w \in Workers, Hydrate(w)
  PROVE  OfferInv'
<1> DEFINE k == task[w]
<1>1. w \in Threads /\ k \in Task
  BY RefreshInvParts DEF Threads, QueueInv, TasksOK
<1>2. CASE Start(w)
  <2>1. [k EXCEPT !.phase = "fetching"].phase = "fetching"
    BY <1>1 DEF Task
  <2> QED
    BY <1>1, <1>2, <2>1, TaskMoved, QueueSame DEF Start
<1>3. CASE Explain(w)
  <2>1. PICK seen : task' = [task EXCEPT ![w] = [k EXCEPT !.phase = "reporting", !.seen = seen]]
    BY <1>3 DEF Explain
  <2>2. [k EXCEPT !.phase = "reporting", !.seen = seen].phase = "reporting"
    BY <1>1 DEF Task
  <2> QED
    BY <1>1, <1>3, <2>1, <2>2, TaskMoved, QueueSame DEF Explain
<1>4. CASE MarkFails(w)
  <2>1. [k EXCEPT !.phase = "reporting", !.seen = "escaped"].phase = "reporting"
    BY <1>1 DEF Task
  <2> QED
    BY <1>1, <1>4, <2>1, TaskMoved, TasksDropped, QueueSame DEF MarkFails
<1> QED
  BY <1>1, <1>2, <1>3, <1>4, EndsDone, MarkDoneDone, RefreshDone DEF Hydrate

LEMMA UnleasedDone ==
  ASSUME QueueInv, OfferInv, NEW r \in Refreshers, Unleased(r)
  PROVE  OfferInv'
<1>1. r \in Threads
  BY DEF Threads
<1>2. ASSUME NEW p \in Pages, StartRefresh(r, p), UNCHANGED queueVars PROVE OfferInv'
  <2>1. TaskAt("fetching", p).phase = "fetching"
    BY DEF TaskAt, IdleTask
  <2> QED
    BY <1>1, <1>2, <2>1, TaskMoved, QueueSame DEF StartRefresh, queueVars
<1> QED
  BY <1>1, <1>2, RefreshDone DEF Unleased

LEMMA TickDone ==
  ASSUME QueueInv, OfferInv, Tick
  PROVE  OfferInv'
<1>1. ItemsStay
  BY DEF Tick, AgeEverything, AgedRow, ItemsStay, HadItem
<1>2. ASSUME NEW t \in Threads PROVE Truthful(t)'
  <2>1. task[t] \in Task /\ TaskOK(task[t]) /\ Truthful(t)
    BY RefreshInvParts DEF QueueInv, TasksOK, OfferInv
  <2>2. CASE task[t].phase = "parsed"
    <3>1. task'[t].phase = "parsed"
      BY <2>1, <2>2 DEF Tick, AgeEverything, AgedTask, Task
    <3> QED
      BY <3>1 DEF Truthful
  <2>3. CASE task[t].phase # "parsed"
    <3>1. task'[t] = task[t]
      BY <2>3 DEF Tick, AgeEverything, AgedTask
    <3> QED
      BY <1>1, <2>1, <3>1, TruthfulElsewhere
  <2> QED
    BY <2>2, <2>3
<1>3. NoFalseDone
  <2> SUFFICES ASSUME NEW p \in Pages PROVE queue'[p].state = queue[p].state
    BY DEF NoFalseDone
  <2> DEFINE lease == CountDown(queue[p].lease)
             wait == CountDown(queue[p].wait)
  <2>1. queue'[p] = [queue[p] EXCEPT !.lease = lease, !.wait = wait] /\ queue[p] \in QueueRow
    BY DEF Tick, QueueInv, TypeOK
  <2> HIDE DEF lease, wait
  <2> QED
    BY <2>1 DEF QueueRow
<1> QED
  BY <1>1, <1>2, <1>3, FromParts

LEMMA LoopDone ==
  ASSUME QueueInv, OfferInv, LoopStep
  PROVE  OfferInv'
<1>1. CASE RequeueSkipped \/ YieldToSearch \/ CloseBatch
  BY <1>1, QueueSame, RowsOnly DEF RequeueSkipped, YieldToSearch, CloseBatch, refreshVars
<1>2. CASE AbandonBatch \/ EndBatch
  BY <1>2, QueueSame, TasksDropped DEF AbandonBatch, EndBatch
<1> QED
  BY <1>1, <1>2, SweepDone, RequeueDone, ClaimDone, EndsDone DEF LoopStep

LEMMA NextDone == QueueInv /\ OfferInv /\ [Next]_vars => OfferInv'
<1> SUFFICES ASSUME QueueInv, OfferInv, [Next]_vars PROVE OfferInv'
  OBVIOUS
<1>1. CASE LoopStep
  BY <1>1, LoopDone
<1>2. ASSUME NEW p \in Pages,
             \/ Backfill(p) \/ Discover(p) \/ DiscoverDeloox(p)
             \/ CoverageFind(p) \/ Prioritize(p) \/ RecoverParserError(p)
      PROVE  OfferInv'
  BY <1>2, BackfillDone, DiscoverDone, CoverageFindDone, PrioritizeDone,
     RecoverParserErrorDone
<1>3. ASSUME NEW w \in Workers, Hydrate(w) PROVE OfferInv'
  BY <1>3, HydrateDone
<1>4. ASSUME NEW r \in Refreshers, Unleased(r) PROVE OfferInv'
  BY <1>4, UnleasedDone
<1>5. CASE BootFails \/ SearchStarts \/ SearchEnds \/ Restart \/ UNCHANGED vars
  BY <1>5, QueueSame, RowsOnly
  DEF BootFails, SearchStarts, SearchEnds, Restart, refreshVars, vars
<1>6. CASE Crash
  <2>1. task' = Drop(Threads)
    BY <1>6 DEF Crash, Drop
  <2> QED
    BY <1>6, <2>1, QueueSame, TasksDropped DEF Crash
<1>7. CASE RetireNavigation \/ RequeueIncomplete \/ ResumeDead
  BY <1>7, RetireDone, AfreshDone
<1> QED
  BY <1>1, <1>2, <1>3, <1>4, <1>5, <1>6, <1>7, TickDone DEF Next

LEMMA InitDone == Init => OfferInv
<1> SUFFICES ASSUME Init PROVE OfferInv
  OBVIOUS
<1>1. \A p \in Pages : queue[p].state = "ABSENT"
  BY NewRowType DEF Init, States
<1>2. \A t \in Threads : task[t].phase = "idle"
  BY DEF Init, InitRefresh, IdleTask
<1> QED
  BY <1>1, <1>2 DEF OfferInv, DoneHasOffer, Truthful

\* A page is DONE only with an item that search can show, for any number of threads
\* that refresh it at the same time: DONE is written for what refresh_url has committed
\* and nothing takes that back.  The late error of another refresh may hide it (the
\* race of ErrorNeverReplacesOffer), and navigation pages are closed without one.
THEOREM DoneMeansOffer == Spec => []DoneHasOffer
<1>1. OfferInv => DoneHasOffer
  BY DEF OfferInv
<1> QED
  BY <1>1, InitDone, NextDone, QueueInvariant, PTL DEF Spec
=============================================================================
