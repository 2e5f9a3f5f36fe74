--------------------------- MODULE HydrationQueue ---------------------------
(***************************************************************************)
(* The durable hydration queue of backend/catalog_engine.py: one row per    *)
(* (store, url) in hydration_queue, a scheduler loop that leases ready rows *)
(* to a pool of worker threads, workers that call refresh_url and report    *)
(* the outcome under their lease token, and the other writers of the same   *)
(* rows: discovery, coverage, foreground priority hints, refreshes without  *)
(* a lease, the recoveries of a start, an operator, and a restart of the    *)
(* process. Pages are those of the stores without an authorised feed.       *)
(*                                                                          *)
(* A transaction is one step.  leased_until and available_at are counted    *)
(* down instead of compared with a clock: lease = 0 is an expired or NULL   *)
(* lease, wait = 0 a row whose available_at has come.                       *)
(*                                                                          *)
(* The random lease token of a claim is represented by the worker slot that *)
(* carries the claim: a slot takes a new claim only when it is idle, so a   *)
(* live task holds the row exactly when the row still carries its slot.     *)
(***************************************************************************)
EXTENDS ProductRefresh, Sequences, FiniteSets

CONSTANTS
  NStores,    \* Len(ACTIVE_STORES)
  StoreOf,    \* the index of a page's store in ACTIVE_STORES
  StoreCap,   \* the claim's bound on PROCESSING rows per store: 2 in the code
  LeaseTime,  \* HYDRATION_LEASE_SECONDS, in ticks
  Backoff,    \* HYDRATION_BACKOFF_SECONDS, in ticks
  NonProduct, \* pages whose url _looks_product rejects
  Deloox,     \* pages of Deloox, which has writers of its own
  Navigation, \* those of them whose url _html_product_url rejects
  NoToken     \* lease_token IS NULL

ASSUME StoresAssumption ==
  /\ NStores \in Nat \ {0}
  /\ StoreOf \in [Pages -> 0 .. NStores - 1]
  /\ StoreCap \in Nat \ {0}
  /\ NonProduct \subseteq Pages /\ Deloox \subseteq Pages /\ Navigation \subseteq Deloox
  /\ IsFiniteSet(Pages)

ASSUME LeaseAssumption ==
  /\ LeaseTime \in Nat \ {0}
  /\ Backoff \in Seq(Nat) /\ Len(Backoff) > 0
  /\ NoToken \notin Workers

VARIABLES
  queue,     \* hydration_queue
  cursor,    \* hydration_scheduler.last_store_index
  loop,      \* where catalog_hydration_loop is
  searching  \* _foreground_search_running()

queueVars == <<queue, cursor, loop, searching>>
vars == <<storeUrl, product, lastError, task, queue, cursor, loop, searching>>

States == {"ABSENT", "PENDING", "PROCESSING", "DONE", "ERROR", "DEAD"}
\* Attempts are counted up to Len(Backoff): beyond it neither the delay nor the
\* claim order changes.
QueueRow == [state    : States,
             attempts : 0 .. Len(Backoff),
             wait     : Nat,
             lease    : 0 .. LeaseTime,
             token    : Workers \cup {NoToken},
             priority : {0, 50, 100}]
NewRow(state) == [state |-> state, attempts |-> 0, wait |-> 0, lease |-> 0,
                  token |-> NoToken, priority |-> 100]

\* "down": no process; "boot": the queue is backfilled; "dead": the loop thread
\* ended with an exception; the rest are the stages of one iteration.
LoopStates == {"down", "boot", "dead", "idle", "requeued", "claiming",
               "releasing", "running"}

TypeOK ==
  /\ TypeOKRefresh
  /\ queue \in [Pages -> QueueRow]
  /\ cursor \in 0 .. NStores - 1
  /\ loop \in LoopStates
  /\ searching \in BOOLEAN

\* A fresh catalogue, or urls stored by a version without a queue.
Init ==
  /\ InitRefresh
  /\ queue = [p \in Pages |-> NewRow("ABSENT")]
  /\ cursor = 0
  /\ loop = "boot"
  /\ searching = FALSE

-----------------------------------------------------------------------------
(***************************************************************************)
(* Helpers.                                                                 *)
(***************************************************************************)
Active(p) == storeUrl[p] = "active"
\* Mutation of Lower: the first operand is not capped.
LowerUncapped(a, b) == a
Lower(a, b) == IF a < b THEN a ELSE b
Leased(row) == row.state = "PROCESSING" /\ row.lease > 0
InFlight(s) == {p \in Pages : StoreOf[p] = s /\ queue[p].state = "PROCESSING"}
Live == {w \in Workers : task[w].phase # "idle"}
HeldTasks == {w \in Workers : task[w].phase = "held"}
Drop(ws) == [t \in Threads |-> IF t \in ws THEN IdleTask ELSE task[t]]
ProcessUp == loop # "down"

\* leased_until and lease_token become NULL.
Closed(row, state, wait) ==
  [row EXCEPT !.state = state, !.wait = wait, !.lease = 0, !.token = NoToken]
Pending(row) == Closed(row, "PENDING", 0)

\* Mutation of Recovered: the comparison with leased_until is turned around.
RecoveredLive ==
  [p \in Pages |-> IF Leased(queue[p]) THEN Pending(queue[p]) ELSE queue[p]]

\* The sweep that opens a batch and every claim: a PROCESSING row without a live
\* lease goes back to PENDING.
Recovered ==
  [p \in Pages |-> IF queue[p].state = "PROCESSING" /\ ~Leased(queue[p])
                   THEN Pending(queue[p]) ELSE queue[p]]

\* _hydration_store_order: round robin, starting after the last served store.
Turn(p) == (StoreOf[p] + NStores - cursor - 1) % NStores

\* Mutation of Owns: the statement forgets AND lease_token=?.
OwnsAnyToken(w) == queue[task[w].page].state = "PROCESSING"

\* The row a live task still owns: WHERE lease_token=? AND state='PROCESSING'.
Owns(w) ==
  LET row == queue[task[w].page] IN row.token = w /\ row.state = "PROCESSING"

\* A guarded UPDATE: it changes the row only while the task owns it.
SetOwned(w, row) ==
  queue' = IF Owns(w) THEN [queue EXCEPT ![task[w].page] = row] ELSE queue

-----------------------------------------------------------------------------
(***************************************************************************)
(* The scheduler loop.                                                      *)
(***************************************************************************)
\* _ensure_hydration_queue, one batch of one page: a url that is no product
\* loses its row and is retired; a missing row is inserted.
Backfill(p) ==
  /\ loop = "boot"
  /\ Active(p)
  /\ IF p \in NonProduct
     THEN /\ queue' = [queue EXCEPT ![p] = NewRow("ABSENT")]
          /\ storeUrl' = [storeUrl EXCEPT ![p] = "retired"]
     ELSE /\ queue[p].state = "ABSENT"
          /\ queue' = [queue EXCEPT ![p] =
               NewRow(IF product[p].status = "OK" THEN "DONE" ELSE "PENDING")]
          /\ UNCHANGED storeUrl
  /\ UNCHANGED <<product, lastError, task, cursor, loop, searching>>

\* The scan is over or out of budget; recover_stale_tasks follows.
FinishBoot ==
  /\ loop = "boot"
  /\ loop' = "idle"
  /\ queue' = Recovered
  /\ UNCHANGED <<refreshVars, cursor, searching>>

\* An SQLite error before the loop's try block ends the thread, and
\* _start_catalog_hydration never starts another one.
BootFails ==
  /\ loop = "boot"
  /\ loop' = "dead"
  /\ UNCHANGED <<refreshVars, queue, cursor, searching>>

\* requeue_stale_done_hydration_tasks: the oldest stale DONE page of every store.
StaleDone(s) ==
  {p \in Pages : StoreOf[p] = s /\ queue[p].state = "DONE" /\ Active(p)
                 /\ Stale(product[p])}
Requeueable(picked) ==
  /\ \A p \in picked : p \in StaleDone(StoreOf[p])
  /\ \A s \in 0 .. NStores - 1 : StaleDone(s) # {} =>
       \E p \in picked : StaleDone(s) \cap picked = {p}
  /\ \A p \in picked : \A q \in StaleDone(StoreOf[p]) : product[q].age <= product[p].age

Requeue ==
  /\ loop = "idle" /\ ~searching
  /\ loop' = "requeued"
  /\ \E picked \in SUBSET Pages :
       /\ Requeueable(picked)
       /\ queue' = [p \in Pages |-> IF p \in picked
            THEN [queue[p] EXCEPT !.state = "PENDING", !.wait = 0,
                                  !.priority = Lower(@, 50)]
            ELSE queue[p]]
       /\ \/ picked = {} /\ UNCHANGED cursor
          \/ \E last \in picked : /\ \A p \in picked : Turn(p) <= Turn(last)
                                  /\ cursor' = StoreOf[last]
  /\ UNCHANGED <<refreshVars, searching>>

\* SQLite contention: the requeue is skipped for this iteration.
RequeueSkipped ==
  /\ loop = "idle" /\ ~searching
  /\ loop' = "requeued"
  /\ UNCHANGED <<refreshVars, queue, cursor, searching>>

\* A search that started during the requeue or the coverage batch comes first.
YieldToSearch ==
  /\ loop = "requeued" /\ searching
  /\ loop' = "idle"
  /\ UNCHANGED <<refreshVars, queue, cursor, searching>>

\* hydrate_catalog_batch begins with recover_stale_tasks.
StartBatch ==
  /\ loop = "requeued" /\ ~searching
  /\ loop' = "claiming"
  /\ queue' = Recovered
  /\ UNCHANGED <<refreshVars, cursor, searching>>

\* Mutation of Claimable: <= in the place of <.
ClaimableOverCap(rows, p) ==
  /\ Active(p)
  /\ rows[p].state \in {"PENDING", "ERROR"}
  /\ rows[p].wait = 0
  /\ Cardinality({q \in Pages : StoreOf[q] = StoreOf[p]
                                /\ rows[q].state = "PROCESSING"}) <= StoreCap

\* Candidates of the claim, after its sweep: an active page that is due, in a
\* store with fewer than StoreCap rows in flight.
Claimable(rows, p) ==
  /\ Active(p)
  /\ rows[p].state \in {"PENDING", "ERROR"}
  /\ rows[p].wait = 0
  /\ Cardinality({q \in Pages : StoreOf[q] = StoreOf[p]
                                /\ rows[q].state = "PROCESSING"}) < StoreCap

\* Inside a store: lowest priority number first, then untried pages; the order
\* among equals (available_at, first_seen_at) is left open.
Rank(row) == 2 * row.priority + (IF row.attempts = 0 THEN 0 ELSE 1)

NextInTurn(rows, p) ==
  /\ Claimable(rows, p)
  /\ \A q \in Pages : Claimable(rows, q) =>
       /\ Turn(p) <= Turn(q)
       /\ StoreOf[q] = StoreOf[p] => Rank(rows[p]) <= Rank(rows[q])

\* The lease of a claim: a fresh token, one attempt more.
ClaimedBy(w, row) ==
  [row EXCEPT !.state = "PROCESSING", !.lease = LeaseTime, !.token = w,
              !.attempts = Lower(@ + 1, Len(Backoff))]

\* _claim_one_hydration_task: sweep, choose, lease and advance the rotation in
\* one BEGIN IMMEDIATE transaction.
Claim(w) ==
  /\ loop = "claiming" /\ ~searching
  /\ task[w].phase = "idle"
  /\ \E p \in Pages :
       /\ NextInTurn(Recovered, p)
       /\ queue' = [Recovered EXCEPT ![p] = ClaimedBy(w, @)]
       /\ cursor' = StoreOf[p]
       /\ task' = [task EXCEPT ![w] = TaskAt("held", p)]
  /\ UNCHANGED <<storeUrl, product, lastError, loop, searching>>

\* A claim that finds no candidate still commits its sweep.
ClaimNothing ==
  /\ loop = "claiming" /\ ~searching
  /\ \A p \in Pages : ~Claimable(Recovered, p)
  /\ queue' = Recovered
  /\ UNCHANGED <<refreshVars, cursor, loop, searching>>

\* No more claims: nothing is ready, the batch is full, its deadline passed or a
\* search began.  Claims taken before a search are given back, the others go to
\* a thread pool.
CloseBatch ==
  /\ loop = "claiming"
  /\ loop' = IF HeldTasks = {} THEN "idle"
             ELSE IF searching THEN "releasing" ELSE "running"
  /\ UNCHANGED <<refreshVars, queue, cursor, searching>>

\* _queue_release_claim for each task of the batch.
Release(w) ==
  /\ loop = "releasing"
  /\ task[w].phase = "held"
  /\ SetOwned(w, Pending(queue[task[w].page]))
  /\ task' = Drop({w})
  /\ loop' = IF HeldTasks = {w} THEN "idle" ELSE loop
  /\ UNCHANGED <<storeUrl, product, lastError, cursor, searching>>

\* A claim or a release raises: the loop forgets the batch, whose rows stay
\* PROCESSING until their leases run out.
AbandonBatch ==
  /\ loop \in {"claiming", "releasing"}
  /\ loop' = "idle"
  /\ task' = Drop(HeldTasks)
  /\ UNCHANGED <<storeUrl, product, lastError, queue, cursor, searching>>

\* Every task is done, the deadline passed or a search began: tasks no thread
\* has started are cancelled, their rows keep the lease; running ones go on.
EndBatch ==
  /\ loop = "running"
  /\ loop' = "idle"
  /\ task' = Drop(HeldTasks)
  /\ UNCHANGED <<storeUrl, product, lastError, queue, cursor, searching>>

-----------------------------------------------------------------------------
(***************************************************************************)
(* _hydrate_one_task, on a pool thread.                                     *)
(***************************************************************************)
Start(w) ==
  /\ loop = "running" /\ ~searching
  /\ task[w].phase = "held"
  /\ task' = [task EXCEPT ![w].phase = "fetching"]
  /\ UNCHANGED <<storeUrl, product, lastError, queue, cursor, loop, searching>>

\* During a search the task gives its claim back instead of fetching, or fails
\* to and leaves the lease.
StartReleases(w) ==
  /\ loop = "running" /\ searching
  /\ task[w].phase = "held"
  /\ SetOwned(w, Pending(queue[task[w].page])) \/ UNCHANGED queue
  /\ task' = Drop({w})
  /\ UNCHANGED <<storeUrl, product, lastError, cursor, loop, searching>>

\* refresh_url's success transaction also inserts a missing queue row; the
\* state of an existing one stays.
PersistQueued(t) ==
  /\ Persist(t)
  /\ LET p == task[t].page IN
     queue' = IF queue[p].state = "ABSENT"
              THEN [queue EXCEPT ![p] = NewRow("PENDING")] ELSE queue
  /\ UNCHANGED <<cursor, loop, searching>>

Refresh(t) ==
  \/ PersistQueued(t)
  \/ /\ \/ Parse(t) \/ FinishRefresh(t) \/ FetchFails(t) \/ PersistFails(t)
        \/ ReadOffer(t) \/ WriteError(t) \/ ErrorWriteFails(t)
     /\ UNCHANGED queueVars

\* A positive price or a verified out-of-stock page closes the lease.
MarkDone(w) ==
  /\ task[w].phase = "returned" /\ task[w].seen \in Offers
  /\ LET row == queue[task[w].page] IN SetOwned(w, Closed(row, "DONE", row.wait))
  /\ task' = Drop({w})
  /\ UNCHANGED <<storeUrl, product, lastError, cursor, loop, searching>>

Delay(row) == Backoff[IF row.attempts = 0 THEN 1 ELSE row.attempts]
Failed(row, detail) ==
  Closed(row, IF detail \in {"gone", "placeholder"} THEN "DEAD" ELSE "ERROR", Delay(row))

\* The reason of a failure is read from the shared note of the page, or from
\* fetch_status when another thread's success has dropped the note; a name without
\* a usable price is noted as refresh_missing_explicit_price.
Recorded(p) ==
  IF lastError[p] # "none" THEN lastError[p]
  ELSE IF product[p].status \in Failures THEN product[p].status ELSE "transient"

Explain(w) ==
  LET k == task[w] IN
  /\ k.phase = "returned" /\ k.seen \notin Offers \cup {"escaped"}
  /\ IF k.seen \in Failures
     THEN /\ task' = [task EXCEPT ![w].phase = "reporting", ![w].seen = Recorded(k.page)]
          /\ UNCHANGED lastError
     ELSE /\ task' = [task EXCEPT ![w].phase = "reporting", ![w].seen = "transient"]
          /\ lastError' = [lastError EXCEPT ![k.page] = "transient"]
  /\ UNCHANGED <<storeUrl, product, queue, cursor, loop, searching>>

\* _queue_mark_error: 404/410 and placeholder prices are dead-lettered, the rest
\* is retried after a delay.
MarkError(w) ==
  /\ \/ task[w].phase = "reporting"
     \/ task[w].phase = "returned" /\ task[w].seen = "escaped"
  /\ SetOwned(w, Failed(queue[task[w].page], task[w].seen))
  /\ task' = Drop({w})
  /\ UNCHANGED <<storeUrl, product, lastError, cursor, loop, searching>>

\* SQLite refuses the transition: it is retried once as an error, then the lease
\* is left to run out.
MarkFails(w) ==
  /\ task[w].phase \in {"returned", "reporting"}
  /\ task' = IF task[w].seen = "escaped" THEN Drop({w})
             ELSE [task EXCEPT ![w].phase = "reporting", ![w].seen = "escaped"]
  /\ UNCHANGED <<storeUrl, product, lastError, queue, cursor, loop, searching>>

Hydrate(w) ==
  \/ Start(w) \/ StartReleases(w) \/ Refresh(w)
  \/ MarkDone(w) \/ Explain(w) \/ MarkError(w) \/ MarkFails(w)

-----------------------------------------------------------------------------
(***************************************************************************)
(* The other writers, and the environment.                                  *)
(***************************************************************************)
\* Mutation of Discovered: a live lease is not recognised.
DiscoveredBreaksLease(p) ==
  LET row == queue[p] IN
  IF row.state = "ABSENT" THEN NewRow("PENDING")
  ELSE [row EXCEPT !.state = CASE row.state = "DEAD" -> "DEAD"
                               [] row.state # "DEAD" /\ Fresh(product[p]) -> "DONE"
                               [] OTHER -> "PENDING",
                   !.wait = IF Fresh(product[p]) THEN @ ELSE 0]

\* Mutation of Discovered: DEAD is treated like any other state.
DiscoveredRevivesDead(p) ==
  LET row == queue[p] IN
  IF row.state = "ABSENT" THEN NewRow("PENDING")
  ELSE [row EXCEPT !.state = CASE Leased(row) -> "PROCESSING"
                               [] ~Leased(row) /\ Fresh(product[p]) -> "DONE"
                               [] OTHER -> "PENDING",
                   !.wait = IF Leased(row) \/ Fresh(product[p]) THEN @ ELSE 0]

\* The upsert of a discovered url: a live lease and a DEAD row are kept, the row of
\* a page that is settled is DONE, any other is made ready at once.
Upserted(row, settled) ==
  IF row.state = "ABSENT" THEN NewRow("PENDING")
  ELSE [row EXCEPT
          !.state = CASE Leased(row) -> "PROCESSING"
                      [] row.state = "DEAD" -> "DEAD"
                      [] settled /\ ~Leased(row) /\ row.state # "DEAD" -> "DONE"
                      [] OTHER -> "PENDING",
          !.wait = IF Leased(row) \/ settled THEN @ ELSE 0]

\* _save_discovery, one url of a batch: the page becomes active, and is settled by a
\* fresh product.
Discovered(p) == Upserted(queue[p], Fresh(product[p]))

Discover(p) ==
  /\ ProcessUp
  /\ p \notin NonProduct
  /\ storeUrl' = [storeUrl EXCEPT ![p] = "active"]
  /\ queue' = [queue EXCEPT ![p] = Discovered(p)]
  /\ UNCHANGED <<product, lastError, task, cursor, loop, searching>>

\* _deloox_persist_products, from a run of the frontier or from the family process:
\* a product without a price settles its page only with a brand and a size.
DiscoverDeloox(p) ==
  /\ p \in Deloox \ Navigation
  /\ storeUrl' = [storeUrl EXCEPT ![p] = "active"]
  /\ \E identified \in BOOLEAN :
       LET settled == Fresh(product[p]) /\ (product[p].price # NoPrice \/ identified) IN
       queue' = [queue EXCEPT ![p] = Upserted(queue[p], settled)]
  /\ UNCHANGED <<product, lastError, task, cursor, loop, searching>>

\* _deloox_retire_invalid_active_urls, at the start of a Deloox run: navigation
\* pages (after the first pass those that its patterns find) are retired, and their
\* rows closed unless a lease on them is live.
RetireNavigation ==
  /\ ProcessUp
  /\ \E gone \in SUBSET {p \in Navigation : Active(p)} :
       /\ gone # {}
       /\ storeUrl' = [p \in Pages |-> IF p \in gone THEN "retired" ELSE storeUrl[p]]
       /\ queue' = [p \in Pages |->
            IF p \in gone /\ queue[p].state # "ABSENT" /\ ~Leased(queue[p])
            THEN Closed(queue[p], "DONE", queue[p].wait) ELSE queue[p]]
  /\ UNCHANGED <<product, lastError, task, cursor, loop, searching>>

\* All attempts anew, at once.
Afresh(row) == [Pending(row) EXCEPT !.attempts = 0]

\* _ensure_schema, once in every process: DONE pages of Deloox that have neither a
\* price nor a whole identity are hydrated again.
RequeueIncomplete ==
  /\ \E picked \in SUBSET {p \in Deloox : queue[p].state = "DONE"
                                         /\ product[p].status # "NONE"
                                         /\ product[p].price = NoPrice} :
       /\ picked # {}
       /\ queue' = [p \in Pages |-> IF p \in picked
                      THEN [Afresh(queue[p]) EXCEPT !.priority = 0] ELSE queue[p]]
  /\ UNCHANGED <<refreshVars, cursor, loop, searching>>

\* phase0_admin_resume_deloox_queue: the oldest dead pages of Deloox (at most 25).
ResumeDead ==
  /\ ProcessUp
  /\ \E picked \in SUBSET {p \in Deloox : queue[p].state = "DEAD"} :
       /\ picked # {}
       /\ queue' = [p \in Pages |-> IF p \in picked THEN Afresh(queue[p]) ELSE queue[p]]
  /\ UNCHANGED <<refreshVars, cursor, loop, searching>>

\* The operator's scripts for parser errors (deloox_recovery, recover_stale_parser_
\* errors): active pages in ERROR, or dead ones of Deloox whose product row
\* has the error of a parser.
RecoverParserError(p) ==
  /\ Active(p)
  /\ \/ queue[p].state = "ERROR"
     \/ p \in Deloox /\ queue[p].state = "DEAD" /\ product[p].status = "transient"
  /\ queue' = [queue EXCEPT ![p] = Afresh(@)]
  /\ UNCHANGED <<refreshVars, cursor, loop, searching>>

\* _coverage_persist_urls, from the loop or from the family-coverage process: it
\* does not filter with _looks_product and keeps the state of an existing row.
CoverageFind(p) ==
  /\ storeUrl' = [storeUrl EXCEPT ![p] = "active"]
  /\ queue' = IF queue[p].state = "ABSENT"
              THEN [queue EXCEPT ![p] = NewRow("PENDING")] ELSE queue
  /\ UNCHANGED <<product, lastError, task, cursor, loop, searching>>

\* prioritize_hydration_candidates: a search result that needs a refresh.
Prioritize(p) ==
  /\ ProcessUp
  /\ Active(p)
  /\ \/ queue[p].state = "DONE" /\ Stale(product[p])
     \/ queue[p].state \in {"PENDING", "ERROR"}
  /\ queue' = [queue EXCEPT
       ![p].state = IF @ = "DONE" THEN "PENDING" ELSE @,
       ![p].wait = IF queue[p].state = "DONE" THEN 0 ELSE @,
       ![p].priority = 0]
  /\ UNCHANGED <<refreshVars, cursor, loop, searching>>

SearchStarts ==
  /\ ProcessUp /\ ~searching /\ searching' = TRUE
  /\ UNCHANGED <<refreshVars, queue, cursor, loop>>
SearchEnds ==
  /\ searching /\ searching' = FALSE
  /\ UNCHANGED <<refreshVars, queue, cursor, loop>>

\* Threads that call refresh_url without a lease.
Unleased(r) ==
  \/ \E p \in Pages : ProcessUp /\ StartRefresh(r, p) /\ UNCHANGED queueVars
  \/ Refresh(r)

CountDown(n) == IF n = 0 THEN 0 ELSE n - 1
Tick ==
  /\ AgeEverything
  /\ queue' = [p \in Pages |-> [queue[p] EXCEPT !.lease = CountDown(@),
                                               !.wait = CountDown(@)]]
  /\ UNCHANGED <<cursor, loop, searching>>

\* The process is killed: threads and memory are gone, the database stays.
Crash ==
  /\ ProcessUp
  /\ loop' = "down"
  /\ searching' = FALSE
  /\ task' = [t \in Threads |-> IdleTask]
  /\ lastError' = [p \in Pages |-> "none"]
  /\ UNCHANGED <<storeUrl, product, queue, cursor>>

Restart ==
  /\ loop = "down"
  /\ loop' = "boot"
  /\ UNCHANGED <<refreshVars, queue, cursor, searching>>

-----------------------------------------------------------------------------
LoopStep ==
  \/ FinishBoot \/ Requeue \/ RequeueSkipped \/ YieldToSearch \/ StartBatch
  \/ ClaimNothing \/ CloseBatch \/ AbandonBatch \/ EndBatch
  \/ \E w \in Workers : Claim(w) \/ Release(w)

Next ==
  \/ LoopStep \/ BootFails
  \/ \E p \in Pages : \/ Backfill(p) \/ Discover(p) \/ DiscoverDeloox(p)
                       \/ CoverageFind(p) \/ Prioritize(p) \/ RecoverParserError(p)
  \/ RetireNavigation \/ RequeueIncomplete \/ ResumeDead
  \/ \E w \in Workers : Hydrate(w)
  \/ \E r \in Refreshers : Unleased(r)
  \/ SearchStarts \/ SearchEnds \/ Tick \/ Crash \/ Restart

Spec == Init /\ [][Next]_vars

\* The loop thread is scheduled, a search ends, a killed process is restarted and
\* time passes.  Nothing is assumed of fetches, workers or claims: a page may hang
\* for ever.
QueueFairness ==
  /\ WF_vars(FinishBoot) /\ WF_vars(Requeue \/ RequeueSkipped) /\ WF_vars(StartBatch)
  /\ WF_vars(YieldToSearch) /\ WF_vars(CloseBatch) /\ WF_vars(EndBatch)
  /\ WF_vars(\E w \in Workers : Release(w))
  /\ WF_vars(SearchEnds) /\ WF_vars(Restart) /\ WF_vars(Tick)

FairSpec == Spec /\ QueueFairness

-----------------------------------------------------------------------------
(***************************************************************************)
(* What the queue promises.                                                 *)
(***************************************************************************)
\* "at most two active tasks per store" (_claim_one_hydration_task): whatever
\* rows the sweeps, the discovery, a crash and late workers leave behind, never
\* more than StoreCap rows of one store are PROCESSING.
StoreCapInv == \A s \in 0 .. NStores - 1 : Cardinality(InFlight(s)) <= StoreCap

\* The inductive invariant behind the two promises above and below: types, what
\* RefreshInv says of threads, and that a row in flight was due when it was claimed.
QueueInv ==
  /\ RefreshInv
  /\ TypeOK
  /\ StoreCapInv
  /\ \A p \in Pages : queue[p].state = "PROCESSING" => queue[p].wait = 0

\* A live lease is not taken away: until it runs out, a PROCESSING row of a
\* product page changes only by the task that holds its token ending - not by
\* discovery, coverage, a priority hint, a sweep, an unleased refresh, a restart's
\* backfill or another worker that comes late.
LeaseStep ==
  \A p \in Pages \ NonProduct :
    Leased(queue[p]) /\ queue'[p] # queue[p] =>
      \/ queue'[p] = [queue[p] EXCEPT !.lease = @ - 1]
      \/ /\ queue[p].token \in Workers
         /\ task[queue[p].token].page = p
         /\ task'[queue[p].token] = IdleTask
LiveLeaseIsKept == [][LeaseStep]_vars

\* "a late worker cannot mark a reclaimed task DONE because its token no longer
\* matches" (hydrate_catalog_batch): a worker that ends changes no row but the one
\* it holds, and one that lost its lease changes nothing.
LateWorkerStep ==
  \A w \in Workers :
    task[w].phase \in {"returned", "reporting"} /\ task'[w] = IdleTask =>
      \A p \in Pages : queue'[p] # queue[p] =>
        p = task[w].page /\ queue[p].token = w /\ queue[p].state = "PROCESSING"
LateWorkerChangesNothing == [][LateWorkerStep]_vars

\* "terminal DEAD rows are not revived" (requeue_stale_done_hydration_tasks): a
\* dead-lettered product page stays dead whatever finds it again. Only an operator
\* revives it, with all its attempts anew, and only a retirement closes it.
DeadStep ==
  \A p \in Pages \ NonProduct : queue[p].state = "DEAD" =>
    \/ queue'[p].state = "DEAD"
    \/ queue'[p].state = "PENDING" /\ queue'[p].attempts = 0
    \/ p \in Navigation /\ queue'[p].state = "DONE" /\ storeUrl'[p] = "retired"
DeadIsRevivedByHand == [][DeadStep]_vars

\* "A fresh explicit positive price ... must be persisted before the queue can
\* transition to DONE" (_hydrate_one_task): a page is only DONE with an item that
\* search can show, however its refreshes overlap. One thing can hide the item of a
\* DONE page: the late error of another refresh, the race that the run error_race
\* shows. Navigation pages are closed without an item.
DoneHasOffer ==
  \A p \in Pages \ Navigation :
    queue[p].state = "DONE" => product[p].status = "OK" \/ product[p].hidden

\* "A worker crash/restart must never strand a URL forever": a row whose lease has
\* run out is swept or leased again, if the loop survives its boot and crashes and
\* searches do not go on for ever.
Abandoned(p) == queue[p].state = "PROCESSING" /\ queue[p].lease = 0
NeverStranded ==
  (/\ <>[](loop # "down") /\ <>[](~searching) /\ []<>(loop # "dead"))
    => \A p \in Pages : Abandoned(p) ~> ~Abandoned(p)

\* The same comment without the proviso that the loop survives its boot: an SQLite
\* error in _ensure_hydration_queue or in the first recover_stale_tasks ends the
\* only thread that sweeps, and its started flag keeps it from being replaced.
NeverStrandedAfterRestart ==
  (/\ <>[](loop # "down") /\ <>[](~searching))
    => \A p \in Pages : Abandoned(p) ~> ~Abandoned(p)
=============================================================================
