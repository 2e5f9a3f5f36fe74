---------------------------- MODULE CoverageQueue ----------------------------
(* catalog_coverage and coverage_batch of backend/catalog_engine.py: one task  *)
(* for every store and canonical product. The hydration loop claims a batch,   *)
(* a small pool runs one killable scraper process per task, and the loop's     *)
(* thread writes each result. A user's search ends what is running. Tasks are  *)
(* not leased.                                                                 *)
EXTENDS Naturals, FiniteSets

CONSTANTS
  Tasks,        \* store x canonical product
  Preferred,    \* tasks of Deloox, claimed before the others
  NoScraper,    \* tasks of a store without an entry in _COVERAGE_STORE_MODULES
  Orphans,      \* tasks whose product has left product_catalog.json
  BatchLimit,   \* _COVERAGE_BATCH_SIZE
  PoolSize,     \* _COVERAGE_WORKERS
  Wait          \* ticks until a finished task may run again

ASSUME CoverageAssumption ==
  /\ Preferred \cup NoScraper \cup Orphans \subseteq Tasks /\ IsFiniteSet(Tasks)
  /\ BatchLimit \in Nat \ {0} /\ PoolSize \in Nat \ {0} /\ Wait \in Nat

VARIABLES
  coverage,   \* catalog_coverage: state, next_run_at, and history
  batch,      \* the batch of the loop's thread, and what its pool is doing
  cancel,     \* _COVERAGE_CANCEL_EVENT
  searching   \* _foreground_search_running()

coverageVars == <<coverage, batch, cancel, searching>>

(* saved: urls found for the product as it is now are in store_urls; lost: the    *)
(* process died, or a result could not be written, while its batch was running.   *)
CoverageStates == {"ABSENT", "PENDING", "PROCESSING", "FOUND", "NOT_FOUND", "RETRY", "ERROR"}
Results == {"FOUND", "NOT_FOUND", "RETRY", "ERROR", "CANCELLED"}

(* at: idle, cleared (the event was reset, the search looked at next), running, or *)
(* failed: a result could not be written and the pool is being shut down.         *)
(* job[t]: "-" not in the batch, queued in the pool, its process running, its      *)
(* output read, or its result.                                                     *)
JobPhases == {"-", "queued", "child", "output"} \cup Results

CoverageType ==
  /\ coverage \in [Tasks -> [state : CoverageStates, wait : 0 .. Wait,
                             saved : BOOLEAN, lost : BOOLEAN]]
  /\ batch.at \in {"idle", "cleared", "running", "failed"}
  /\ batch.job \in [Tasks -> JobPhases]
  /\ cancel \in BOOLEAN /\ searching \in BOOLEAN

NoJobs == [t \in Tasks |-> "-"]
NewTask == [state |-> "ABSENT", wait |-> 0, saved |-> FALSE, lost |-> FALSE]

(* The rows of orphans are from an earlier start. *)
CoverageInit ==
  /\ coverage = [t \in Tasks |-> IF t \in Orphans
                                THEN [NewTask EXCEPT !.state = "PENDING"] ELSE NewTask]
  /\ batch = [at |-> "idle", job |-> NoJobs]
  /\ cancel = FALSE /\ searching = FALSE

--------------------------------------------------------------------------------
SearchToggles ==
  searching' = ~searching /\ UNCHANGED <<coverage, batch, cancel>>

StartBatch ==
  /\ batch.at = "idle" /\ ~searching
  /\ cancel' = FALSE
  /\ batch' = [batch EXCEPT !.at = "cleared"]
  /\ UNCHANGED <<coverage, searching>>

ForegroundFirst ==
  /\ batch.at = "cleared" /\ searching
  /\ batch' = [batch EXCEPT !.at = "idle"]
  /\ UNCHANGED <<coverage, cancel, searching>>

(* _coverage_seed_tasks: a missing task is inserted; one whose canonical name or   *)
(* query has changed is opened again, whatever its state.                          *)
Seeded(changed) ==
  [t \in Tasks |->
     IF t \in Orphans THEN coverage[t]
     ELSE IF coverage[t].state = "ABSENT" \/ t \in changed
     THEN [NewTask EXCEPT !.state = "PENDING"] ELSE coverage[t]]

Claimable(row) == row.state \in {"PENDING", "NOT_FOUND", "RETRY"} /\ row.wait = 0

(* ORDER BY: pending first, then Deloox. *)
ClaimRank(t, row) ==
  (IF row.state = "PENDING" THEN 0 ELSE 2) + (IF t \in Preferred THEN 0 ELSE 1)

ClaimTasks ==
  /\ batch.at = "cleared"
  /\ \E changed \in SUBSET (Tasks \ Orphans), picked \in SUBSET Tasks :
       LET rows == Seeded(changed)
           ready == {t \in Tasks : Claimable(rows[t])} IN
       /\ Cardinality(changed) <= 1
       /\ picked \subseteq ready
       /\ \/ picked = ready /\ Cardinality(ready) <= BatchLimit
          \/ Cardinality(picked) = BatchLimit
       /\ \A t \in picked, u \in ready \ picked :
            ClaimRank(t, rows[t]) <= ClaimRank(u, rows[u])
       /\ LET taken == picked \ Orphans IN
          /\ coverage' = [t \in Tasks |-> IF t \in taken
                            THEN [rows[t] EXCEPT !.state = "PROCESSING"] ELSE rows[t]]
          /\ batch' = IF taken = {} THEN [batch EXCEPT !.at = "idle"]
                      ELSE [at |-> "running",
                            job |-> [t \in Tasks |-> IF t \in taken THEN "queued" ELSE "-"]]
  /\ UNCHANGED <<cancel, searching>>

SetJob(t, j) == batch' = [batch EXCEPT !.job[t] = j]
InPool == {t \in Tasks : batch.job[t] \in {"child", "output"}}

(* _coverage_run_task: it looks at the event and at the search, then starts the    *)
(* process; the search that is found sets the event for all.                       *)
RunTask(t) ==
  /\ batch.job[t] = "queued" /\ Cardinality(InPool) < PoolSize
  /\ IF cancel \/ searching
     THEN SetJob(t, "CANCELLED") /\ cancel' = TRUE
     ELSE SetJob(t, IF t \in NoScraper THEN "ERROR" ELSE "child") /\ UNCHANGED cancel
  /\ UNCHANGED <<coverage, searching>>

\* Mutation of CancelChild: the poll looks at the event, not at the search.
CancelByEvent(t) ==
  /\ batch.job[t] = "child" /\ cancel
  /\ SetJob(t, "CANCELLED")
  /\ UNCHANGED <<coverage, cancel, searching>>

(* The poll of a running process. *)
CancelChild(t) ==
  /\ batch.job[t] = "child" /\ (cancel \/ searching)
  /\ SetJob(t, "CANCELLED") /\ cancel' = TRUE
  /\ UNCHANGED <<coverage, searching>>

(* It ends, times out or cannot be started. The event is looked at once more. *)
ChildEnds(t) ==
  /\ batch.job[t] = "child"
  /\ \/ cancel /\ SetJob(t, "CANCELLED")
     \/ ~cancel /\ \E j \in {"output", "RETRY"} : SetJob(t, j)
  /\ UNCHANGED <<coverage, cancel, searching>>

(* Rows that match the product are persisted before the result is returned; an     *)
(* error of that transaction is the task's error.                                  *)
PersistUrls(t) ==
  /\ batch.job[t] = "output"
  /\ SetJob(t, "FOUND")
  /\ coverage' = [coverage EXCEPT ![t].saved = TRUE]
  /\ UNCHANGED <<cancel, searching>>

NothingToPersist(t) ==
  /\ batch.job[t] = "output"
  /\ \E j \in {"NOT_FOUND", "RETRY", "ERROR"} : SetJob(t, j)
  /\ UNCHANGED <<coverage, cancel, searching>>

Judged(t) == batch.job[t] \in Results

\* Mutation of FinishTask: a cancelled task is not written back.
FinishUncancelled(t) ==
  /\ batch.at = "running" /\ Judged(t)
  /\ coverage' = IF batch.job[t] = "CANCELLED" THEN coverage
                 ELSE [coverage EXCEPT ![t].wait = Wait, ![t].state = batch.job[t]]
  /\ SetJob(t, "-")
  /\ UNCHANGED <<cancel, searching>>

(* _coverage_finish_task: by key, whatever the row says now. *)
FinishTask(t) ==
  /\ batch.at = "running" /\ Judged(t)
  /\ coverage' = [coverage EXCEPT ![t].wait = Wait,
       ![t].state = IF batch.job[t] = "CANCELLED" THEN "PENDING" ELSE batch.job[t]]
  /\ SetJob(t, "-")
  /\ UNCHANGED <<cancel, searching>>

(* The update raises: the exception waits for the pool and leaves the batch; none  *)
(* of its other results is written.                                                *)
FinishTaskRaises(t) ==
  /\ batch.at = "running" /\ Judged(t)
  /\ batch' = [batch EXCEPT !.at = "failed"]
  /\ coverage' = [u \in Tasks |-> IF batch.job[u] # "-"
                    THEN [coverage[u] EXCEPT !.lost = TRUE] ELSE coverage[u]]
  /\ UNCHANGED <<cancel, searching>>

EndBatch ==
  /\ \/ batch.at = "running" /\ batch.job = NoJobs
     \/ batch.at = "failed" /\ \A t \in Tasks : batch.job[t] = "-" \/ Judged(t)
  /\ batch' = [at |-> "idle", job |-> NoJobs]
  /\ UNCHANGED <<coverage, cancel, searching>>

CoverageCrash ==
  /\ coverage' = [t \in Tasks |-> IF batch.job[t] # "-"
                    THEN [coverage[t] EXCEPT !.lost = TRUE] ELSE coverage[t]]
  /\ batch' = [at |-> "idle", job |-> NoJobs]
  /\ cancel' = FALSE /\ searching' = FALSE

CoverageTick ==
  /\ \E t \in Tasks : coverage[t].wait > 0
  /\ coverage' = [t \in Tasks |-> IF coverage[t].wait > 0
                    THEN [coverage[t] EXCEPT !.wait = @ - 1] ELSE coverage[t]]
  /\ UNCHANGED <<batch, cancel, searching>>

TaskStep(t) ==
  \/ RunTask(t) \/ CancelChild(t) \/ ChildEnds(t) \/ PersistUrls(t)
  \/ NothingToPersist(t) \/ FinishTask(t) \/ FinishTaskRaises(t)

CoverageNext ==
  \/ StartBatch \/ ForegroundFirst \/ ClaimTasks \/ EndBatch
  \/ \E t \in Tasks : TaskStep(t)
  \/ SearchToggles \/ CoverageCrash \/ CoverageTick

CoverageSpec == CoverageInit /\ [][CoverageNext]_coverageVars

(* A process is polled every quarter of a second. *)
CoverageFairness == \A t \in Tasks : WF_coverageVars(CancelChild(t))

--------------------------------------------------------------------------------
(* A task that is PROCESSING is in the batch that is running. The only ways to     *)
(* strand one (nothing claims a PROCESSING row) are a crash and a result that      *)
(* could not be written; a cancelled search strands none.                          *)
StrandedOnlyByFault ==
  \A t \in Tasks : coverage[t].state = "PROCESSING" =>
    batch.job[t] # "-" \/ coverage[t].lost

(* FOUND is final (it is never claimed again), so it must not be recorded before   *)
(* the urls are, nor for another identity of the product.                          *)
FoundIsSaved == \A t \in Tasks : coverage[t].state = "FOUND" => coverage[t].saved

CoverageInv == CoverageType /\ StrandedOnlyByFault /\ FoundIsSaved

(* "terminated as soon as a foreground search starts". *)
SearchEndsScrapers ==
  searching /\ (\E t \in Tasks : batch.job[t] = "child")
    ~> ~searching \/ \A t \in Tasks : batch.job[t] # "child"
================================================================================
