----------------------------- MODULE SearchJobs ------------------------------
(* The search jobs of backend/main.py. A client's /search-start (once the gate *)
(* of CatalogBootstrap admits it) cancels the jobs that are active, waits      *)
(* briefly for them, registers a job in JOBS and starts its thread; the client *)
(* then polls the job's snapshot, which carries a watchdog. Requests are       *)
(* served by a pool of threads, so two of them may be between any two of these *)
(* steps. Everything here is in memory: a crash forgets it.                    *)
EXTENDS Naturals, FiniteSets

CONSTANTS
  Clients, Jobs, Shops,
  JobLimit       \* JOB_TIMEOUT_SECONDS + 20, in ticks

ASSUME JobsAssumption == JobLimit \in Nat \ {0}

VARIABLES
  request,  \* the /search-start each client is waiting for
  job       \* JOBS, and the thread of each job

jobsVars == <<request, job>>

(* stores: those _publish_store has entered; worker: where the job's thread is;    *)
(* cut: its collection was cut short by the cancel event; sawCancel: `cancelled`.  *)
(* The status "watchdog" stands for completed_with_store_issues with the error     *)
(* search_watchdog_timeout_partial_results.                                        *)
Statuses == {"absent", "searching", "completed", "completed_with_store_issues",
             "cancelled", "cancelled_with_results", "error", "watchdog"}
JobWorkers == {"none", "collecting", "collected", "finalizing", "closing", "ended"}
Job == [status : Statuses, completed : BOOLEAN, cancel : BOOLEAN, done : BOOLEAN,
        stores : SUBSET Shops, worker : JobWorkers, cut : BOOLEAN, sawCancel : BOOLEAN,
        known : BOOLEAN, age : 0 .. JobLimit]
NoJob == [status |-> "absent", completed |-> FALSE, cancel |-> FALSE, done |-> FALSE,
          stores |-> {}, worker |-> "none", cut |-> FALSE, sawCancel |-> FALSE,
          known |-> FALSE, age |-> 0]
NoRequest == [at |-> "none", waitFor |-> {}]

JobsType ==
  /\ request \in [Clients -> [at : {"none", "gated", "waiting", "creating", "starting"},
                              waitFor : SUBSET Jobs]]
  /\ job \in [Jobs -> Job]

JobsInit ==
  /\ request = [c \in Clients |-> NoRequest]
  /\ job = [j \in Jobs |-> NoJob]

--------------------------------------------------------------------------------
SearchStart(c) ==
  /\ request[c].at = "none"
  /\ request' = [request EXCEPT ![c].at = "gated"]
  /\ UNCHANGED job

ActiveJob(j) == job[j].status # "absent" /\ ~job[j].completed /\ ~job[j].done

(* _cancel_active_jobs: the events are set at once, the wait follows. *)
CancelActive(c) ==
  LET active == {j \in Jobs : ActiveJob(j)} IN
  /\ request[c].at = "gated"
  /\ job' = [j \in Jobs |-> IF j \in active THEN [job[j] EXCEPT !.cancel = TRUE] ELSE job[j]]
  /\ request' = [request EXCEPT ![c] = [at |-> "waiting", waitFor |-> active]]

AllDone(js) == \A j \in js : job[j].done

HandshakeDone(c) ==
  /\ request[c].at = "waiting" /\ AllDone(request[c].waitFor)
  /\ request' = [request EXCEPT ![c].at = "creating"]
  /\ UNCHANGED job

(* 0.15 s later: "busy". *)
HandshakeTimesOut(c) ==
  /\ request[c].at = "waiting" /\ ~AllDone(request[c].waitFor)
  /\ request' = [request EXCEPT ![c] = NoRequest]
  /\ UNCHANGED job

NewJob(c) ==
  /\ request[c].at = "creating"
  /\ \E j \in Jobs :
       /\ job[j].status = "absent"
       /\ job' = [job EXCEPT ![j] = [NoJob EXCEPT !.status = "searching"]]
       /\ request' = [request EXCEPT ![c] = [at |-> "starting", waitFor |-> {j}]]

StartThread(c) ==
  /\ request[c].at = "starting"
  /\ job' = [j \in Jobs |-> IF j \in request[c].waitFor
               THEN [job[j] EXCEPT !.worker = "collecting", !.known = TRUE] ELSE job[j]]
  /\ request' = [request EXCEPT ![c] = NoRequest]

(* Thread.start raises (no thread can be created): the client gets an error and    *)
(* no job id.                                                                      *)
StartThreadFails(c) ==
  /\ request[c].at = "starting"
  /\ request' = [request EXCEPT ![c] = NoRequest]
  /\ UNCHANGED job

--------------------------------------------------------------------------------
Worker(j, next) == job' = [job EXCEPT ![j].worker = next]

\* Mutation of PublishStore: only done is tested.
PublishLate(j, s) ==
  /\ job[j].worker = "collecting" /\ s \notin job[j].stores
  /\ ~(job[j].completed /\ job[j].worker = "ended")
  /\ job' = [job EXCEPT ![j].stores = @ \cup {s}]
  /\ UNCHANGED request

(* _publish_store: nothing is entered for a job that is completed or done. *)
PublishStore(j, s) ==
  /\ job[j].worker = "collecting" /\ s \notin job[j].stores
  /\ ~job[j].completed /\ ~job[j].done
  /\ job' = [job EXCEPT ![j].stores = @ \cup {s}]
  /\ UNCHANGED request

(* _collect_catalog_reports_isolated: a cancel event that it sees in time makes it *)
(* return nothing, or reports of stores it broke off.                              *)
Collected(j) ==
  /\ job[j].worker = "collecting"
  /\ \E cut \in {FALSE, job[j].cancel} :
       job' = [job EXCEPT ![j].worker = "collected", ![j].cut = cut]
  /\ UNCHANGED request

ReadCancelled(j) ==
  /\ job[j].worker = "collected"
  /\ job' = [job EXCEPT ![j].worker = "finalizing", ![j].sawCancel = job[j].cancel]
  /\ UNCHANGED request

\* Mutation of FinalStatuses: `cancelled` is not asked.
FinalCompleted(j) == {"completed", "completed_with_store_issues"}

FinalStatuses(j) ==
  IF job[j].sawCancel THEN {"cancelled", "cancelled_with_results"}
  ELSE {"completed", "completed_with_store_issues"}

(* It writes over whatever the watchdog has left. *)
Finalize(j) ==
  /\ job[j].worker = "finalizing"
  /\ \E status \in FinalStatuses(j) :
       job' = [job EXCEPT ![j].worker = "closing", ![j].completed = TRUE, ![j].status = status]
  /\ UNCHANGED request

WorkerRaises(j) ==
  /\ job[j].worker \in {"collecting", "collected", "finalizing"}
  /\ job' = [job EXCEPT ![j].worker = "closing", ![j].completed = TRUE, ![j].status = "error"]
  /\ UNCHANGED request

\* Mutation of SetDone: done is set, completed is left to whoever finalised.
WorkerVanishes(j) ==
  /\ job[j].worker = "closing"
  /\ job' = [job EXCEPT ![j].worker = "ended", ![j].done = TRUE, ![j].completed = FALSE]
  /\ UNCHANGED request

(* The `finally`. *)
SetDone(j) ==
  /\ job[j].worker = "closing"
  /\ job' = [job EXCEPT ![j].worker = "ended", ![j].done = TRUE,
                        ![j].sawCancel = FALSE, ![j].age = 0]
  /\ UNCHANGED request

\* Mutation of Watchdog: the watchdog cancels and waits for the thread.
WatchdogCancels(j) ==
  /\ job[j].known /\ ~job[j].completed /\ job[j].age = JobLimit
  /\ job' = [job EXCEPT ![j].cancel = TRUE]
  /\ UNCHANGED request

(* _snapshot of a job that is too old, asked for by a client that has its id. *)
Watchdog(j) ==
  /\ job[j].known /\ ~job[j].completed /\ job[j].age = JobLimit
  /\ job' = [job EXCEPT ![j].completed = TRUE, ![j].status = "watchdog",
                        ![j].cancel = TRUE, ![j].done = TRUE]
  /\ UNCHANGED request

JobsTick ==
  /\ job' = [j \in Jobs |-> IF ActiveJob(j) /\ job[j].age < JobLimit
                            THEN [job[j] EXCEPT !.age = @ + 1] ELSE job[j]]
  /\ job' # job
  /\ UNCHANGED request

JobsCrash ==
  /\ request' = [c \in Clients |-> NoRequest]
  /\ job' = [j \in Jobs |-> NoJob]

WorkerStep(j) ==
  \/ Collected(j) \/ ReadCancelled(j) \/ Finalize(j) \/ WorkerRaises(j) \/ SetDone(j)

RequestStep(c) ==
  \/ SearchStart(c) \/ CancelActive(c) \/ HandshakeDone(c) \/ HandshakeTimesOut(c)
  \/ NewJob(c) \/ StartThread(c) \/ StartThreadFails(c)

JobsNext ==
  \/ \E c \in Clients : RequestStep(c)
  \/ \E j \in Jobs : WorkerStep(j) \/ Watchdog(j) \/ \E s \in Shops : PublishStore(j, s)
  \/ JobsTick \/ JobsCrash

JobsSpec == JobsInit /\ [][JobsNext]_jobsVars

(* The client of a job polls, time passes. Nothing is assumed of the job's thread. *)
JobsFairness ==
  /\ \A j \in Jobs : WF_jobsVars(Watchdog(j))
  /\ WF_jobsVars(JobsTick)

--------------------------------------------------------------------------------
(* The handshake waits for done: a job that is done must be completed, or a new    *)
(* search would start beside one that still shows "searching"; and a request goes  *)
(* on to create its job only when every job it cancelled is done.                  *)
HandshakeInv ==
  /\ \A j \in Jobs : job[j].done => job[j].completed
  /\ \A c \in Clients : request[c].at = "creating" => AllDone(request[c].waitFor)

(* A result is presented as complete only when nothing was cut out of it, however  *)
(* late or early the cancel came.                                                  *)
CompleteIsNotCut ==
  \A j \in Jobs : job[j].status \in {"completed", "completed_with_store_issues"}
                    => ~job[j].cut

JobsInv == JobsType /\ HandshakeInv /\ CompleteIsNotCut

(* "Preserve the latest published snapshot": the stores of a completed job are     *)
(* frozen, although its thread may still be collecting.                            *)
CompletedStoresFrozen ==
  [][\A j \in Jobs : job[j].completed /\ job'[j].status # "absent"
       => job'[j].stores = job[j].stores]_jobsVars

(* "a worker must never leave the UI polling forever". *)
PollingEnds ==
  \A j \in Jobs : job[j].known /\ ~job[j].completed ~> job[j].completed \/ ~job[j].known

(* Violated: "release the job slot if the search exceeds its bounded execution     *)
(* window". The watchdog runs in the snapshot a client asks for; a job whose       *)
(* thread could not be started is known to nobody.                                 *)
SlotIsReleased == \A j \in Jobs : ActiveJob(j) ~> ~ActiveJob(j)

(* Violated: "A previous search is cancelled first". Two requests that pass the    *)
(* handshake together each start a search.                                         *)
OneSearchAtATime == \A i, j \in Jobs : ActiveJob(i) /\ ActiveJob(j) /\ i # j
                      => job[i].cancel \/ job[j].cancel
==============================================================================
