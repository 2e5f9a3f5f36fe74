----------------------------- MODULE StoreLanes ------------------------------
(* One search over the stores in backend/main.py, after a job has started it  *)
(* (SearchJobs). collect_store_reports_isolated answers from the catalogue,   *)
(* with a live attempt for Notino when nothing matched there; without a       *)
(* catalogue it runs one worker process per store, behind the permits of the  *)
(* store's lane. What a worker prints goes through a pipe: the reader may be  *)
(* behind, and a deadline or the cancel event may end it first.               *)
EXTENDS Naturals, FiniteSets

CONSTANTS
  LaneOf,     \* the semaphore of each store: BROWSER_STORES, NETWORK_HEAVY_STORES, light
  Permits,    \* permits of each lane
  MaxRows,    \* bound: rows a worker delivers
  LiveStores        \* stores with a live attempt beside the catalogue: {"notino"}

LaneStores == DOMAIN LaneOf

ASSUME LanesAssumption ==
  /\ IsFiniteSet(LaneStores) /\ LiveStores \subseteq LaneStores
  /\ LaneOf \in [LaneStores -> DOMAIN Permits]
  /\ Permits \in [DOMAIN Permits -> Nat \ {0}]
  /\ MaxRows \in Nat

VARIABLES
  lane,      \* the thread of each store, with its worker process
  permits,   \* what each semaphore has left
  report,    \* the last report of each store, as the job has it
  search     \* the collecting thread and the job's cancel event

lanesVars == <<lane, permits, report, search>>

(* status, verified, and rows: whether any result row came with it. *)
Report(status, verified, rows) == [status |-> status, verified |-> verified, rows |-> rows]
NoReport == Report("none", FALSE, FALSE)
(* "failed" stands for timeout, error, blocked, unavailable and cancelled, which    *)
(* are treated alike from here on.                                                 *)
FailedReport == Report("failed", FALSE, FALSE)
NativeStatuses == {"success", "partial", "failed"}

(* What search() of a scraper may return: a dict with any status and, perhaps, a *)
(* verified flag; a list; None; another iterable; or it raises.                  *)
ScraperReturns ==
  [shape : {"dict"}, status : NativeStatuses \cup {"other"},
   verified : {"yes", "no", "absent"}, rows : BOOLEAN]
  \cup [shape : {"list", "iterable"}, rows : BOOLEAN]
  \cup [shape : {"none", "raises"}]

NormaliseReport(raw) ==
  IF raw.shape = "dict"
  THEN LET status == IF raw.status \in NativeStatuses THEN raw.status ELSE "success"
       IN Report(status,
                 raw.verified = "yes" \/ (raw.verified = "absent" /\ status = "success"),
                 raw.rows)
  ELSE IF raw.shape = "list"
       THEN Report(IF raw.rows THEN "success" ELSE "failed", raw.rows, raw.rows)
       ELSE IF raw.shape = "iterable" THEN Report("success", raw.rows, raw.rows)
            ELSE FailedReport

(* The last line a worker prints: done, or error when the scraper raised. *)
LastEvent(raw) == Report(NormaliseReport(raw).status, NormaliseReport(raw).verified, FALSE)

(* What is printed and not read: rows, how many of them the reader will keep, and    *)
(* then, as the last line, the status event.                                         *)
EmptyPipe == [rows |-> 0, kept |-> 0, end |-> NoReport]

(* at: where the thread is; sent: rows printed; got: rows parsed and kept; last: the *)
(* status event read; said: history, the worker has printed a verified success.      *)
IdleWorker == [alive |-> FALSE, failed |-> FALSE, pipe |-> EmptyPipe, sent |-> 0, got |-> 0,
               last |-> NoReport, said |-> FALSE]
IdleLane == [at |-> "none", holds |-> FALSE, out |-> NoReport, worker |-> IdleWorker]
IdleSearch ==
  [at |-> "idle", lanes |-> FALSE, cancel |-> FALSE, failed |-> FALSE, unfinished |-> {},
   rows |-> [s \in LaneStores |-> "none"], indexed |-> {},
   returned |-> [s \in LaneStores |-> NoReport]]
Ats == {"none", "waiting", "first", "between", "second", "reporting", "ended",
        "bridge", "bridged"}

LanesType ==
  /\ \A s \in LaneStores :
       /\ lane[s].at \in Ats /\ lane[s].holds \in BOOLEAN
       /\ lane[s].out.status \in {"none", "success", "partial", "failed", "ok", "no_match"}
       /\ lane[s].worker.sent \in 0 .. MaxRows /\ lane[s].worker.got \in 0 .. MaxRows
  /\ permits \in [DOMAIN Permits -> Nat]
  /\ search.at \in {"idle", "joining", "cancelling", "resolving", "bridging", "returned"}
  /\ search.cancel \in BOOLEAN /\ search.failed \in BOOLEAN
  /\ search.unfinished \subseteq LaneStores /\ search.indexed \subseteq LaneStores

LanesInit ==
  /\ lane = [s \in LaneStores |-> IdleLane]
  /\ permits = Permits
  /\ report = [s \in LaneStores |-> NoReport]
  /\ search = IdleSearch

--------------------------------------------------------------------------------
(* The worker process: WORKER_CODE. It prints a row when the scraper delivers one *)
(* (the reader keeps it unless clean_result, the category filter or the identity  *)
(* rejects it), then what it returned; it may also be killed.                     *)
Attempts == {"first", "second", "bridge"}
Running(s) == lane[s].at \in Attempts /\ lane[s].worker.alive

WorkerIs(s, w) == lane' = [lane EXCEPT ![s].worker = w]

WorkerRow(s) ==
  LET w == lane[s].worker
  IN /\ Running(s) /\ w.sent < MaxRows
     /\ \E kept \in {0, 1} :
          WorkerIs(s, [w EXCEPT !.sent = @ + 1,
                                 !.pipe = [w.pipe EXCEPT !.rows = @ + 1, !.kept = @ + kept]])
     /\ UNCHANGED <<permits, report, search>>

WorkerEnds(s) ==
  LET w == lane[s].worker
  IN /\ Running(s)
     /\ \E raw \in ScraperReturns :
          LET r == NormaliseReport(raw)
          IN /\ r.rows => w.sent > 0
             /\ WorkerIs(s, [w EXCEPT !.alive = FALSE, !.failed = raw.shape = "raises",
                                      !.said = r.status = "success" /\ r.verified,
                                      !.pipe = [@ EXCEPT !.end = LastEvent(raw)]])
     /\ UNCHANGED <<permits, report, search>>

WorkerKilled(s) ==
  /\ Running(s)
  /\ WorkerIs(s, [lane[s].worker EXCEPT !.alive = FALSE, !.failed = TRUE])
  /\ UNCHANGED <<permits, report, search>>

--------------------------------------------------------------------------------
(* _run_store_subprocess_once. *)
Parsed(w) ==
  [w EXCEPT !.got = @ + w.pipe.kept, !.pipe = EmptyPipe,
            !.last = IF w.pipe.end = NoReport THEN @ ELSE w.pipe.end]

(* A chunk is read and its lines are parsed; the process is still running, or has *)
(* not been seen to end.                                                          *)
Reads(s) ==
  /\ lane[s].at \in Attempts /\ lane[s].worker.pipe # EmptyPipe
  /\ WorkerIs(s, Parsed(lane[s].worker))
  /\ UNCHANGED <<permits, report, search>>

(* A success without rows taken for verified. *)
PublicReportTrusting(w) ==
  IF w.failed /\ w.last.status \notin {"success", "partial"} THEN Report("failed", FALSE, w.got > 0)
  ELSE IF w.last.status = "success" /\ w.got = 0 THEN Report("no_match", TRUE, FALSE)
  ELSE Report("ok", w.got > 0, w.got > 0)

(* The public status of what was read. *)
PublicReport(w) ==
  LET status == IF w.last.status # "none" THEN w.last.status
                ELSE IF w.got > 0 THEN "success" ELSE "failed"
      verified == IF w.last.status # "none" THEN w.last.verified ELSE w.got > 0
  IN IF w.failed /\ w.last.status \notin {"success", "partial"}
     THEN Report("failed", FALSE, w.got > 0)
     ELSE Report(IF status = "success" /\ verified /\ w.got = 0 THEN "no_match"
                 ELSE IF status = "success" /\ w.got > 0 THEN "ok" ELSE status,
                 verified, w.got > 0)

(* After the process has ended, what is left in the pipe is parsed as one line: a  *)
(* single done or error is seen, several lines or a row are not.                   *)
TailOf(w) ==
  IF w.pipe.rows = 0 /\ w.pipe.end # NoReport THEN Parsed(w) ELSE [w EXCEPT !.pipe = EmptyPipe]

(* The attempt of store s is over with report r: _run_store_subprocess returns it *)
(* or tries once more, and what is not conclusive then is unverified; the live     *)
(* attempt beside the catalogue is not repeated.                                   *)
Conclusive(r) == r.verified /\ (r.status \in {"ok", "no_match"} \/ (r.status = "partial" /\ r.rows))
SecondReport(r) ==
  IF Conclusive(r) THEN r
  ELSE Report("failed", FALSE, r.rows)

AttemptOver(s, r, w) ==
  LET k == lane[s]
      next == IF k.at = "bridge" THEN "bridged"
              ELSE IF k.at = "second" \/ r.status = "failed" \/ Conclusive(r) THEN "reporting"
              ELSE "between"
      out == IF k.at = "second" THEN SecondReport(r) ELSE r
  IN lane' = [lane EXCEPT ![s] = [k EXCEPT !.at = next, !.out = out, !.worker = w]]

ProcessSeenEnded(s) ==
  /\ lane[s].at \in Attempts /\ ~lane[s].worker.alive
  /\ LET w == TailOf(lane[s].worker) IN AttemptOver(s, PublicReport(w), w)
  /\ UNCHANGED <<permits, report, search>>

(* At the deadline, or on any exception, the process group is killed and the rows *)
(* read so far are not in the report, although on_result has passed them on.      *)
Deadline(s) ==
  /\ lane[s].at \in Attempts
  /\ AttemptOver(s, FailedReport, IdleWorker)
  /\ UNCHANGED <<permits, report, search>>

CancelSeen(s) ==
  /\ lane[s].at \in Attempts /\ search.cancel
  /\ AttemptOver(s, FailedReport, IdleWorker)
  /\ UNCHANGED <<permits, report, search>>

TryAgain(s) ==
  /\ lane[s].at = "between"
  /\ lane' = [lane EXCEPT ![s].at = "second", ![s].worker = [IdleWorker EXCEPT !.alive = TRUE]]
  /\ UNCHANGED <<permits, report, search>>

--------------------------------------------------------------------------------
(* _run_controlled_store. *)
TakePermit(s) ==
  /\ lane[s].at = "waiting" /\ ~search.cancel /\ permits[LaneOf[s]] > 0
  /\ permits' = [permits EXCEPT ![LaneOf[s]] = @ - 1]
  /\ lane' = [lane EXCEPT ![s].at = "first", ![s].holds = TRUE,
                          ![s].worker = [IdleWorker EXCEPT !.alive = TRUE]]
  /\ UNCHANGED <<report, search>>

(* The wait ends without a permit: cancelled, or the lane stayed busy. *)
GiveUpLane(s) ==
  /\ lane[s].at = "waiting"
  /\ search.cancel \/ permits[LaneOf[s]] = 0
  /\ lane' = [lane EXCEPT ![s].at = "reporting", ![s].out = FailedReport]
  /\ UNCHANGED <<permits, report, search>>

(* The permit goes back in the finally; the report is published after it. *)
GiveBack(s) ==
  /\ lane[s].at = "reporting" /\ lane[s].holds
  /\ permits' = [permits EXCEPT ![LaneOf[s]] = @ + 1]
  /\ lane' = [lane EXCEPT ![s].holds = FALSE]
  /\ UNCHANGED <<report, search>>

Publish(s) ==
  /\ lane[s].at = "reporting" /\ ~lane[s].holds
  /\ report' = [report EXCEPT ![s] = lane[s].out]
  /\ lane' = [lane EXCEPT ![s] = [IdleLane EXCEPT !.at = "ended"]]
  /\ UNCHANGED <<permits, search>>

--------------------------------------------------------------------------------
(* collect_store_reports_isolated without a catalogue: a thread per store. *)
StartLanes ==
  /\ search.at = "idle"
  /\ search' = [search EXCEPT !.at = "joining", !.lanes = TRUE]
  /\ lane' = [s \in LaneStores |-> [lane[s] EXCEPT !.at = "waiting"]]
  /\ UNCHANGED <<permits, report>>

Alive == {s \in LaneStores : lane[s].at # "ended"}

(* JOB_TIMEOUT_SECONDS have passed: the rest is cancelled and given three seconds. *)
JoinDeadline ==
  /\ search.at = "joining" /\ Alive # {}
  /\ search' = [search EXCEPT !.at = "cancelling", !.cancel = TRUE, !.unfinished = Alive]
  /\ UNCHANGED <<lane, permits, report>>

(* reports.setdefault: a report that has come in is kept. A thread that is still  *)
(* alive goes on: it publishes to the job, the list is returned without it.       *)
CollectReports ==
  LET whole == [s \in LaneStores |->
                  IF report[s] = NoReport /\ s \in search.unfinished
                  THEN FailedReport ELSE report[s]]
  IN /\ \/ search.at = "joining" /\ Alive = {}
        \/ search.at = "cancelling"
     /\ report' = whole
     /\ search' = [search EXCEPT !.at = "returned", !.returned = whole]
     /\ UNCHANGED <<lane, permits>>

(* The user, or the next search, cancels the job. *)
CancelSearch ==
  /\ search.at \notin {"idle", "returned"} /\ ~search.cancel
  /\ search' = [search EXCEPT !.cancel = TRUE]
  /\ UNCHANGED <<lane, permits, report>>

--------------------------------------------------------------------------------
(* _catalog_indexed_flags is asked only when the search found no row at all: the    *)
(* stores with an active page, or none if that read fails.                         *)
IndexedStores(found) == IF found # {} THEN {found} ELSE SUBSET LaneStores

RowKinds == {"none", "rejected", "pending", "matched"}

(* _collect_catalog_reports_isolated. The rows search_local found of a store: none *)
(* at all, only rejected ones, some whose page must be refreshed and no match, or  *)
(* a match. A search that raises has no rows.                                      *)
SearchCatalogue ==
  /\ search.at = "idle"
  /\ \E rows \in [LaneStores -> RowKinds], failed \in BOOLEAN :
       LET found == {s \in LaneStores : rows[s] # "none"}
       IN /\ failed => found = {}
          /\ \E indexed \in IndexedStores(found) :
               search' = [search EXCEPT !.at = "resolving", !.rows = rows, !.failed = failed,
                                        !.indexed = indexed]
  /\ UNCHANGED <<lane, permits, report>>

CatalogueReport(s, seen) ==
  LET any == \E t \in LaneStores : search.rows[t] # "none"
  IN IF seen = "matched" THEN Report("success", TRUE, TRUE)
     ELSE IF seen = "pending" THEN Report("catalog_pending", FALSE, FALSE)
     ELSE IF s \in search.indexed \/ any THEN Report("no_match", TRUE, FALSE)
     ELSE Report("catalog_not_indexed", FALSE, FALSE)

CancelledInCatalogue ==
  /\ search.at = "resolving" /\ search.cancel
  /\ search' = [search EXCEPT !.at = "returned"]
  /\ UNCHANGED <<lane, permits, report>>

(* Each store's thread breaks out of its rows when it finds the job cancelled: a    *)
(* match it did not come to is not seen, only the pages that wait are counted.      *)
RowsSeen ==
  {seen \in [LaneStores -> RowKinds] :
     \A s \in LaneStores :
       \/ seen[s] = search.rows[s]
       \/ search.cancel /\ search.rows[s] = "matched" /\ seen[s] \in {"rejected", "pending"}}

(* The stores are resolved and published; a live store without a match is then     *)
(* asked once, outside the lanes, unless the job is cancelled.                      *)
ResolveStores ==
  LET bridged == {s \in LiveStores : search.rows[s] # "matched" /\ ~search.cancel}
  IN /\ search.at = "resolving"
     /\ \E seen \in RowsSeen : report' = [s \in LaneStores |-> CatalogueReport(s, seen[s])]
     /\ search' = IF bridged # {} THEN [search EXCEPT !.at = "bridging"]
                  ELSE [search EXCEPT !.at = "returned", !.returned = report']
     /\ lane' = [s \in LaneStores |->
                   IF s \in bridged
                   THEN [lane[s] EXCEPT !.at = "bridge", !.worker = [IdleWorker EXCEPT !.alive = TRUE]]
                   ELSE lane[s]]
     /\ UNCHANGED permits

(* Only a verified answer with offers replaces the catalogue's report. The pool is *)
(* left when the attempt has ended, also if its result was not waited for.         *)
BridgeEnds ==
  /\ search.at = "bridging" /\ \A s \in LaneStores : lane[s].at # "bridge"
  /\ \E late \in SUBSET {s \in LaneStores : lane[s].at = "bridged"} :
       report' = [s \in LaneStores |->
                    IF lane[s].at = "bridged" /\ s \notin late
                       /\ lane[s].out.verified /\ lane[s].out.rows
                    THEN lane[s].out ELSE report[s]]
  /\ search' = [search EXCEPT !.at = "returned", !.returned = report']
  /\ lane' = [s \in LaneStores |->
                IF lane[s].at = "bridged" THEN [IdleLane EXCEPT !.at = "ended"] ELSE lane[s]]
  /\ UNCHANGED permits

(* Resolving the identities raises: every store has an error. *)
CatalogueError ==
  /\ search.at = "resolving"
  /\ report' = [s \in LaneStores |-> FailedReport]
  /\ search' = [search EXCEPT !.at = "returned", !.returned = report']
  /\ UNCHANGED <<lane, permits>>

--------------------------------------------------------------------------------
(* The search is over and its threads with it: the next one begins. *)
NextSearch ==
  /\ search.at = "returned" /\ \A s \in LaneStores : lane[s].at \in {"none", "ended"}
  /\ lane' = [s \in LaneStores |-> IdleLane]
  /\ report' = [s \in LaneStores |-> NoReport]
  /\ search' = IdleSearch
  /\ UNCHANGED permits

LaneStep(s) ==
  \/ WorkerRow(s) \/ WorkerEnds(s) \/ WorkerKilled(s)
  \/ Reads(s) \/ ProcessSeenEnded(s) \/ Deadline(s) \/ CancelSeen(s) \/ TryAgain(s)
  \/ TakePermit(s) \/ GiveUpLane(s) \/ GiveBack(s) \/ Publish(s)

LanesNext ==
  \/ StartLanes \/ JoinDeadline \/ CollectReports \/ CancelSearch \/ NextSearch
  \/ SearchCatalogue \/ CancelledInCatalogue \/ ResolveStores \/ BridgeEnds \/ CatalogueError
  \/ \E s \in LaneStores : LaneStep(s)

LanesSpec == LanesInit /\ [][LanesNext]_lanesVars

--------------------------------------------------------------------------------
(* The permits of a lane and the threads that hold one add up, whatever ends a     *)
(* thread's attempt: a permit lost at every timeout would close the lane.          *)
PermitsAddUp ==
  \A l \in DOMAIN Permits :
    permits[l] + Cardinality({s \in LaneStores : lane[s].holds /\ LaneOf[s] = l}) = Permits[l]

(* "technical failures can never become absence": a worker's no_match is the       *)
(* verified success of a process that ran to its end in that attempt, was not      *)
(* killed, and delivered no row that was kept.                                     *)
AbsenceIsVerified ==
  \A s \in LaneStores :
    lane[s].out.status = "no_match" =>
      lane[s].worker.said /\ ~lane[s].worker.failed /\ lane[s].worker.got = 0

(* Without a catalogue no requested store is missing from the list that is         *)
(* returned, whichever threads were cancelled, late or still waiting for a lane.   *)
EveryStoreReported ==
  search.at = "returned" /\ search.lanes => \A s \in LaneStores : search.returned[s] # NoReport

(* A page that waits for its refresh keeps its store from being reported absent,   *)
(* cancelled or not, and no failed live attempt loses a match of the catalogue:     *)
(* only a job cancelled before the thread of the store came to the match does.      *)
CatalogueIsKept ==
  \A s \in LaneStores :
    search.returned[s].status = "no_match" =>
      search.rows[s] # "pending" /\ (search.rows[s] = "matched" => search.cancel)

LanesInv ==
  /\ LanesType /\ PermitsAddUp
  /\ AbsenceIsVerified /\ EveryStoreReported /\ CatalogueIsKept

(* Violated: the thread of a store that a cancel stopped before it came to the      *)
(* match reports a verified no_match, as if it had looked at every row.             *)
CancelIsNotAbsence ==
  \A s \in LaneStores :
    search.rows[s] = "matched" => search.returned[s].status # "no_match"

(* Violated: a catalogue search that raised is reported as a verified no_match of   *)
(* every store that has pages in the index.                                         *)
FailedSearchIsNotAbsence ==
  search.at = "returned" /\ search.failed =>
    \A s \in LaneStores : search.returned[s].status # "no_match"
==============================================================================
