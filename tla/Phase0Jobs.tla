----------------------------- MODULE Phase0Jobs ------------------------------
(* The baseline jobs of backend/scenthunter_next_engine/phase0_baseline_jobs.py *)
(* and the worker process of backend/phase0_baseline_worker.py that runs them.  *)
(* The web process queues a job; a worker claims it, exports one store after    *)
(* the other in a child process, publishes the CSV by a rename and closes the   *)
(* job. A thread of the worker renews the heartbeat; a job whose heartbeat is   *)
(* too old is failed. Smoke jobs share the database and go first. Each call of  *)
(* the job table is a transaction of its own and may find the database locked.  *)
EXTENDS Naturals

CONSTANTS
  Baselines,    \* baseline jobs
  Smokes,       \* smoke jobs
  Legacy,       \* baseline jobs left by the version for eleven stores
  Exporters,    \* worker processes on the volume
  NStores,      \* Len(STORES)
  StaleAfter,   \* STALE_AFTER_SECONDS, in ticks
  NoExporter, NoBaseline

ASSUME Phase0Assumption ==
  /\ Legacy \subseteq Baselines /\ Baselines \cap Smokes = {}
  /\ NoBaseline \notin Baselines \cup Smokes /\ NoExporter \notin Exporters
  /\ NStores \in Nat \ {0} /\ StaleAfter \in Nat \ {0}

VARIABLES
  baseline,   \* phase0_baseline_jobs and phase0_smoke_jobs
  csv,        \* the jobs whose output_path exists
  exporter    \* the worker processes

phase0Vars == <<baseline, csv, exporter>>

(* beat: the age of heartbeat_at; processed: processed_stores; old: total_stores *)
(* is not NStores.                                                              *)
JobStates == {"absent", "queued", "running", "completed", "failed"}
JobRow == [status : JobStates, by : Exporters \cup {NoExporter}, beat : 0 .. StaleAfter,
           processed : 0 .. NStores, old : BOOLEAN]
QueuedRow == [status |-> "queued", by |-> NoExporter, beat |-> StaleAfter,
              processed |-> 0, old |-> FALSE]
AbsentRow == [QueuedRow EXCEPT !.status = "absent"]

(* boot: the schema has to be prepared; stores: progress_state["processed"];     *)
(* pulse: what the heartbeat thread has read and not written yet, 1 more than    *)
(* the count, 0 for none; ok: the export is on its way to "completed".           *)
ExporterStates == {"down", "boot", "polling", "peeked", "claimed", "exporting",
                   "ending", "finishing", "smoking"}
IdleExporter == [at |-> "down", job |-> NoBaseline, stores |-> 0, pulse |-> 0, ok |-> FALSE]

Phase0Type ==
  /\ baseline \in [Baselines \cup Smokes -> JobRow]
  /\ csv \subseteq Baselines \cup Smokes
  /\ exporter \in [Exporters -> [at : ExporterStates,
                                 job : Baselines \cup Smokes \cup {NoBaseline},
                                 stores : 0 .. NStores, pulse : 0 .. NStores + 1, ok : BOOLEAN]]

Phase0Init ==
  /\ \E s \in {"queued", "running"} :
       baseline = [j \in Baselines \cup Smokes |->
         IF j \in Legacy THEN [QueuedRow EXCEPT !.status = s, !.old = TRUE] ELSE AbsentRow]
  /\ csv = {}
  /\ exporter = [w \in Exporters |-> IdleExporter]

--------------------------------------------------------------------------------
(* create_job, create_smoke_job. *)
CreateJob(j) ==
  /\ baseline[j].status = "absent"
  /\ baseline' = [baseline EXCEPT ![j] = QueuedRow]
  /\ UNCHANGED <<csv, exporter>>

(* ensure_schema: what is left of the other store scope is retired or upgraded. *)
SchemaEnsured ==
  [j \in Baselines \cup Smokes |->
     CASE baseline[j].status = "running" /\ baseline[j].old -> [baseline[j] EXCEPT !.status = "failed"]
       [] baseline[j].status = "queued" -> [baseline[j] EXCEPT !.old = FALSE]
       [] OTHER -> baseline[j]]

WebStartup == baseline' = SchemaEnsured /\ UNCHANGED <<csv, exporter>>

At(w, phase) == exporter[w].at = phase
To(w, phase) == exporter' = [exporter EXCEPT ![w].at = phase]
Polling(w) == exporter' = [exporter EXCEPT ![w] = [IdleExporter EXCEPT !.at = "polling"]]
LoopError(w) == exporter' = [exporter EXCEPT ![w] = [IdleExporter EXCEPT !.at = "boot"]]

StartExporter(w) == At(w, "down") /\ To(w, "boot") /\ UNCHANGED <<baseline, csv>>

EnsureSchema(w) ==
  /\ At(w, "boot") /\ To(w, "polling")
  /\ baseline' = SchemaEnsured /\ UNCHANGED csv

(* recover_stale_jobs, at most every 30 s, between two jobs of this worker. *)
Expired(j) == j \in Baselines /\ baseline[j].status = "running" /\ baseline[j].beat = StaleAfter
\* Mutation of RecoverStaleJobs: a worker looks at its own jobs only.
RecoverOwnJobs(w) ==
  /\ At(w, "polling")
  /\ exporter[w].job \in Baselines
  /\ UNCHANGED phase0Vars

RecoverStaleJobs(w) ==
  /\ At(w, "polling")
  /\ \E j \in Baselines : Expired(j)
  /\ baseline' = [j \in Baselines \cup Smokes |->
                    IF Expired(j) THEN [baseline[j] EXCEPT !.status = "failed"] ELSE baseline[j]]
  /\ UNCHANGED <<csv, exporter>>

(* The peek of claim_next_smoke_job and claim_next_job: the oldest queued job (the *)
(* order is left open), smoke jobs first.                                          *)
Queued(jobs) == {j \in jobs : baseline[j].status = "queued"}
Peek(w) ==
  /\ At(w, "polling")
  /\ \E j \in Queued(IF Queued(Smokes) # {} THEN Smokes ELSE Baselines) :
       exporter' = [exporter EXCEPT ![w].at = "peeked", ![w].job = j]
  /\ UNCHANGED <<baseline, csv>>

\* Mutation of ClaimJob: the claim trusts the peek.
ClaimPeeked(w) ==
  LET j == exporter[w].job IN
  /\ At(w, "peeked")
  /\ baseline' = [baseline EXCEPT ![j] = [@ EXCEPT !.status = "running", !.by = w,
                                                  !.beat = 0, !.processed = 0]]
  /\ To(w, IF j \in Smokes THEN "smoking" ELSE "claimed")
  /\ UNCHANGED csv

(* BEGIN IMMEDIATE; UPDATE ... WHERE id=? AND status='queued'. *)
ClaimJob(w) ==
  LET j == exporter[w].job IN
  /\ At(w, "peeked")
  /\ IF baseline[j].status = "queued"
     THEN /\ baseline' = [baseline EXCEPT ![j] = [@ EXCEPT !.status = "running", !.by = w,
                                                           !.beat = 0, !.processed = 0]]
          /\ To(w, IF j \in Smokes THEN "smoking" ELSE "claimed")
     ELSE UNCHANGED baseline /\ Polling(w)
  /\ UNCHANGED csv

(* A locked database or a failed read outside _run_job: the loop starts anew; also  *)
(* after the claim, when its event cannot be recorded.                             *)
PollRaises(w) ==
  /\ exporter[w].at \in {"polling", "peeked", "claimed"}
  /\ LoopError(w) /\ UNCHANGED <<baseline, csv>>

StartExport(w) == At(w, "claimed") /\ To(w, "exporting") /\ UNCHANGED <<baseline, csv>>

(* The row of the job is renewed before every store. *)
Beaten(w, processed) ==
  [baseline EXCEPT ![exporter[w].job] = [@ EXCEPT !.beat = 0, !.processed = processed]]
StoreStarts(w) ==
  /\ At(w, "exporting") /\ exporter[w].stores < NStores
  /\ baseline' = Beaten(w, exporter[w].stores)
  /\ UNCHANGED <<csv, exporter>>

(* Completed, failed or timed out: the child is gone, the store has its rows (one   *)
(* at least) in the temporary file.                                                 *)
StoreEnds(w) ==
  /\ At(w, "exporting") /\ exporter[w].stores < NStores
  /\ exporter' = [exporter EXCEPT ![w].stores = @ + 1]
  /\ baseline' = Beaten(w, exporter[w].stores + 1)
  /\ UNCHANGED csv

(* os.replace; the events and the fsync after it may fail. *)
Publish(w) ==
  /\ At(w, "exporting") /\ exporter[w].stores = NStores
  /\ csv' = csv \cup {exporter[w].job}
  /\ \E ok \in BOOLEAN : exporter' = [exporter EXCEPT ![w].at = "ending", ![w].ok = ok]
  /\ UNCHANGED baseline

ExportRaises(w) ==
  /\ exporter[w].at \in {"claimed", "exporting"}
  /\ To(w, "ending") /\ UNCHANGED <<baseline, csv>>

(* The heartbeat thread reads the progress under its lock and writes it later. *)
PulseReads(w) ==
  /\ At(w, "exporting") /\ exporter[w].pulse = 0
  /\ exporter' = [exporter EXCEPT ![w].pulse = exporter[w].stores + 1]
  /\ UNCHANGED <<baseline, csv>>

PulseWrites(w) ==
  /\ exporter[w].pulse > 0
  /\ exporter' = [exporter EXCEPT ![w].pulse = 0]
  /\ baseline' \in {baseline, Beaten(w, exporter[w].pulse - 1)}
  /\ UNCHANGED csv

(* The `finally`: the thread is told to stop and joined (a beat takes seconds, the  *)
(* join waits for seventeen).                                                       *)
Joined(w) == exporter[w].pulse = 0
StopPulse(w) ==
  /\ At(w, "ending") /\ Joined(w)
  /\ To(w, "finishing") /\ UNCHANGED <<baseline, csv>>

Closed0(w, status) ==
  LET row == baseline[exporter[w].job] IN
  [baseline EXCEPT ![exporter[w].job] =
     [row EXCEPT !.status = status, !.beat = 0,
        !.processed = IF status = "completed" THEN exporter[w].stores ELSE row.processed]]

\* Mutation of CompleteJob: the job is closed with the progress of the row.
CompleteAsBeaten(w) ==
  /\ At(w, "finishing") /\ exporter[w].ok
  /\ baseline' = [baseline EXCEPT ![exporter[w].job].status = "completed"]
  /\ Polling(w)
  /\ UNCHANGED csv

(* update_job(status="completed"), whatever the row says now. It raises before its  *)
(* commit, or after it when the event is refused: the except branch fails the job.  *)
CompleteJob(w) ==
  /\ At(w, "finishing") /\ exporter[w].ok
  /\ \/ baseline' = Closed0(w, "completed") /\ Polling(w)
     \/ /\ baseline' \in {baseline, Closed0(w, "completed")}
        /\ exporter' = [exporter EXCEPT ![w].ok = FALSE]
  /\ UNCHANGED csv

FailJob(w) ==
  /\ At(w, "finishing") /\ ~exporter[w].ok
  /\ \/ baseline' = Closed0(w, "failed") /\ Polling(w)
     \/ baseline' \in {baseline, Closed0(w, "failed")} /\ LoopError(w)
  /\ UNCHANGED csv

(* _run_smoke_job: the file and its finish; it is not beaten and never recovered. *)
SmokeEnds(w) ==
  LET j == exporter[w].job IN
  /\ At(w, "smoking")
  /\ \/ csv' = csv \cup {j} /\ baseline' = [baseline EXCEPT ![j].status = "completed"] /\ Polling(w)
     \/ csv' \in {csv, csv \cup {j}} /\ baseline' = [baseline EXCEPT ![j].status = "failed"] /\ Polling(w)
     \/ csv' \in {csv, csv \cup {j}} /\ UNCHANGED baseline /\ LoopError(w)

(* SIGTERM is looked at between two jobs, a kill comes at any point. *)
ExporterStops(w) ==
  /\ ~At(w, "down")
  /\ exporter' = [exporter EXCEPT ![w] = IdleExporter]
  /\ UNCHANGED <<baseline, csv>>

Phase0Tick ==
  /\ baseline' = [j \in Baselines \cup Smokes |->
       IF baseline[j].status = "running" /\ baseline[j].beat < StaleAfter
       THEN [baseline[j] EXCEPT !.beat = @ + 1] ELSE baseline[j]]
  /\ baseline' # baseline
  /\ UNCHANGED <<csv, exporter>>

RunJob(w) ==
  \/ ClaimJob(w) \/ StartExport(w) \/ StoreEnds(w) \/ Publish(w) \/ ExportRaises(w)
  \/ StopPulse(w) \/ CompleteJob(w) \/ FailJob(w) \/ SmokeEnds(w)

Phase0Next ==
  \/ \E j \in Baselines \cup Smokes : CreateJob(j)
  \/ \E w \in Exporters :
       \/ StartExporter(w) \/ EnsureSchema(w) \/ RecoverStaleJobs(w) \/ Peek(w)
       \/ PollRaises(w) \/ StoreStarts(w) \/ PulseReads(w) \/ PulseWrites(w)
       \/ RunJob(w) \/ ExporterStops(w)
  \/ WebStartup \/ Phase0Tick

Phase0Spec == Phase0Init /\ [][Phase0Next]_phase0Vars

(* A store has its time-out, time passes, a container that ends is started again    *)
(* and is not stopped for ever; the polls are not refused every time.               *)
Phase0Fairness ==
  /\ \A w \in Exporters :
       /\ WF_phase0Vars(StartExporter(w)) /\ WF_phase0Vars(EnsureSchema(w))
       /\ WF_phase0Vars(RunJob(w)) /\ WF_phase0Vars(PulseWrites(w))
       /\ SF_phase0Vars(Peek(w)) /\ SF_phase0Vars(RecoverStaleJobs(w))
  /\ WF_phase0Vars(Phase0Tick)
  /\ <>[][\A w \in Exporters : ~ExporterStops(w)]_phase0Vars

--------------------------------------------------------------------------------
(* "Serve only a completed, atomically published CSV": a job never says completed  *)
(* without its file, and a baseline never with fewer stores than it has, although   *)
(* a beat that has read an older count may be on its way.                           *)
CompletedIsWhole ==
  \A j \in Baselines \cup Smokes : baseline[j].status = "completed" =>
    j \in csv /\ (j \in Baselines => baseline[j].processed = NStores)

(* A job has one worker at most, in all its life: the peek is outside of the        *)
(* transaction, and a failed or expired job is not taken again.                     *)
Works(w, j) == exporter[w].job = j /\ exporter[w].at \notin {"polling", "peeked"}
JobHasOneWorker ==
  \A j \in Baselines \cup Smokes : \A w \in Exporters :
    Works(w, j) => baseline[j].by = w

(* "They must not resume against a nine-retailer worker": no export of a job of the *)
(* other scope.                                                                     *)
NoOldScope == \A w \in Exporters : \A j \in Baselines : Works(w, j) => ~baseline[j].old

Phase0Inv == Phase0Type /\ CompletedIsWhole /\ JobHasOneWorker /\ NoOldScope

(* A baseline that was started ends: completed, failed by its worker, or failed by  *)
(* a later one that finds no heartbeat.                                             *)
BaselineEnds ==
  \A j \in Baselines : baseline[j].status = "running" ~> baseline[j].status # "running"
==============================================================================
