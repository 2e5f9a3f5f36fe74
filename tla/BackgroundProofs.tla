---------------------------- MODULE BackgroundProofs ----------------------------
(* Proofs about what runs beside searches: the coverage queue, the resync jobs and   *)
(* the bootstrap, and the discovery loop with the family process.                    *)
EXTENDS CoverageQueue, ControlledJobs, FamilyCoverage, Phase0Jobs, TLAPS

--------------------------------------------------------------------------------
(* The coverage queue. A row's state follows its job: what is in flight is in the    *)
(* batch or was lost by a fault, and a job that says FOUND has saved its urls.       *)
TaskRow == [state : CoverageStates, wait : 0 .. Wait, saved : BOOLEAN, lost : BOOLEAN]

TaskOK(row, job) ==
  /\ row.state = "PROCESSING" => job # "-" \/ row.lost
  /\ row.state = "FOUND" \/ job = "FOUND" => row.saved

CoverageIInv ==
  /\ coverage \in [Tasks -> TaskRow]
  /\ batch \in [at : {"idle", "cleared", "running", "failed"}, job : [Tasks -> JobPhases]]
  /\ cancel \in BOOLEAN /\ searching \in BOOLEAN
  /\ batch.at \in {"idle", "cleared"} => batch.job = NoJobs
  /\ \A t \in Tasks : TaskOK(coverage[t], batch.job[t])
  /\ batch.at = "failed" => \A t \in Tasks : batch.job[t] # "-" => coverage[t].lost

LEMMA CoverageIInvImplies == CoverageIInv => CoverageInv
  BY DEF CoverageIInv, CoverageInv, CoverageType, TaskRow, TaskOK, StrandedOnlyByFault, FoundIsSaved

LEMMA WaitNat == Wait \in Nat /\ 0 \in 0 .. Wait /\ Wait \in 0 .. Wait
  BY CoverageAssumption

LEMMA NewTaskRow == [NewTask EXCEPT !.state = "PENDING"] \in TaskRow /\ NewTask \in TaskRow
  BY WaitNat DEF NewTask, TaskRow, CoverageStates

LEMMA CoverageInitOK == CoverageInit => CoverageIInv
<1> SUFFICES ASSUME CoverageInit PROVE CoverageIInv
  OBVIOUS
<1>1. \A t \in Tasks : coverage[t] \in {[NewTask EXCEPT !.state = "PENDING"], NewTask}
  BY DEF CoverageInit
<1>2. coverage \in [Tasks -> TaskRow]
  BY NewTaskRow DEF CoverageInit
<1>3. \A t \in Tasks : coverage[t].state \in {"ABSENT", "PENDING"} /\ batch.job[t] = "-"
  BY <1>1 DEF CoverageInit, NewTask, NoJobs
<1>4. \A t \in Tasks : TaskOK(coverage[t], batch.job[t])
  BY <1>3 DEF TaskOK
<1>5. batch \in [at : {"idle", "cleared", "running", "failed"}, job : [Tasks -> JobPhases]]
  BY DEF CoverageInit, NoJobs, JobPhases
<1> QED
  BY <1>2, <1>4, <1>5 DEF CoverageInit, CoverageIInv

\* A job of the batch moves on and its row keeps its state; "FOUND" needs the urls.
LEMMA JobMoves ==
  ASSUME CoverageIInv, NEW t \in Tasks, NEW j \in JobPhases \ {"-"}, SetJob(t, j),
         batch.job[t] # "-", j = "FOUND" => coverage'[t].saved,
         \/ coverage' = coverage \/ coverage' = [coverage EXCEPT ![t].saved = TRUE],
         cancel' \in BOOLEAN, searching' = searching
  PROVE  CoverageIInv'
<1>1. /\ batch.job \in [Tasks -> JobPhases] /\ coverage \in [Tasks -> TaskRow]
      /\ batch.at \in {"running", "failed"}
  BY DEF CoverageIInv, NoJobs
<1>2. /\ batch'.at = batch.at /\ batch'.job = [batch.job EXCEPT ![t] = j]
      /\ batch' \in [at : {"idle", "cleared", "running", "failed"}, job : [Tasks -> JobPhases]]
  BY <1>1 DEF SetJob, CoverageIInv
<1>3. /\ coverage' \in [Tasks -> TaskRow]
      /\ \A u \in Tasks : /\ coverage'[u].state = coverage[u].state
                          /\ coverage'[u].lost = coverage[u].lost
                          /\ coverage[u].saved => coverage'[u].saved
  <2>1. CASE coverage' = coverage
    BY <1>1, <2>1
  <2>2. CASE coverage' = [coverage EXCEPT ![t].saved = TRUE]
    <3>1. coverage[t] \in TaskRow
      BY <1>1
    <3>2. [coverage[t] EXCEPT !.saved = TRUE] \in TaskRow
      BY <3>1 DEF TaskRow
    <3>3. \A u \in Tasks : coverage'[u] = IF u = t THEN [coverage[t] EXCEPT !.saved = TRUE] ELSE coverage[u]
      BY <1>1, <2>2
    <3>4. coverage' \in [Tasks -> TaskRow]
      BY <1>1, <2>2, <3>2
    <3> QED
      BY <3>1, <3>3, <3>4 DEF TaskRow
  <2> QED
    BY <2>1, <2>2
<1>4. ASSUME NEW u \in Tasks PROVE TaskOK(coverage'[u], batch'.job[u])
  <2>1. TaskOK(coverage[u], batch.job[u])
    BY DEF CoverageIInv
  <2>2. CASE u = t
    BY <1>1, <1>2, <1>3, <2>1, <2>2 DEF TaskOK
  <2>3. CASE u # t
    BY <1>1, <1>2, <1>3, <2>1, <2>3 DEF TaskOK
  <2> QED
    BY <2>2, <2>3
<1>5. batch'.at = "failed" => \A u \in Tasks : batch'.job[u] # "-" => coverage'[u].lost
  <2> SUFFICES ASSUME batch'.at = "failed", NEW u \in Tasks, batch'.job[u] # "-"
               PROVE  coverage'[u].lost
    OBVIOUS
  <2>1. batch.job[u] # "-"
    BY <1>1, <1>2
  <2> QED
    BY <1>2, <1>3, <2>1 DEF CoverageIInv
<1> QED
  BY <1>1, <1>2, <1>3, <1>4, <1>5 DEF CoverageIInv

LEMMA JobStepOK ==
  ASSUME CoverageIInv, NEW t \in Tasks,
         RunTask(t) \/ CancelChild(t) \/ ChildEnds(t) \/ PersistUrls(t) \/ NothingToPersist(t)
  PROVE  CoverageIInv'
<1>1. CASE RunTask(t)
  <2>1. \E j \in {"CANCELLED", "ERROR", "child"} : SetJob(t, j)
    BY <1>1 DEF RunTask
  <2> QED
    BY <1>1, <2>1, JobMoves DEF RunTask, JobPhases, Results, CoverageIInv
<1>2. CASE CancelChild(t)
  BY <1>2, JobMoves DEF CancelChild, JobPhases, Results, CoverageIInv
<1>3. CASE ChildEnds(t)
  <2>1. \E j \in {"CANCELLED", "output", "RETRY"} : SetJob(t, j)
    BY <1>3 DEF ChildEnds
  <2> QED
    BY <1>3, <2>1, JobMoves DEF ChildEnds, JobPhases, Results, CoverageIInv
<1>4. CASE PersistUrls(t)
  <2>1. coverage'[t].saved
    BY <1>4 DEF PersistUrls, CoverageIInv, TaskRow
  <2> QED
    BY <1>4, <2>1, JobMoves DEF PersistUrls, JobPhases, Results, CoverageIInv
<1>5. CASE NothingToPersist(t)
  <2>1. PICK j \in {"NOT_FOUND", "RETRY", "ERROR"} : SetJob(t, j)
    BY <1>5 DEF NothingToPersist
  <2> QED
    BY <1>5, <2>1, JobMoves DEF NothingToPersist, JobPhases, Results, CoverageIInv
<1> QED
  BY <1>1, <1>2, <1>3, <1>4, <1>5

\* A result is written: the row has its state, and the task leaves the batch.
LEMMA FinishTaskOK == ASSUME CoverageIInv, NEW t \in Tasks, FinishTask(t) PROVE CoverageIInv'
<1> DEFINE state == IF batch.job[t] = "CANCELLED" THEN "PENDING" ELSE batch.job[t]
<1>1. /\ batch.job \in [Tasks -> JobPhases] /\ coverage \in [Tasks -> TaskRow]
      /\ batch.at = "running" /\ batch.job[t] \in Results
  BY DEF CoverageIInv, FinishTask, Judged
<1>2. state \in CoverageStates \ {"PROCESSING"} /\ (state = "FOUND" => batch.job[t] = "FOUND")
  BY <1>1 DEF Results, CoverageStates
<1>3. coverage' = [coverage EXCEPT ![t] = [@ EXCEPT !.wait = Wait, !.state = state]]
  BY <1>1 DEF FinishTask, TaskRow
<1> HIDE DEF state
<1>4. /\ coverage' \in [Tasks -> TaskRow]
      /\ coverage'[t].state = state /\ coverage'[t].saved = coverage[t].saved
      /\ \A u \in Tasks \ {t} : coverage'[u] = coverage[u]
  BY <1>1, <1>2, <1>3, WaitNat DEF TaskRow
<1>5. /\ batch'.at = batch.at /\ batch'.job = [batch.job EXCEPT ![t] = "-"]
      /\ batch' \in [at : {"idle", "cleared", "running", "failed"}, job : [Tasks -> JobPhases]]
  BY <1>1 DEF FinishTask, SetJob, CoverageIInv, JobPhases
<1>6. ASSUME NEW u \in Tasks PROVE TaskOK(coverage'[u], batch'.job[u])
  <2>1. TaskOK(coverage[u], batch.job[u])
    BY DEF CoverageIInv
  <2>2. CASE u = t
    BY <1>1, <1>2, <1>4, <1>5, <2>1, <2>2 DEF TaskOK
  <2>3. CASE u # t
    BY <1>1, <1>4, <1>5, <2>1, <2>3 DEF TaskOK
  <2> QED
    BY <2>2, <2>3
<1> QED
  BY <1>1, <1>4, <1>5, <1>6 DEF CoverageIInv, FinishTask

\* Rows of the batch are marked as lost, by a result that cannot be written or a crash.
LEMMA LostRows ==
  ASSUME CoverageIInv,
         coverage' = [t \in Tasks |-> IF batch.job[t] # "-" THEN [coverage[t] EXCEPT !.lost = TRUE]
                                      ELSE coverage[t]]
  PROVE  /\ coverage' \in [Tasks -> TaskRow]
         /\ \A t \in Tasks : /\ coverage'[t].state = coverage[t].state
                             /\ coverage'[t].saved = coverage[t].saved
                             /\ coverage'[t].lost <=> coverage[t].lost \/ batch.job[t] # "-"
<1>1. coverage \in [Tasks -> TaskRow]
  BY DEF CoverageIInv
<1> QED
  BY <1>1 DEF TaskRow

LEMMA FaultOK ==
  ASSUME CoverageIInv, CoverageCrash \/ \E t \in Tasks : FinishTaskRaises(t)
  PROVE  CoverageIInv'
<1>1. /\ coverage' \in [Tasks -> TaskRow]
      /\ \A t \in Tasks : /\ coverage'[t].state = coverage[t].state
                          /\ coverage'[t].saved = coverage[t].saved
                          /\ coverage'[t].lost <=> coverage[t].lost \/ batch.job[t] # "-"
  BY LostRows DEF CoverageCrash, FinishTaskRaises
<1>2. \A t \in Tasks : TaskOK(coverage[t], batch.job[t])
  BY DEF CoverageIInv
<1>3. CASE CoverageCrash
  <2>1. batch' = [at |-> "idle", job |-> NoJobs] /\ NoJobs \in [Tasks -> JobPhases]
    BY <1>3 DEF CoverageCrash, NoJobs, JobPhases
  <2>2. \A t \in Tasks : TaskOK(coverage'[t], batch'.job[t])
    BY <1>1, <1>2, <2>1 DEF TaskOK, NoJobs
  <2>3. /\ batch'.at = "idle" /\ batch'.job = NoJobs
        /\ batch' \in [at : {"idle", "cleared", "running", "failed"}, job : [Tasks -> JobPhases]]
    BY <2>1
  <2>4. cancel' \in BOOLEAN /\ searching' \in BOOLEAN
    BY <1>3 DEF CoverageCrash
  <2> QED
    BY <1>1, <2>2, <2>3, <2>4 DEF CoverageIInv
<1>4. ASSUME NEW t \in Tasks, FinishTaskRaises(t) PROVE CoverageIInv'
  <2>1. batch' = [batch EXCEPT !.at = "failed"]
    BY <1>4 DEF FinishTaskRaises
  <2>2. /\ batch'.at = "failed" /\ batch'.job = batch.job
        /\ batch' \in [at : {"idle", "cleared", "running", "failed"}, job : [Tasks -> JobPhases]]
    BY <2>1 DEF CoverageIInv
  <2>3. \A u \in Tasks : TaskOK(coverage'[u], batch'.job[u])
    BY <1>1, <1>2, <2>2 DEF TaskOK
  <2> QED
    BY <1>1, <1>4, <2>2, <2>3 DEF CoverageIInv, FinishTaskRaises
<1> QED
  BY <1>3, <1>4

\* The batch ends, is looked at, or is put off; no row changes.
LEMMA BatchOK ==
  ASSUME CoverageIInv, StartBatch \/ ForegroundFirst \/ EndBatch \/ SearchToggles
  PROVE  CoverageIInv'
<1>1. CASE StartBatch \/ ForegroundFirst
  <2>1. /\ batch'.at \in {"idle", "cleared"} /\ batch'.job = batch.job /\ batch.job = NoJobs
        /\ batch' \in [at : {"idle", "cleared", "running", "failed"}, job : [Tasks -> JobPhases]]
    BY <1>1 DEF CoverageIInv, StartBatch, ForegroundFirst
  <2> QED
    BY <1>1, <2>1 DEF CoverageIInv, StartBatch, ForegroundFirst
<1>2. CASE EndBatch
  <2>1. /\ batch' = [at |-> "idle", job |-> NoJobs] /\ NoJobs \in [Tasks -> JobPhases]
        /\ coverage' = coverage
    BY <1>2 DEF EndBatch, NoJobs, JobPhases
  <2>2. \A t \in Tasks : batch.job[t] # "-" => coverage[t].lost
    BY <1>2 DEF EndBatch, NoJobs, CoverageIInv
  <2>3. \A t \in Tasks : TaskOK(coverage[t], batch.job[t])
    BY DEF CoverageIInv
  <2>4. \A t \in Tasks : TaskOK(coverage'[t], batch'.job[t])
    BY <2>1, <2>2, <2>3 DEF TaskOK, NoJobs
  <2> QED
    BY <1>2, <2>1, <2>4 DEF CoverageIInv, EndBatch
<1>3. CASE SearchToggles
  BY <1>3 DEF SearchToggles, CoverageIInv
<1> QED
  BY <1>1, <1>2, <1>3

LEMMA SeededRow ==
  ASSUME CoverageIInv, NEW changed
  PROVE  \A t \in Tasks : /\ Seeded(changed)[t] \in TaskRow
                          /\ Seeded(changed)[t] = coverage[t] \/ Seeded(changed)[t].state = "PENDING"
  BY NewTaskRow DEF Seeded, CoverageIInv, NewTask

\* Before the claim no row is in the batch; after it those are that have been claimed.
LEMMA ClaimTasksOK == ASSUME CoverageIInv, ClaimTasks PROVE CoverageIInv'
<1>1. PICK changed \in SUBSET (Tasks \ Orphans), picked \in SUBSET Tasks :
        LET rows == Seeded(changed)
            taken == picked \ Orphans IN
          /\ coverage' = [t \in Tasks |-> IF t \in taken
                            THEN [rows[t] EXCEPT !.state = "PROCESSING"] ELSE rows[t]]
          /\ batch' = IF taken = {} THEN [batch EXCEPT !.at = "idle"]
                      ELSE [at |-> "running",
                            job |-> [t \in Tasks |-> IF t \in taken THEN "queued" ELSE "-"]]
  BY DEF ClaimTasks
<1> DEFINE rows == Seeded(changed)
           taken == picked \ Orphans
<1>2. \A t \in Tasks : rows[t] \in TaskRow /\ (rows[t] = coverage[t] \/ rows[t].state = "PENDING")
  BY SeededRow
<1>3. \A t \in Tasks : coverage'[t] = IF t \in taken THEN [rows[t] EXCEPT !.state = "PROCESSING"] ELSE rows[t]
  BY <1>1
<1>4. batch.at = "cleared" /\ batch.job = NoJobs
  BY DEF ClaimTasks, CoverageIInv
<1>5. /\ batch'.at \in {"idle", "running"} /\ (batch'.at = "idle" => batch'.job = NoJobs)
      /\ batch' \in [at : {"idle", "cleared", "running", "failed"}, job : [Tasks -> JobPhases]]
      /\ \A t \in Tasks : batch'.job[t] = IF t \in taken THEN "queued" ELSE "-"
  <2>1. CASE taken = {}
    <3>1. batch' = [batch EXCEPT !.at = "idle"]
      BY <1>1, <2>1
    <3> QED
      BY <1>4, <2>1, <3>1 DEF CoverageIInv, NoJobs
  <2>2. CASE taken # {}
    <3>1. batch' = [at |-> "running", job |-> [t \in Tasks |-> IF t \in taken THEN "queued" ELSE "-"]]
      BY <1>1, <2>2
    <3> QED
      BY <3>1 DEF JobPhases
  <2> QED
    BY <2>1, <2>2
<1>6. coverage' \in [Tasks -> TaskRow]
  <2>1. ASSUME NEW t \in Tasks PROVE coverage'[t] \in TaskRow
    <3>1. rows[t] \in TaskRow
      BY <1>2
    <3> HIDE DEF rows, taken
    <3>2. [rows[t] EXCEPT !.state = "PROCESSING"] \in TaskRow
      BY <3>1 DEF TaskRow, CoverageStates
    <3> QED
      BY <1>3, <3>1, <3>2
  <2>2. coverage' = [t \in Tasks |-> coverage'[t]]
    BY <1>1
  <2> QED
    BY <2>1, <2>2
<1>7. ASSUME NEW t \in Tasks PROVE TaskOK(coverage'[t], batch'.job[t])
  <2>1. TaskOK(coverage[t], "-")
    BY <1>4 DEF CoverageIInv, NoJobs
  <2>2. CASE t \in taken
    <3>1. coverage'[t].state = "PROCESSING" /\ batch'.job[t] = "queued"
      BY <1>2, <1>3, <1>5, <2>2 DEF TaskRow
    <3> QED
      BY <3>1 DEF TaskOK
  <2>3. CASE t \notin taken
    <3>1. coverage'[t] = rows[t] /\ batch'.job[t] = "-"
      BY <1>3, <1>5, <2>3
    <3> QED
      BY <1>2, <2>1, <3>1 DEF TaskOK
  <2> QED
    BY <2>2, <2>3
<1> QED
  BY <1>5, <1>6, <1>7 DEF CoverageIInv, ClaimTasks

LEMMA CoverageTickOK == ASSUME CoverageIInv, CoverageTick PROVE CoverageIInv'
<1>1. coverage \in [Tasks -> TaskRow] /\ \A t \in Tasks : TaskOK(coverage[t], batch.job[t])
  BY DEF CoverageIInv
<1>2. coverage' \in [Tasks -> TaskRow]
  BY <1>1, WaitNat DEF CoverageTick, TaskRow
<1>3. \A t \in Tasks : /\ coverage'[t].state = coverage[t].state
                       /\ coverage'[t].saved = coverage[t].saved
                       /\ coverage'[t].lost = coverage[t].lost
  BY <1>1 DEF CoverageTick, TaskRow
<1>4. \A t \in Tasks : TaskOK(coverage'[t], batch.job[t])
  BY <1>1, <1>3 DEF TaskOK
<1> QED
  BY <1>2, <1>3, <1>4 DEF CoverageTick, CoverageIInv

LEMMA CoverageNextOK == CoverageIInv /\ [CoverageNext]_coverageVars => CoverageIInv'
<1> SUFFICES ASSUME CoverageIInv, [CoverageNext]_coverageVars PROVE CoverageIInv'
  OBVIOUS
<1>1. CASE UNCHANGED coverageVars
  BY <1>1 DEF coverageVars, CoverageIInv
<1>2. CASE CoverageNext
  BY <1>2, JobStepOK, FinishTaskOK, FaultOK, BatchOK, ClaimTasksOK, CoverageTickOK
    DEF CoverageNext, TaskStep
<1> QED
  BY <1>1, <1>2

(* A coverage task that is PROCESSING is in the running batch, unless a fault has lost *)
(* it, and FOUND, which is final, is only recorded of urls that are in the catalogue.  *)
THEOREM CoverageInvariant == CoverageSpec => []CoverageInv
<1>1. CoverageSpec => []CoverageIInv
  BY CoverageInitOK, CoverageNextOK, PTL DEF CoverageSpec
<1> QED
  BY <1>1, CoverageIInvImplies, PTL

--------------------------------------------------------------------------------
(* The resync jobs. A kind is either at work, and then for the job that is shown, or *)
(* has no worker; a job is only started in the second case.                          *)
BootRow == [at : {"down", "starting", "syncing", "ending", "up"}, running : BOOLEAN, done : BOOLEAN,
            error : BOOLEAN, loops : 0 .. 1, raised : BOOLEAN]
ResyncRow == [running : BOOLEAN, job : 0 .. MaxJobs, result : 0 .. MaxJobs,
              finished : BOOLEAN, workers : SUBSET (1 .. MaxJobs)]

ResyncOK(r) ==
  /\ r \in ResyncRow
  /\ r.finished => r.result = r.job
  /\ r.workers # {} => r.running /\ r.workers = {r.job}

ControlIInv ==
  /\ boot \in BootRow /\ catalogued \in BOOLEAN
  /\ resync \in [Kinds -> ResyncRow]
  /\ \A k \in Kinds : ResyncOK(resync[k])

LEMMA ControlIInvImplies == ControlIInv => ControlInv
<1> SUFFICES ASSUME ControlIInv PROVE ControlInv
  OBVIOUS
<1>1. ControlType
  BY DEF ControlIInv, ControlType, BootRow, ResyncRow
<1>2. ResyncIsSingle
  <2> SUFFICES ASSUME NEW k \in Kinds
               PROVE  /\ \A i, j \in resync[k].workers : i = j
                      /\ resync[k].finished => resync[k].result = resync[k].job
                      /\ resync[k].workers # {} =>
                           resync[k].running /\ resync[k].workers = {resync[k].job}
    BY DEF ResyncIsSingle
  <2> QED
    BY DEF ControlIInv, ResyncOK
<1> QED
  BY <1>1, <1>2 DEF ControlInv

LEMMA ControlInitOK == ControlInit => ControlIInv
<1> SUFFICES ASSUME ControlInit PROVE ControlIInv
  OBVIOUS
<1>1. DownBoot \in BootRow
  BY DEF DownBoot, BootRow
<1>2. IdleResync \in ResyncRow /\ ResyncOK(IdleResync)
  BY ControlAssumption DEF IdleResync, ResyncRow, ResyncOK
<1> QED
  BY <1>1, <1>2 DEF ControlInit, ControlIInv

LEMMA BootOK == ASSUME ControlIInv, BootStep \/ CatalogueFills PROVE ControlIInv'
<1>1. boot \in BootRow /\ LoopsStarted \in 0 .. 1
  BY DEF ControlIInv, BootRow, LoopsStarted
<1>2. resync' = resync
  BY DEF BootStep, CatalogueFills, Startup, BootstrapRuns, BootstrapSyncs, BootstrapRaises, BootstrapEnds
<1>3. catalogued' \in BOOLEAN
  BY DEF BootStep, CatalogueFills, Startup, BootstrapRuns, BootstrapSyncs, BootstrapRaises,
         BootstrapEnds, ControlIInv
<1>4. boot' \in BootRow
  <2>1. CASE Startup
    <3>1. \/ boot' = [boot EXCEPT !.at = "up", !.done = TRUE, !.loops = LoopsStarted]
          \/ boot' = [boot EXCEPT !.at = "starting"]
      BY <2>1 DEF Startup
    <3> QED
      BY <1>1, <3>1 DEF BootRow
  <2>2. CASE BootstrapRuns
    BY <1>1, <2>2 DEF BootstrapRuns, BootRow
  <2>3. CASE BootstrapSyncs
    <3>1. PICK done, error \in BOOLEAN :
            boot' = [boot EXCEPT !.at = "ending", !.loops = LoopsStarted, !.done = done, !.error = error]
      <4>1. PICK ready \in BOOLEAN :
              boot' = [boot EXCEPT !.at = "ending", !.loops = LoopsStarted, !.done = ready, !.error = ~ready]
        BY <1>3, <2>3 DEF BootstrapSyncs
      <4> QED
        BY <4>1, ready = TRUE \/ ready = FALSE
    <3> QED
      BY <1>1, <3>1 DEF BootRow
  <2>4. CASE BootstrapRaises
    BY <1>1, <2>4 DEF BootstrapRaises, BootRow
  <2>5. CASE BootstrapEnds
    BY <1>1, <2>5 DEF BootstrapEnds, BootRow
  <2>6. CASE CatalogueFills
    BY <1>1, <2>6 DEF CatalogueFills
  <2> QED
    BY <2>1, <2>2, <2>3, <2>4, <2>5, <2>6 DEF BootStep
<1> QED
  BY <1>2, <1>3, <1>4 DEF ControlIInv

\* The job of one kind changes.
LEMMA OneKind ==
  ASSUME ControlIInv, NEW k \in Kinds, NEW r, ResyncOK(r),
         resync' = [resync EXCEPT ![k] = r], boot' = boot, catalogued' = catalogued
  PROVE  ControlIInv'
  BY DEF ControlIInv, ResyncOK

LEMMA ResyncStartOK == ASSUME ControlIInv, NEW k \in Kinds, ResyncStart(k) PROVE ControlIInv'
<1> DEFINE old == resync[k]
<1>1. /\ old \in ResyncRow /\ ~old.running /\ old.workers = {} /\ old.job + 1 \in 1 .. MaxJobs
  BY ControlAssumption DEF ControlIInv, ResyncOK, ResyncStart, ResyncRow
<1>2. PICK threadStarts \in BOOLEAN :
        resync' = [resync EXCEPT ![k] =
          [running |-> TRUE, job |-> @.job + 1, result |-> 0, finished |-> FALSE,
           workers |-> IF threadStarts THEN @.workers \cup {@.job + 1} ELSE @.workers]]
  BY DEF ResyncStart
<1> DEFINE workers == IF threadStarts THEN {old.job + 1} ELSE {}
           new == [running |-> TRUE, job |-> old.job + 1, result |-> 0, finished |-> FALSE,
                   workers |-> workers]
<1>3. resync' = [resync EXCEPT ![k] = new]
  BY <1>1, <1>2
<1>4. workers \in SUBSET (1 .. MaxJobs) /\ (workers # {} => workers = {old.job + 1})
  BY <1>1
<1>5. old.job + 1 \in 0 .. MaxJobs /\ 0 \in 0 .. MaxJobs
  BY <1>1, ControlAssumption DEF ResyncRow
<1> HIDE DEF workers, old
<1>6. ResyncOK(new)
  BY <1>4, <1>5 DEF ResyncOK, ResyncRow
<1> HIDE DEF new
<1> QED
  BY <1>3, <1>6, OneKind DEF ResyncStart

LEMMA ResyncEndsOK == ASSUME ControlIInv, NEW k \in Kinds, ResyncEnds(k) PROVE ControlIInv'
<1>1. PICK j \in resync[k].workers :
        resync' = [resync EXCEPT ![k].workers = @ \ {j}, ![k].result = j,
                                 ![k].finished = TRUE, ![k].running = FALSE]
  BY DEF ResyncEnds
<1>2. resync[k] \in ResyncRow /\ resync[k].workers = {j} /\ j = resync[k].job
  BY DEF ControlIInv, ResyncOK
<1> DEFINE new == [resync[k] EXCEPT !.workers = {}, !.result = j, !.finished = TRUE, !.running = FALSE]
<1>3. resync' = [resync EXCEPT ![k] = new]
  BY <1>1, <1>2 DEF ControlIInv, ResyncRow
<1>4. ResyncOK(new)
  BY <1>2 DEF ResyncOK, ResyncRow
<1> HIDE DEF new
<1> QED
  BY <1>3, <1>4, OneKind DEF ResyncEnds

LEMMA ControlCrashOK == ASSUME ControlIInv, ControlCrash PROVE ControlIInv'
<1>1. DownBoot \in BootRow
  BY DEF DownBoot, BootRow
<1>2. \A k \in Kinds : ResyncOK([IdleResync EXCEPT !.job = resync[k].job])
  <2> SUFFICES ASSUME NEW k \in Kinds PROVE ResyncOK([IdleResync EXCEPT !.job = resync[k].job])
    OBVIOUS
  <2>1. resync[k].job \in 0 .. MaxJobs
    BY DEF ControlIInv, ResyncRow
  <2>2. IdleResync \in ResyncRow /\ IdleResync.workers = {} /\ ~IdleResync.finished
    BY ControlAssumption DEF IdleResync, ResyncRow
  <2> DEFINE new == [IdleResync EXCEPT !.job = resync[k].job]
  <2>3. new \in ResyncRow /\ new.workers = IdleResync.workers /\ new.finished = IdleResync.finished
    BY <2>1, <2>2 DEF ResyncRow
  <2> HIDE DEF new
  <2>4. ResyncOK(new)
    BY <2>2, <2>3 DEF ResyncOK
  <2> QED
    BY <2>4 DEF new
<1>3. resync' \in [Kinds -> ResyncRow] /\ \A k \in Kinds : ResyncOK(resync'[k])
  BY <1>2 DEF ControlCrash, ResyncOK
<1> QED
  BY <1>1, <1>3 DEF ControlCrash, ControlIInv

LEMMA ControlNextOK == ControlIInv /\ [ControlNext]_controlVars => ControlIInv'
<1> SUFFICES ASSUME ControlIInv, [ControlNext]_controlVars PROVE ControlIInv'
  OBVIOUS
<1>1. CASE UNCHANGED controlVars
  BY <1>1 DEF controlVars, ControlIInv
<1>2. CASE ControlNext
  BY <1>2, BootOK, ResyncStartOK, ResyncEndsOK, ControlCrashOK DEF ControlNext
<1> QED
  BY <1>1, <1>2

(* However requests, crashes and threads that do not start are mixed, a resync endpoint *)
(* has one worker at most, and shows the result of the job that it shows.               *)
THEOREM ControlInvariant == ControlSpec => []ControlInv
<1>1. ControlSpec => []ControlIInv
  BY ControlInitOK, ControlNextOK, PTL DEF ControlSpec
<1> QED
  BY <1>1, ControlIInvImplies, PTL

--------------------------------------------------------------------------------
(* The discovery loop. Once the two stores that are served first have been visited,   *)
(* the loop's count of the visits since Deloox is the true one.                       *)
TurnCounts ==
  /\ turn.notino => turn.deloox /\ unserved = 0
  /\ ~turn.notino /\ turn.deloox => unserved = 1
  /\ ~turn.notino /\ ~turn.deloox => unserved = turn.since

TurnRow == [notino : BOOLEAN, deloox : BOOLEAN, next : 0 .. NOthers - 1, since : 0 .. 2]
LoopIInv == LoopType /\ TurnCounts

LEMMA StoresAreOthers ==
  /\ Notino # Deloox /\ Notino \in LoopStores /\ Deloox \in LoopStores
  /\ \A i \in 0 .. NOthers - 1 : Others[i] # Deloox /\ Others[i] \in LoopStores
<1>1. \A i \in 0 .. NOthers - 1 : Others[i] # Deloox /\ Others[i] \in LoopStores
  BY LoopAssumption DEF LoopStores
<1>2. Deloox \in LoopStores
  BY DEF LoopStores
<1> QED
  BY <1>1, <1>2, LoopAssumption

LEMMA FirstTurnOK == FirstTurn \in TurnRow
  BY LoopAssumption DEF FirstTurn, TurnRow

\* The four tests of the loop, one at a time.
LEMMA Choices ==
  ASSUME turn \in TurnRow
  PROVE  /\ turn.notino => Choice = [store |-> Notino, turn |-> [turn EXCEPT !.notino = FALSE]]
         /\ ~turn.notino /\ turn.deloox =>
              Choice = [store |-> Deloox, turn |-> [turn EXCEPT !.deloox = FALSE, !.since = 0]]
         /\ ~turn.notino /\ ~turn.deloox /\ turn.since >= 2 =>
              Choice = [store |-> Deloox, turn |-> [turn EXCEPT !.since = 0]]
         /\ ~turn.notino /\ ~turn.deloox /\ ~(turn.since >= 2) =>
              Choice = [store |-> Others[turn.next],
                        turn |-> [turn EXCEPT !.next = (turn.next + 1) % NOthers, !.since = turn.since + 1]]
<1>1. CASE turn.notino
  BY <1>1 DEF Choice, TurnRow
<1>2. CASE ~turn.notino /\ turn.deloox
  BY <1>2 DEF Choice, TurnRow
<1>3. CASE ~turn.notino /\ ~turn.deloox /\ turn.since >= 2
  BY <1>3 DEF Choice, TurnRow
<1>4. CASE ~turn.notino /\ ~turn.deloox /\ ~(turn.since >= 2)
  BY <1>4 DEF Choice, TurnRow
<1> QED
  BY <1>1, <1>2, <1>3, <1>4

LEMMA NextOther == \A i \in 0 .. NOthers - 1 : (i + 1) % NOthers \in 0 .. NOthers - 1
  BY LoopAssumption

LEMMA VisitOK == ASSUME LoopIInv, Visit PROVE LoopIInv'
<1>1. turn \in TurnRow /\ unserved \in 0 .. 3 /\ TurnCounts
  BY DEF LoopIInv, LoopType, TurnRow
<1>2. /\ loop' = [at |-> "visiting", store |-> Choice.store] /\ turn' = Choice.turn
      /\ comm' = "sh-catalog-disc" /\ search' = search
      /\ unserved' = IF Choice.store = Deloox THEN 0
                     ELSE IF unserved < 3 THEN unserved + 1 ELSE unserved
  BY DEF Visit
<1>3. Choice.store \in LoopStores /\ turn' \in TurnRow /\ unserved' \in 0 .. 3 /\ TurnCounts'
  <2>1. CASE turn.notino
    <3>1. Choice.store = Notino /\ turn' = [turn EXCEPT !.notino = FALSE]
      BY <1>1, <1>2, <2>1, Choices
    <3>2. turn' \in TurnRow /\ ~turn'.notino /\ turn'.deloox
      BY <1>1, <2>1, <3>1 DEF TurnRow, TurnCounts
    <3> QED
      BY <1>1, <1>2, <2>1, <3>1, <3>2, StoresAreOthers DEF TurnCounts
  <2>2. CASE ~turn.notino /\ turn.deloox
    <3>1. Choice.store = Deloox /\ turn' = [turn EXCEPT !.deloox = FALSE, !.since = 0]
      BY <1>1, <1>2, <2>2, Choices
    <3>2. turn' \in TurnRow /\ ~turn'.notino /\ ~turn'.deloox /\ turn'.since = 0
      <4> DEFINE asked == [turn EXCEPT !.deloox = FALSE]
      <4>1. asked \in TurnRow /\ asked.notino = turn.notino /\ asked.deloox = FALSE
        BY <1>1 DEF TurnRow
      <4>2. turn' = [asked EXCEPT !.since = 0]
        BY <3>1
      <4> HIDE DEF asked
      <4>3. /\ turn' \in TurnRow /\ turn'.notino = asked.notino /\ turn'.deloox = asked.deloox
            /\ turn'.since = 0
        BY <4>1, <4>2 DEF TurnRow
      <4> QED
        BY <2>2, <4>1, <4>3
    <3> QED
      BY <1>2, <3>1, <3>2, StoresAreOthers DEF TurnCounts
  <2>3. CASE ~turn.notino /\ ~turn.deloox /\ turn.since >= 2
    <3>1. Choice.store = Deloox /\ turn' = [turn EXCEPT !.since = 0]
      BY <1>1, <1>2, <2>3, Choices
    <3>2. turn' \in TurnRow /\ ~turn'.notino /\ ~turn'.deloox /\ turn'.since = 0
      <4>1. /\ turn' \in TurnRow /\ turn'.notino = turn.notino /\ turn'.deloox = turn.deloox
            /\ turn'.since = 0
        BY <1>1, <3>1 DEF TurnRow
      <4> QED
        BY <2>3, <4>1
    <3> QED
      BY <1>2, <3>1, <3>2, StoresAreOthers DEF TurnCounts
  <2>4. CASE ~turn.notino /\ ~turn.deloox /\ ~(turn.since >= 2)
    <3> DEFINE next == (turn.next + 1) % NOthers
    <3>1. Choice.store = Others[turn.next] /\ turn' = [turn EXCEPT !.next = next, !.since = turn.since + 1]
      BY <1>1, <1>2, <2>4, Choices
    <3>2. turn.next \in 0 .. NOthers - 1 /\ next \in 0 .. NOthers - 1
      BY <1>1, NextOther DEF TurnRow
    <3> HIDE DEF next
    <3>3. /\ turn' \in TurnRow /\ ~turn'.notino /\ ~turn'.deloox
          /\ turn'.since = turn.since + 1 /\ turn.since \in {0, 1}
      <4>1. turn.since \in {0, 1}
        BY <1>1, <2>4 DEF TurnRow
      <4>2. turn.since + 1 \in 0 .. 2
        BY <4>1
      <4>3. /\ turn' \in TurnRow /\ turn'.notino = turn.notino /\ turn'.deloox = turn.deloox
            /\ turn'.since = turn.since + 1
        BY <1>1, <3>1, <3>2, <4>2 DEF TurnRow
      <4> QED
        BY <2>4, <4>1, <4>3
    <3>4. unserved = turn.since /\ Choice.store # Deloox /\ Choice.store \in LoopStores
      BY <1>1, <2>4, <3>1, <3>2, StoresAreOthers DEF TurnCounts
    <3> QED
      BY <1>2, <3>3, <3>4 DEF TurnCounts
  <2> QED
    BY <2>1, <2>2, <2>3, <2>4
<1> QED
  BY <1>2, <1>3 DEF LoopIInv, LoopType, TurnRow

LEMMA LoopNextOK == ASSUME LoopIInv, LoopNext PROVE LoopIInv'
<1>1. CASE Visit
  BY <1>1, VisitOK
<1>2. CASE StartLoop \/ EndVisit \/ Rested
  BY <1>2 DEF StartLoop, EndVisit, Rested, LoopIInv, LoopType, TurnCounts
<1>3. CASE SearchChanges
  BY <1>3 DEF SearchChanges, turnVars, LoopIInv, LoopType, TurnCounts
<1>4. CASE LoopCrash
  <2>1. FirstTurn \in TurnRow /\ FirstTurn.notino /\ FirstTurn.deloox
    BY FirstTurnOK DEF FirstTurn
  <2> QED
    BY <1>4, <2>1 DEF LoopCrash, LoopIInv, LoopType, TurnCounts, TurnRow
<1> QED
  BY <1>1, <1>2, <1>3, <1>4 DEF LoopNext, LoopStep

LEMMA ServedInTime == LoopIInv => DelooxIsServed
<1> SUFFICES ASSUME LoopIInv PROVE DelooxIsServed
  OBVIOUS
<1>1. turn \in TurnRow /\ unserved \in 0 .. 3 /\ TurnCounts
  BY DEF LoopIInv, LoopType, TurnRow
<1>2. unserved <= 2
  BY <1>1 DEF TurnRow, TurnCounts
<1>3. ASSUME Choice.store = Deloox, ~turn.deloox PROVE unserved = 2
  <2>1. ~turn.notino
    BY <1>1, <1>3 DEF TurnCounts
  <2>2. CASE turn.since >= 2
    BY <1>1, <1>3, <2>1, <2>2 DEF TurnCounts, TurnRow
  <2>3. CASE ~(turn.since >= 2)
    BY <1>1, <1>3, <2>1, <2>3, Choices, StoresAreOthers DEF TurnRow
  <2> QED
    BY <2>2, <2>3
<1> QED
  BY <1>2, <1>3 DEF DelooxIsServed

--------------------------------------------------------------------------------
(* The family process. Between two families its number may be past the last one, at  *)
(* work on a family it is not.                                                        *)
FamilyRow == [at : FamilyPhases, family : 1 .. NFamilies + 1, alias : Nat, tries : 0 .. PersistRetries]
AtWork == {"waiting", "querying", "settling", "writing", "backoff"}
FamilyIInv ==
  /\ LoopIInv /\ fam \in FamilyRow
  /\ fam.at \in AtWork => fam.family <= NFamilies

LEMMA RestingOK == RestingFamily \in FamilyRow /\ RestingFamily.at = "resting"
  BY FamilyAssumption DEF RestingFamily, FamilyRow, FamilyPhases

LEMMA FamilyIInvImplies == FamilyIInv => FamilyInv
  BY ServedInTime DEF FamilyIInv, FamilyInv, LoopIInv, FamilyRow, FamilyType

LEMMA FamilyInitOK == FamilyInit => FamilyIInv
<1> SUFFICES ASSUME FamilyInit PROVE FamilyIInv
  OBVIOUS
<1>1. LoopIInv
  <2>1. FirstTurn \in TurnRow /\ FirstTurn.notino /\ FirstTurn.deloox
    BY FirstTurnOK DEF FirstTurn
  <2> QED
    BY <2>1 DEF FamilyInit, LoopInit, LoopIInv, LoopType, TurnCounts, TurnRow
<1> QED
  BY <1>1, RestingOK DEF FamilyInit, FamilyIInv, AtWork

LEMMA LoopKept == ASSUME LoopIInv, UNCHANGED loopVars PROVE LoopIInv'
  BY DEF loopVars, LoopIInv, LoopType, TurnCounts

LEMMA FamilyStepOK == ASSUME FamilyIInv, FamilyStep \/ Stop \/ CycleError PROVE FamilyIInv'
<1>1. fam \in FamilyRow /\ (fam.at \in AtWork => fam.family <= NFamilies) /\ LoopIInv
  BY DEF FamilyIInv
<1>2. LoopIInv'
  BY <1>1, LoopKept DEF FamilyStep, Stop, CycleError, StartCycle, NextFamily, EndCycle, ForegroundIdle,
       QueryFinds, QueryFindsNothing, Settled, Write, WriteLocked, Retry, RestartFamily, FamilyGoto
<1>3. /\ PersistRetries \in Nat \ {0} /\ NFamilies \in Nat \ {0}
  BY FamilyAssumption
<1>4. ASSUME fam.at \in AtWork
      PROVE  NextFamilyRow \in FamilyRow /\ NextFamilyRow.at = "next"
  <2>1. /\ fam.family + 1 \in 1 .. NFamilies + 1 /\ fam.alias \in Nat
        /\ 0 \in 0 .. PersistRetries /\ "next" \in FamilyPhases
    BY <1>1, <1>3, <1>4 DEF FamilyRow, FamilyPhases
  <2>2. NextFamilyRow = [fam EXCEPT !.at = "next", !.family = fam.family + 1, !.tries = 0]
    BY <1>1 DEF NextFamilyRow, FamilyRow
  <2> QED
    BY <1>1, <2>1, <2>2 DEF FamilyRow
<1>5. fam' \in FamilyRow /\ (fam'.at \in AtWork => fam'.family <= NFamilies)
  <2>1. CASE StartCycle
    BY <1>3, <2>1 DEF StartCycle, RestingFamily, FamilyRow, FamilyPhases, AtWork
  <2>2. CASE NextFamily
    BY <1>1, <1>3, <2>2 DEF NextFamily, FamilyRow, FamilyPhases
  <2>3. CASE EndCycle \/ RestartFamily \/ CycleError
    BY <2>3, RestingOK DEF EndCycle, RestartFamily, CycleError, AtWork
  <2>4. CASE ForegroundIdle \/ QueryFinds \/ Retry \/ Stop
    BY <1>1, <2>4 DEF ForegroundIdle, QueryFinds, Retry, Stop, FamilyGoto, FamilyRow, FamilyPhases, AtWork
  <2>5. CASE QueryFindsNothing
    <3>1. CASE fam' = [fam EXCEPT !.at = "waiting", !.alias = @ + 1]
      <4>1. fam.alias + 1 \in Nat /\ "waiting" \in FamilyPhases /\ fam.family <= NFamilies
        BY <1>1, <2>5 DEF QueryFindsNothing, FamilyRow, FamilyPhases, AtWork
      <4>2. fam' = [fam EXCEPT !.at = "waiting", !.alias = fam.alias + 1]
        BY <1>1, <3>1 DEF FamilyRow
      <4>3. fam' \in FamilyRow /\ fam'.family = fam.family
        BY <1>1, <4>1, <4>2 DEF FamilyRow
      <4> QED
        BY <4>1, <4>3
    <3>2. CASE fam' = NextFamilyRow
      BY <1>4, <2>5, <3>2 DEF QueryFindsNothing, AtWork
    <3> QED
      BY <2>5, <3>1, <3>2 DEF QueryFindsNothing
  <2>6. CASE Settled
    <3>1. 0 \in 0 .. PersistRetries /\ "writing" \in FamilyPhases /\ fam.family <= NFamilies
      BY <1>1, <1>3, <2>6 DEF Settled, FamilyPhases, AtWork
    <3>2. fam' = [fam EXCEPT !.at = "writing", !.tries = 0]
      BY <2>6 DEF Settled
    <3>3. fam' \in FamilyRow /\ fam'.family = fam.family
      BY <1>1, <3>1, <3>2 DEF FamilyRow
    <3> QED
      BY <3>1, <3>3
  <2>7. CASE Write
    BY <1>4, <2>7 DEF Write, AtWork
  <2>8. CASE WriteLocked
    <3>1. CASE fam' = NextFamilyRow
      BY <1>4, <2>8, <3>1 DEF WriteLocked, AtWork
    <3>2. CASE ~(fam.tries + 1 >= PersistRetries)
      <4>1. fam.tries + 1 \in 0 .. PersistRetries /\ "backoff" \in FamilyPhases /\ fam.family <= NFamilies
        BY <1>1, <1>3, <2>8, <3>2 DEF WriteLocked, FamilyRow, FamilyPhases, AtWork
      <4>2. fam' = [fam EXCEPT !.at = "backoff", !.tries = fam.tries + 1]
        BY <1>1, <2>8, <3>2 DEF WriteLocked, FamilyRow
      <4>3. fam' \in FamilyRow /\ fam'.family = fam.family
        BY <1>1, <4>1, <4>2 DEF FamilyRow
      <4> QED
        BY <4>1, <4>3
    <3> QED
      BY <2>8, <3>1, <3>2 DEF WriteLocked
  <2> QED
    BY <2>1, <2>2, <2>3, <2>4, <2>5, <2>6, <2>7, <2>8 DEF FamilyStep
<1> QED
  BY <1>2, <1>5 DEF FamilyIInv

LEMMA FamilyNextOK == FamilyIInv /\ [FamilyNext]_familyVars => FamilyIInv'
<1> SUFFICES ASSUME FamilyIInv, [FamilyNext]_familyVars PROVE FamilyIInv'
  OBVIOUS
<1>1. CASE UNCHANGED familyVars
  <2>1. UNCHANGED loopVars /\ UNCHANGED fam
    BY <1>1 DEF familyVars, loopVars
  <2> QED
    BY <2>1, LoopKept DEF FamilyIInv
<1>2. CASE FamilyStep \/ Stop \/ CycleError
  BY <1>2, FamilyStepOK
<1>3. CASE LoopNext /\ UNCHANGED fam
  BY <1>3, LoopNextOK DEF FamilyIInv
<1> QED
  BY <1>1, <1>2, <1>3 DEF FamilyNext

(* For any number of stores, families and retries: Deloox is visited after two other    *)
(* stores at the latest, and never before but for the repair after a start.             *)
THEOREM FamilyInvariant == FamilySpec => []FamilyInv
<1>1. FamilySpec => []FamilyIInv
  BY FamilyInitOK, FamilyNextOK, PTL DEF FamilySpec
<1> QED
  BY <1>1, FamilyIInvImplies, PTL

--------------------------------------------------------------------------------
(* Proofs about the baseline jobs. Phase0Inv is not inductive: it also takes that a    *)
(* job held by a worker was claimed by it and never queued again, that a beat is in     *)
(* flight only while its job is exported or about to end, that an export that went      *)
(* well has its file, and that no old job is queued once a worker polls.               *)

Jobs == Baselines \cup Smokes
Exporting == {"claimed", "exporting", "ending", "finishing"}
Busy(e) == e.at \in Exporting \cup {"smoking"}

ExporterRow ==
  {e \in [at : ExporterStates, job : Jobs \cup {NoBaseline}, stores : 0 .. NStores,
          pulse : 0 .. NStores + 1, ok : BOOLEAN] :
     /\ e.at \in {"down", "boot", "polling"} => e.job = NoBaseline
     /\ e.at = "peeked" => e.job \in Jobs
     /\ e.at \in Exporting => e.job \in Baselines
     /\ e.at = "smoking" => e.job \in Smokes
     /\ e.pulse > 0 => e.at \in {"exporting", "ending"}
     /\ e.ok => e.at \in {"ending", "finishing"} /\ e.stores = NStores}

\* What a worker relies on of the row of its job.
Holds(w, e, row, files) ==
  /\ row.by = w /\ row.status \in {"running", "completed", "failed"} /\ ~row.old
  /\ e.at # "finishing" => row.status # "completed"
  /\ e.ok => e.job \in files

Whole(j, row, files) ==
  row.status = "completed" => j \in files /\ (j \in Baselines => row.processed = NStores)

Up(e) == e.at \notin {"down", "boot"}

Phase0IInv ==
  /\ baseline \in [Jobs -> JobRow]
  /\ csv \subseteq Jobs
  /\ exporter \in [Exporters -> ExporterRow]
  /\ \A w \in Exporters : Busy(exporter[w]) => Holds(w, exporter[w], baseline[exporter[w].job], csv)
  /\ \A j \in Jobs : Whole(j, baseline[j], csv)
  /\ \A w \in Exporters : Up(exporter[w]) =>
       \A j \in Jobs : baseline[j].status = "queued" => ~baseline[j].old

LEMMA ExporterFacts ==
  ASSUME Phase0IInv, NEW w \in Exporters
  PROVE  /\ exporter[w] \in ExporterRow
         /\ exporter[w] \in [at : ExporterStates, job : Jobs \cup {NoBaseline}, stores : 0 .. NStores,
                             pulse : 0 .. NStores + 1, ok : BOOLEAN]
         /\ exporter[w].at \in {"down", "boot", "polling"} => exporter[w].job = NoBaseline
         /\ exporter[w].at = "peeked" => exporter[w].job \in Jobs
         /\ exporter[w].at \in Exporting => exporter[w].job \in Baselines
         /\ exporter[w].at = "smoking" => exporter[w].job \in Smokes
         /\ exporter[w].pulse > 0 => exporter[w].at \in {"exporting", "ending"}
         /\ exporter[w].ok => exporter[w].at \in {"ending", "finishing"} /\ exporter[w].stores = NStores
         /\ Busy(exporter[w]) => /\ exporter[w].job \in Jobs
                                 /\ Holds(w, exporter[w], baseline[exporter[w].job], csv)
  BY DEF Phase0IInv, ExporterRow, Busy, Jobs

\* The inductive invariant implies the one the runs check.
LEMMA Phase0IInvImplies == Phase0IInv => Phase0Inv
<1> SUFFICES ASSUME Phase0IInv PROVE Phase0Inv
  OBVIOUS
<1>1. Phase0Type
  BY DEF Phase0Type, Phase0IInv, ExporterRow, Jobs
<1>2. CompletedIsWhole
  BY DEF CompletedIsWhole, Phase0IInv, Whole, Jobs
<1>3. ASSUME NEW w \in Exporters, NEW j \in Jobs, Works(w, j)
      PROVE  Busy(exporter[w]) /\ exporter[w].job = j
  BY <1>3, ExporterFacts, Phase0Assumption DEF Works, Busy, Exporting, ExporterStates, Jobs
<1>4. JobHasOneWorker
  BY <1>3, ExporterFacts DEF JobHasOneWorker, Holds, Jobs
<1>5. NoOldScope
  BY <1>3, ExporterFacts DEF NoOldScope, Holds, Jobs
<1> QED
  BY <1>1, <1>2, <1>4, <1>5 DEF Phase0Inv

LEMMA Idle ==
  /\ IdleExporter \in ExporterRow /\ ~Busy(IdleExporter) /\ ~Up(IdleExporter)
  /\ \A at \in {"boot", "polling"} :
       /\ [IdleExporter EXCEPT !.at = at] \in ExporterRow
       /\ ~Busy([IdleExporter EXCEPT !.at = at])
<1>1. 0 \in 0 .. NStores /\ 0 \in 0 .. NStores + 1
  BY Phase0Assumption
<1>2. /\ IdleExporter \in [at : ExporterStates, job : Jobs \cup {NoBaseline}, stores : 0 .. NStores,
                          pulse : 0 .. NStores + 1, ok : BOOLEAN]
      /\ IdleExporter.at = "down" /\ IdleExporter.job = NoBaseline /\ IdleExporter.pulse = 0
      /\ ~IdleExporter.ok
  BY <1>1 DEF IdleExporter, ExporterStates
<1>3. ASSUME NEW at \in {"boot", "polling"}
      PROVE  [IdleExporter EXCEPT !.at = at] \in ExporterRow /\ ~Busy([IdleExporter EXCEPT !.at = at])
  <2> DEFINE e == [IdleExporter EXCEPT !.at = at]
  <2>1. /\ e \in [at : ExporterStates, job : Jobs \cup {NoBaseline}, stores : 0 .. NStores,
                  pulse : 0 .. NStores + 1, ok : BOOLEAN]
        /\ e.at = at /\ e.job = NoBaseline /\ e.pulse = 0 /\ ~e.ok
    BY <1>2 DEF ExporterStates
  <2> HIDE DEF e
  <2>2. e \in ExporterRow /\ ~Busy(e)
    BY <2>1 DEF ExporterRow, Exporting, Busy
  <2> QED
    BY <2>2 DEF e
<1> QED
  BY <1>2, <1>3 DEF ExporterRow, Exporting, Busy, Up

-----------------------------------------------------------------------------
\* A step of a worker that touches one job, which no other worker holds.
LEMMA OneJob ==
  ASSUME Phase0IInv, NEW w \in Exporters, NEW e \in ExporterRow, NEW j \in Jobs, NEW row \in JobRow,
         exporter' = [exporter EXCEPT ![w] = e], baseline' = [baseline EXCEPT ![j] = row],
         csv \subseteq csv', csv' \subseteq Jobs,
         \A v \in Exporters \ {w} : Busy(exporter[v]) => exporter[v].job # j,
         Busy(e) => e.job = j /\ Holds(w, e, row, csv'), Whole(j, row, csv'),
         row.status # "queued", Up(e) => Up(exporter[w])
  PROVE  Phase0IInv'
<1>1. /\ \A v \in Exporters : exporter'[v] = IF v = w THEN e ELSE exporter[v]
      /\ \A i \in Jobs : baseline'[i] = IF i = j THEN row ELSE baseline[i]
      /\ baseline' \in [Jobs -> JobRow] /\ exporter' \in [Exporters -> ExporterRow]
  BY DEF Phase0IInv
<1>2. ASSUME NEW v \in Exporters, Busy(exporter'[v])
      PROVE  Holds(v, exporter'[v], baseline'[exporter'[v].job], csv')
  <2>1. CASE v = w
    BY <1>1, <1>2, <2>1
  <2>2. CASE v # w
    <3>1. exporter'[v] = exporter[v] /\ exporter[v].job \in Jobs /\ exporter[v].job # j
          /\ Holds(v, exporter[v], baseline[exporter[v].job], csv)
      BY <1>1, <1>2, <2>2, ExporterFacts
    <3>2. baseline'[exporter[v].job] = baseline[exporter[v].job]
      BY <1>1, <3>1
    <3> QED
      BY <3>1, <3>2 DEF Holds
  <2> QED
    BY <2>1, <2>2
<1>3. ASSUME NEW i \in Jobs PROVE Whole(i, baseline'[i], csv')
  BY <1>1 DEF Phase0IInv, Whole
<1>4. ASSUME NEW v \in Exporters, Up(exporter'[v]), NEW i \in Jobs, baseline'[i].status = "queued"
      PROVE  ~baseline'[i].old
  <2>1. baseline'[i] = baseline[i] /\ Up(exporter[v])
    BY <1>1, <1>4
  <2> QED
    BY <1>4, <2>1 DEF Phase0IInv
<1> QED
  BY <1>1, <1>2, <1>3, <1>4 DEF Phase0IInv

\* A step of a worker that touches no row.
LEMMA NoJob ==
  ASSUME Phase0IInv, NEW w \in Exporters, NEW e \in ExporterRow,
         exporter' = [exporter EXCEPT ![w] = e], baseline' = baseline,
         csv \subseteq csv', csv' \subseteq Jobs,
         Busy(e) => Holds(w, e, baseline[e.job], csv'), Up(e) => Up(exporter[w])
  PROVE  Phase0IInv'
<1>1. /\ \A v \in Exporters : exporter'[v] = IF v = w THEN e ELSE exporter[v]
      /\ exporter' \in [Exporters -> ExporterRow]
  BY DEF Phase0IInv
<1>2. ASSUME NEW v \in Exporters, Busy(exporter'[v])
      PROVE  Holds(v, exporter'[v], baseline'[exporter'[v].job], csv')
  BY <1>1, <1>2, ExporterFacts DEF Holds
<1>3. ASSUME NEW i \in Jobs PROVE Whole(i, baseline'[i], csv')
  BY DEF Phase0IInv, Whole
<1> QED
  BY <1>1, <1>2, <1>3 DEF Phase0IInv

\* What happens to the rows without a worker: a job is failed, aged or upgraded.
Milder(new, old) ==
  /\ new.by = old.by /\ new.processed = old.processed /\ (new.old => old.old)
  /\ new.status = old.status \/ (old.status = "running" /\ new.status = "failed")

LEMMA AllJobs ==
  ASSUME Phase0IInv, baseline' \in [Jobs -> JobRow], csv' = csv,
         \A j \in Jobs : Milder(baseline'[j], baseline[j]), exporter' = exporter
  PROVE  Phase0IInv'
<1>1. ASSUME NEW v \in Exporters, Busy(exporter'[v])
      PROVE  Holds(v, exporter'[v], baseline'[exporter'[v].job], csv')
  <2>1. exporter[v].job \in Jobs /\ Holds(v, exporter[v], baseline[exporter[v].job], csv)
    BY <1>1, ExporterFacts
  <2>2. Milder(baseline'[exporter[v].job], baseline[exporter[v].job])
    BY <2>1
  <2> QED
    BY <2>1, <2>2 DEF Holds, Milder
<1>2. ASSUME NEW i \in Jobs PROVE Whole(i, baseline'[i], csv')
  BY DEF Phase0IInv, Whole, Milder
<1>3. ASSUME NEW v \in Exporters, Up(exporter'[v]), NEW i \in Jobs, baseline'[i].status = "queued"
      PROVE  ~baseline'[i].old
  BY <1>3 DEF Phase0IInv, Milder
<1> QED
  BY <1>1, <1>2, <1>3 DEF Phase0IInv

\* No two workers hold a job.
LEMMA HeldByOne ==
  ASSUME Phase0IInv, NEW w \in Exporters, Busy(exporter[w])
  PROVE  \A v \in Exporters \ {w} : Busy(exporter[v]) => exporter[v].job # exporter[w].job
  BY ExporterFacts DEF Holds

LEMMA RowFacts ==
  ASSUME Phase0IInv, NEW j \in Jobs
  PROVE  baseline[j] \in JobRow /\ Whole(j, baseline[j], csv)
  BY DEF Phase0IInv

-----------------------------------------------------------------------------
LEMMA SchemaMilder ==
  ASSUME Phase0IInv
  PROVE  /\ SchemaEnsured \in [Jobs -> JobRow]
         /\ \A j \in Jobs : Milder(SchemaEnsured[j], baseline[j])
         /\ \A j \in Jobs : SchemaEnsured[j].status = "queued" => ~SchemaEnsured[j].old
<1>1. ASSUME NEW j \in Jobs
      PROVE  /\ SchemaEnsured[j] \in JobRow /\ Milder(SchemaEnsured[j], baseline[j])
             /\ SchemaEnsured[j].status = "queued" => ~SchemaEnsured[j].old
  <2>1. baseline[j] \in JobRow
    BY RowFacts
  <2>2. CASE baseline[j].status = "running" /\ baseline[j].old
    <3> DEFINE row == [baseline[j] EXCEPT !.status = "failed"]
    <3>1. SchemaEnsured[j] = row
      BY <2>2 DEF SchemaEnsured, Jobs
    <3>2. /\ row \in JobRow /\ row.by = baseline[j].by /\ row.processed = baseline[j].processed
          /\ row.status = "failed" /\ row.old = baseline[j].old
      BY <2>1 DEF JobRow, JobStates
    <3> HIDE DEF row
    <3> QED
      BY <2>2, <3>1, <3>2 DEF Milder
  <2>3. CASE baseline[j].status = "queued"
    <3> DEFINE row == [baseline[j] EXCEPT !.old = FALSE]
    <3>1. SchemaEnsured[j] = row
      BY <2>3 DEF SchemaEnsured, Jobs
    <3>2. /\ row \in JobRow /\ row.by = baseline[j].by /\ row.processed = baseline[j].processed
          /\ row.status = baseline[j].status /\ row.old = FALSE
      BY <2>1 DEF JobRow, JobStates
    <3> HIDE DEF row
    <3> QED
      BY <2>3, <3>1, <3>2 DEF Milder
  <2>4. CASE ~(baseline[j].status = "running" /\ baseline[j].old) /\ baseline[j].status # "queued"
    <3>1. SchemaEnsured[j] = baseline[j]
      BY <2>4 DEF SchemaEnsured, Jobs
    <3> QED
      BY <2>1, <2>4, <3>1 DEF Milder
  <2> QED
    BY <2>2, <2>3, <2>4
<1>2. SchemaEnsured \in [Jobs -> JobRow]
  BY <1>1 DEF SchemaEnsured, Jobs
<1> QED
  BY <1>1, <1>2

LEMMA CreateJobOK ==
  ASSUME Phase0IInv, NEW i \in Jobs, CreateJob(i) PROVE Phase0IInv'
<1>1. QueuedRow \in JobRow /\ QueuedRow.status = "queued" /\ ~QueuedRow.old
  BY Phase0Assumption DEF QueuedRow, JobRow, JobStates
<1>2. baseline' \in [Jobs -> JobRow] /\ csv' = csv /\ exporter' = exporter
  BY <1>1 DEF CreateJob, Phase0IInv
<1>3. \A j \in Jobs : baseline'[j] = IF j = i THEN QueuedRow ELSE baseline[j]
  BY DEF CreateJob, Phase0IInv
<1>4. ASSUME NEW w \in Exporters, Busy(exporter[w])
      PROVE  Holds(w, exporter[w], baseline'[exporter[w].job], csv)
  <2>1. exporter[w].job \in Jobs /\ Holds(w, exporter[w], baseline[exporter[w].job], csv)
    BY <1>4, ExporterFacts
  <2>2. exporter[w].job # i
    BY <2>1 DEF CreateJob, Holds
  <2> QED
    BY <1>3, <2>1, <2>2
<1>5. \A j \in Jobs : Whole(j, baseline'[j], csv)
  BY <1>1, <1>3 DEF Phase0IInv, Whole
<1>6. ASSUME NEW w \in Exporters, Up(exporter[w]), NEW j \in Jobs, baseline'[j].status = "queued"
      PROVE  ~baseline'[j].old
  BY <1>1, <1>3, <1>6 DEF Phase0IInv
<1> QED
  BY <1>2, <1>4, <1>5, <1>6 DEF Phase0IInv

LEMMA WebStartupOK ==
  ASSUME Phase0IInv, WebStartup PROVE Phase0IInv'
<1>1. baseline' = SchemaEnsured /\ csv' = csv /\ exporter' = exporter
  BY DEF WebStartup
<1> QED
  BY <1>1, SchemaMilder, AllJobs

\* After the schema is ensured no old job is queued: the worker may poll.
LEMMA EnsureSchemaOK ==
  ASSUME Phase0IInv, NEW w \in Exporters, EnsureSchema(w) PROVE Phase0IInv'
<1> DEFINE e == [exporter[w] EXCEPT !.at = "polling"]
<1>1. baseline' = SchemaEnsured /\ csv' = csv /\ exporter' = [exporter EXCEPT ![w] = e]
  BY DEF EnsureSchema, To, Phase0IInv
<1>2. /\ e \in [at : ExporterStates, job : Jobs \cup {NoBaseline}, stores : 0 .. NStores,
                pulse : 0 .. NStores + 1, ok : BOOLEAN]
      /\ e.at = "polling" /\ e.job = NoBaseline /\ ~(e.pulse > 0) /\ ~e.ok
  BY ExporterFacts DEF EnsureSchema, At, ExporterStates
<1> HIDE DEF e
<1>3. e \in ExporterRow /\ ~Busy(e)
  BY <1>2 DEF ExporterRow, Exporting, Busy
<1>4. /\ \A v \in Exporters : exporter'[v] = IF v = w THEN e ELSE exporter[v]
      /\ exporter' \in [Exporters -> ExporterRow]
  BY <1>1, <1>3 DEF Phase0IInv
<1>5. ASSUME NEW v \in Exporters, Busy(exporter'[v])
      PROVE  Holds(v, exporter'[v], baseline'[exporter'[v].job], csv')
  <2>1. /\ exporter'[v] = exporter[v] /\ exporter[v].job \in Jobs
        /\ Holds(v, exporter[v], baseline[exporter[v].job], csv)
    BY <1>3, <1>4, <1>5, ExporterFacts
  <2>2. Milder(baseline'[exporter[v].job], baseline[exporter[v].job])
    BY <1>1, <2>1, SchemaMilder
  <2> QED
    BY <1>1, <2>1, <2>2 DEF Holds, Milder
<1>6. ASSUME NEW i \in Jobs PROVE Whole(i, baseline'[i], csv')
  <2>1. Milder(baseline'[i], baseline[i])
    BY <1>1, SchemaMilder
  <2> QED
    BY <1>1, <2>1, RowFacts DEF Whole, Milder
<1>7. \A i \in Jobs : baseline'[i].status = "queued" => ~baseline'[i].old
  BY <1>1, SchemaMilder
<1>8. baseline' \in [Jobs -> JobRow] /\ csv' \subseteq Jobs
  BY <1>1, SchemaMilder DEF Phase0IInv
<1> QED
  BY <1>4, <1>5, <1>6, <1>7, <1>8 DEF Phase0IInv

LEMMA RecoverStaleJobsOK ==
  ASSUME Phase0IInv, NEW w \in Exporters, RecoverStaleJobs(w) PROVE Phase0IInv'
<1>1. ASSUME NEW j \in Jobs PROVE baseline'[j] \in JobRow /\ Milder(baseline'[j], baseline[j])
  <2> DEFINE row == [baseline[j] EXCEPT !.status = "failed"]
  <2>1. baseline'[j] = IF Expired(j) THEN row ELSE baseline[j]
    BY DEF RecoverStaleJobs, Jobs
  <2>2. /\ row \in JobRow /\ row.by = baseline[j].by /\ row.processed = baseline[j].processed
        /\ row.status = "failed" /\ row.old = baseline[j].old
    BY RowFacts DEF JobRow, JobStates
  <2> HIDE DEF row
  <2> QED
    BY <2>1, <2>2, RowFacts DEF Expired, Milder
<1>2. baseline' \in [Jobs -> JobRow] /\ csv' = csv /\ exporter' = exporter
  BY <1>1 DEF RecoverStaleJobs, Jobs
<1> QED
  BY <1>1, <1>2, AllJobs

LEMMA Phase0TickOK ==
  ASSUME Phase0IInv, Phase0Tick PROVE Phase0IInv'
<1>1. ASSUME NEW j \in Jobs PROVE baseline'[j] \in JobRow /\ Milder(baseline'[j], baseline[j])
  <2> DEFINE row == [baseline[j] EXCEPT !.beat = baseline[j].beat + 1]
             ages == baseline[j].status = "running" /\ baseline[j].beat < StaleAfter
  <2>1. baseline'[j] = IF ages THEN row ELSE baseline[j]
    BY DEF Phase0Tick, Jobs
  <2>2. /\ ages => row \in JobRow
        /\ row.by = baseline[j].by /\ row.processed = baseline[j].processed
        /\ row.status = baseline[j].status /\ row.old = baseline[j].old
    BY RowFacts, Phase0Assumption DEF JobRow
  <2> HIDE DEF row, ages
  <2> QED
    BY <2>1, <2>2, RowFacts DEF Milder
<1>2. baseline' \in [Jobs -> JobRow] /\ csv' = csv /\ exporter' = exporter
  BY <1>1 DEF Phase0Tick, Jobs
<1> QED
  BY <1>1, <1>2, AllJobs

-----------------------------------------------------------------------------
(* The steps of a worker. *)
LEMMA ToIdle ==
  ASSUME Phase0IInv, NEW w \in Exporters, baseline' = baseline, csv' = csv,
         \/ exporter' = [exporter EXCEPT ![w] = IdleExporter]
         \/ LoopError(w)
         \/ Up(exporter[w]) /\ Polling(w)
  PROVE  Phase0IInv'
<1>1. csv \subseteq csv' /\ csv' \subseteq Jobs
  BY DEF Phase0IInv
<1>2. CASE exporter' = [exporter EXCEPT ![w] = IdleExporter]
  BY <1>1, <1>2, Idle, NoJob
<1>3. CASE LoopError(w)
  <2>1. ~Up([IdleExporter EXCEPT !.at = "boot"])
    BY DEF IdleExporter, Up
  <2> QED
    BY <1>1, <1>3, <2>1, Idle, NoJob DEF LoopError
<1>4. CASE Up(exporter[w]) /\ Polling(w)
  BY <1>1, <1>4, Idle, NoJob DEF Polling
<1> QED
  BY <1>2, <1>3, <1>4

\* The worker moves on and keeps what it holds.
LEMMA ToStage ==
  ASSUME Phase0IInv, NEW w \in Exporters, NEW stage \in ExporterStates, To(w, stage),
         baseline' = baseline, csv' = csv, ~exporter[w].ok \/ stage = "finishing",
         exporter[w].pulse > 0 => stage = "ending",
         \/ exporter[w].at = "down" /\ stage = "boot"
         \/ exporter[w].at \in {"claimed", "exporting", "ending"} /\ stage \in Exporting
  PROVE  Phase0IInv'
<1> DEFINE e == [exporter[w] EXCEPT !.at = stage]
<1>1. exporter' = [exporter EXCEPT ![w] = e]
  BY DEF To, Phase0IInv
<1>2. /\ e \in [at : ExporterStates, job : Jobs \cup {NoBaseline}, stores : 0 .. NStores,
                pulse : 0 .. NStores + 1, ok : BOOLEAN]
      /\ e.at = stage /\ e.job = exporter[w].job /\ e.pulse = exporter[w].pulse
      /\ e.ok = exporter[w].ok /\ e.stores = exporter[w].stores
  BY ExporterFacts
<1> HIDE DEF e
<1>3. e \in ExporterRow
  <2>1. CASE exporter[w].at = "down" /\ stage = "boot"
    BY <1>2, <2>1, ExporterFacts DEF ExporterRow, Exporting
  <2>2. CASE exporter[w].at \in {"claimed", "exporting", "ending"} /\ stage \in Exporting
    BY <1>2, <2>2, ExporterFacts DEF ExporterRow, Exporting
  <2> QED
    BY <2>1, <2>2
<1>4. Busy(e) => Holds(w, e, baseline[e.job], csv')
  BY <1>2, ExporterFacts DEF Holds, Busy, Exporting
<1>5. Up(e) => Up(exporter[w])
  BY <1>2 DEF Up, Exporting
<1> QED
  BY <1>1, <1>3, <1>4, <1>5, NoJob DEF Phase0IInv

LEMMA MovesOK ==
  ASSUME Phase0IInv, NEW w \in Exporters,
         StartExporter(w) \/ StartExport(w) \/ StopPulse(w) \/ ExportRaises(w)
  PROVE  Phase0IInv'
<1>1. exporter[w].pulse \in 0 .. NStores + 1 /\ exporter[w].ok \in BOOLEAN
  BY ExporterFacts
<1>2. CASE StartExporter(w)
  BY <1>1, <1>2, ExporterFacts, ToStage DEF StartExporter, At, ExporterStates
<1>3. CASE StartExport(w)
  BY <1>1, <1>3, ExporterFacts, ToStage DEF StartExport, At, ExporterStates, Exporting
<1>4. CASE StopPulse(w)
  BY <1>1, <1>4, ExporterFacts, ToStage DEF StopPulse, Joined, At, ExporterStates, Exporting
<1>5. CASE ExportRaises(w)
  BY <1>1, <1>5, ExporterFacts, ToStage DEF ExportRaises, At, ExporterStates, Exporting
<1> QED
  BY <1>2, <1>3, <1>4, <1>5

LEMMA PeekOK ==
  ASSUME Phase0IInv, NEW w \in Exporters, Peek(w) PROVE Phase0IInv'
<1>1. PICK j \in Jobs : exporter' = [exporter EXCEPT ![w].at = "peeked", ![w].job = j]
  BY DEF Peek, Queued, Jobs
<1> DEFINE e == [exporter[w] EXCEPT !.at = "peeked", !.job = j]
<1>2. exporter' = [exporter EXCEPT ![w] = e]
  BY <1>1 DEF Phase0IInv
<1>3. /\ e \in [at : ExporterStates, job : Jobs \cup {NoBaseline}, stores : 0 .. NStores,
                pulse : 0 .. NStores + 1, ok : BOOLEAN]
      /\ e.at = "peeked" /\ e.job = j /\ ~(e.pulse > 0) /\ ~e.ok
  BY ExporterFacts DEF Peek, At, ExporterStates
<1> HIDE DEF e
<1>4. e \in ExporterRow /\ ~Busy(e)
  BY <1>3 DEF ExporterRow, Exporting, Busy
<1>5. Up(exporter[w])
  BY DEF Peek, At, Up
<1> QED
  BY <1>2, <1>4, <1>5, NoJob DEF Peek, Phase0IInv

LEMMA Ages == 0 \in 0 .. StaleAfter /\ StaleAfter \in 0 .. StaleAfter /\ 0 \in 0 .. NStores
  BY Phase0Assumption

\* The rows that a worker writes.
ClaimedRow(row, w) == [row EXCEPT !.status = "running", !.by = w, !.beat = 0, !.processed = 0]
BeatenRow(row, n) == [row EXCEPT !.beat = 0, !.processed = n]
EndedRow(row, status, n) == [row EXCEPT !.status = status, !.beat = 0, !.processed = n]

LEMMA ClaimedRowOK ==
  ASSUME NEW row \in JobRow, NEW w \in Exporters
  PROVE  /\ ClaimedRow(row, w) \in JobRow /\ ClaimedRow(row, w).by = w
         /\ ClaimedRow(row, w).status = "running" /\ ClaimedRow(row, w).old = row.old
  BY Ages DEF ClaimedRow, JobRow, JobStates

LEMMA BeatenRowOK ==
  ASSUME NEW row \in JobRow, NEW n \in 0 .. NStores
  PROVE  /\ BeatenRow(row, n) \in JobRow /\ BeatenRow(row, n).by = row.by
         /\ BeatenRow(row, n).status = row.status /\ BeatenRow(row, n).old = row.old
  BY Ages DEF BeatenRow, JobRow

LEMMA EndedRowOK ==
  ASSUME NEW row \in JobRow, NEW n \in 0 .. NStores, NEW status \in JobStates
  PROVE  /\ EndedRow(row, status, n) \in JobRow /\ EndedRow(row, status, n).by = row.by
         /\ EndedRow(row, status, n).status = status /\ EndedRow(row, status, n).old = row.old
         /\ EndedRow(row, status, n).processed = n
  BY Ages DEF EndedRow, JobRow

\* The claim takes a queued job, which nobody holds, and never an old one.
LEMMA ClaimJobOK ==
  ASSUME Phase0IInv, NEW w \in Exporters, ClaimJob(w) PROVE Phase0IInv'
<1> DEFINE j == exporter[w].job
           stage == IF j \in Smokes THEN "smoking" ELSE "claimed"
           e == [exporter[w] EXCEPT !.at = stage]
           row == ClaimedRow(baseline[j], w)
<1>1. j \in Jobs /\ baseline[j] \in JobRow /\ Up(exporter[w])
  BY ExporterFacts, RowFacts DEF ClaimJob, At, Up
<1>2. CASE baseline[j].status # "queued"
  BY <1>1, <1>2, ToIdle DEF ClaimJob
<1>3. CASE baseline[j].status = "queued"
  <2>1. exporter' = [exporter EXCEPT ![w] = e] /\ baseline' = [baseline EXCEPT ![j] = row] /\ csv' = csv
    BY <1>1, <1>3 DEF ClaimJob, To, Phase0IInv, ClaimedRow
  <2>2. /\ e \in [at : ExporterStates, job : Jobs \cup {NoBaseline}, stores : 0 .. NStores,
                pulse : 0 .. NStores + 1, ok : BOOLEAN]
        /\ e.at = stage /\ e.job = j /\ ~(e.pulse > 0) /\ ~e.ok
    BY ExporterFacts DEF ClaimJob, At, ExporterStates
  <2>3. /\ row \in JobRow /\ row.by = w /\ row.status = "running" /\ row.old = baseline[j].old
    BY <1>1, ClaimedRowOK
  <2>4. ~baseline[j].old
    BY <1>1, <1>3 DEF Phase0IInv
  <2>5. \A v \in Exporters \ {w} : Busy(exporter[v]) => exporter[v].job # j
    BY <1>3, ExporterFacts DEF Holds
  <2>6. (stage = "smoking" /\ j \in Smokes) \/ (stage = "claimed" /\ j \in Baselines)
    BY <1>1 DEF Jobs
  <2> HIDE DEF e, row, stage, j
  <2>7. e \in ExporterRow
    BY <1>1, <2>2, <2>6 DEF ExporterRow, Exporting
  <2>8. Holds(w, e, row, csv') /\ Whole(j, row, csv')
    BY <2>2, <2>3, <2>4, <2>6 DEF Holds, Whole
  <2> QED
    BY <1>1, <2>1, <2>2, <2>3, <2>5, <2>7, <2>8, OneJob DEF Phase0IInv
<1> QED
  BY <1>2, <1>3

\* A beat of a job that its worker has not closed.
LEMMA BeatOK ==
  ASSUME Phase0IInv, NEW w \in Exporters, NEW e \in ExporterRow, NEW n \in 0 .. NStores,
         exporter[w].at \in {"exporting", "ending"}, e.at = exporter[w].at,
         e.job = exporter[w].job, e.ok = exporter[w].ok,
         exporter' = [exporter EXCEPT ![w] = e], baseline' = Beaten(w, n), csv' = csv
  PROVE  Phase0IInv'
<1> DEFINE j == exporter[w].job
           row == BeatenRow(baseline[j], n)
<1>1. /\ Busy(exporter[w]) /\ Up(exporter[w]) /\ j \in Jobs /\ baseline[j] \in JobRow
      /\ Holds(w, exporter[w], baseline[j], csv)
  BY ExporterFacts, RowFacts DEF Busy, Exporting, Up
<1>2. baseline' = [baseline EXCEPT ![j] = row]
  BY DEF Beaten, BeatenRow
<1>3. /\ row \in JobRow /\ row.by = baseline[j].by
      /\ row.status = baseline[j].status /\ row.old = baseline[j].old
  BY <1>1, BeatenRowOK
<1>4. \A v \in Exporters \ {w} : Busy(exporter[v]) => exporter[v].job # j
  BY <1>1, HeldByOne
<1>5. Holds(w, e, row, csv') /\ Whole(j, row, csv') /\ row.status # "queued"
  BY <1>1, <1>3 DEF Holds, Whole
<1>6. csv \subseteq csv' /\ csv' \subseteq Jobs
  BY DEF Phase0IInv
<1> HIDE DEF row, j
<1> QED
  BY <1>1, <1>2, <1>3, <1>4, <1>5, <1>6, OneJob DEF j

LEMMA StoreStartsOK ==
  ASSUME Phase0IInv, NEW w \in Exporters, StoreStarts(w) PROVE Phase0IInv'
<1>1. exporter' = [exporter EXCEPT ![w] = exporter[w]]
  BY DEF StoreStarts, Phase0IInv
<1>2. exporter[w] \in ExporterRow /\ exporter[w].stores \in 0 .. NStores /\ exporter[w].at = "exporting"
  BY ExporterFacts DEF StoreStarts, At
<1> QED
  BY <1>1, <1>2, BeatOK DEF StoreStarts

LEMMA StoreEndsOK ==
  ASSUME Phase0IInv, NEW w \in Exporters, StoreEnds(w) PROVE Phase0IInv'
<1> DEFINE n == exporter[w].stores + 1
           e == [exporter[w] EXCEPT !.stores = n]
<1>1. n \in 0 .. NStores /\ exporter[w].at = "exporting"
  BY ExporterFacts, Phase0Assumption DEF StoreEnds, At
<1>2. exporter' = [exporter EXCEPT ![w] = e] /\ baseline' = Beaten(w, n) /\ csv' = csv
  BY DEF StoreEnds, Phase0IInv
<1> HIDE DEF n
<1>3. /\ e \in [at : ExporterStates, job : Jobs \cup {NoBaseline}, stores : 0 .. NStores,
                pulse : 0 .. NStores + 1, ok : BOOLEAN]
      /\ e.at = exporter[w].at /\ e.job = exporter[w].job /\ e.pulse = exporter[w].pulse
      /\ e.ok = exporter[w].ok
  BY <1>1, ExporterFacts
<1> HIDE DEF e
<1>4. e \in ExporterRow
  BY <1>1, <1>3, ExporterFacts DEF ExporterRow, Exporting
<1> QED
  BY <1>1, <1>2, <1>3, <1>4, BeatOK

LEMMA PulseReadsOK ==
  ASSUME Phase0IInv, NEW w \in Exporters, PulseReads(w) PROVE Phase0IInv'
<1> DEFINE n == exporter[w].stores + 1
           e == [exporter[w] EXCEPT !.pulse = n]
<1>1. n \in 0 .. NStores + 1 /\ exporter[w].at = "exporting"
  BY ExporterFacts, Phase0Assumption DEF PulseReads, At
<1>2. exporter' = [exporter EXCEPT ![w] = e] /\ baseline' = baseline /\ csv' = csv
  BY DEF PulseReads, Phase0IInv
<1> HIDE DEF n
<1>3. /\ e \in [at : ExporterStates, job : Jobs \cup {NoBaseline}, stores : 0 .. NStores,
                pulse : 0 .. NStores + 1, ok : BOOLEAN]
      /\ e.at = exporter[w].at /\ e.job = exporter[w].job /\ e.ok = exporter[w].ok
  BY <1>1, ExporterFacts
<1> HIDE DEF e
<1>4. e \in ExporterRow
  BY <1>1, <1>3, ExporterFacts DEF ExporterRow, Exporting
<1>5. Holds(w, e, baseline[e.job], csv') /\ Up(exporter[w])
  BY <1>1, <1>2, <1>3, ExporterFacts DEF Holds, Busy, Exporting, Up
<1> QED
  BY <1>2, <1>4, <1>5, NoJob DEF Phase0IInv

\* A late beat finds the job as its worker left it: the join comes before the close.
LEMMA PulseWritesOK ==
  ASSUME Phase0IInv, NEW w \in Exporters, PulseWrites(w) PROVE Phase0IInv'
<1> DEFINE n == exporter[w].pulse - 1
           e == [exporter[w] EXCEPT !.pulse = 0]
<1>1. n \in 0 .. NStores /\ exporter[w].at \in {"exporting", "ending"}
  <2>1. exporter[w].pulse \in 0 .. NStores + 1 /\ exporter[w].pulse > 0
    BY ExporterFacts DEF PulseWrites
  <2> QED
    BY <2>1, ExporterFacts, Phase0Assumption
<1>2. exporter' = [exporter EXCEPT ![w] = e] /\ baseline' \in {baseline, Beaten(w, n)} /\ csv' = csv
  BY DEF PulseWrites, Phase0IInv
<1> HIDE DEF n
<1>3. /\ e \in [at : ExporterStates, job : Jobs \cup {NoBaseline}, stores : 0 .. NStores,
                pulse : 0 .. NStores + 1, ok : BOOLEAN]
      /\ e.at = exporter[w].at /\ e.job = exporter[w].job /\ e.ok = exporter[w].ok
      /\ e.pulse = 0 /\ e.stores = exporter[w].stores
  BY Phase0Assumption, ExporterFacts
<1> HIDE DEF e
<1>4. e \in ExporterRow
  BY <1>1, <1>3, ExporterFacts DEF ExporterRow, Exporting
<1>5. CASE baseline' = Beaten(w, n)
  BY <1>1, <1>2, <1>3, <1>4, <1>5, BeatOK
<1>6. CASE baseline' = baseline
  <2>1. Holds(w, e, baseline[e.job], csv') /\ Up(exporter[w])
    BY <1>1, <1>2, <1>3, ExporterFacts DEF Holds, Busy, Exporting, Up
  <2> QED
    BY <1>2, <1>4, <1>6, <2>1, NoJob DEF Phase0IInv
<1> QED
  BY <1>2, <1>5, <1>6

LEMMA PublishOK ==
  ASSUME Phase0IInv, NEW w \in Exporters, Publish(w) PROVE Phase0IInv'
<1>1. PICK ok \in BOOLEAN : exporter' = [exporter EXCEPT ![w].at = "ending", ![w].ok = ok]
  BY DEF Publish
<1> DEFINE e == [exporter[w] EXCEPT !.at = "ending", !.ok = ok]
<1>2. exporter' = [exporter EXCEPT ![w] = e]
  BY <1>1 DEF Phase0IInv
<1>3. /\ e \in [at : ExporterStates, job : Jobs \cup {NoBaseline}, stores : 0 .. NStores,
                pulse : 0 .. NStores + 1, ok : BOOLEAN]
      /\ e.at = "ending" /\ e.job = exporter[w].job /\ e.ok = ok /\ e.stores = exporter[w].stores
  BY ExporterFacts DEF ExporterStates
<1> HIDE DEF e
<1>4. exporter[w].at = "exporting" /\ exporter[w].stores = NStores /\ exporter[w].job \in Baselines
  BY ExporterFacts DEF Publish, At, Exporting
<1>5. e \in ExporterRow
  BY <1>3, <1>4, ExporterFacts DEF ExporterRow, Exporting
<1>6. csv \subseteq csv' /\ csv' \subseteq Jobs /\ e.job \in csv'
  BY <1>3, <1>4 DEF Publish, Phase0IInv, Jobs
<1>7. Holds(w, e, baseline[e.job], csv') /\ Up(exporter[w])
  BY <1>3, <1>4, <1>6, ExporterFacts DEF Holds, Busy, Exporting, Up
<1> QED
  BY <1>2, <1>5, <1>6, <1>7, NoJob DEF Publish

\* A worker closes its job, completed only with its file and all its stores, and goes on
\* with a record e: idle, or about to fail the job it has just closed.
LEMMA CloseOK ==
  ASSUME Phase0IInv, NEW w \in Exporters, NEW e \in ExporterRow, NEW row \in JobRow,
         Busy(exporter[w]), exporter' = [exporter EXCEPT ![w] = e],
         baseline' = [baseline EXCEPT ![exporter[w].job] = row],
         csv \subseteq csv', csv' \subseteq Jobs,
         row.by = baseline[exporter[w].job].by, row.old = baseline[exporter[w].job].old,
         row.status \in {"completed", "failed"}, Whole(exporter[w].job, row, csv'),
         ~Busy(e) \/ (e.at = "finishing" /\ e.job = exporter[w].job /\ ~e.ok)
  PROVE  Phase0IInv'
<1>1. /\ exporter[w].job \in Jobs /\ Up(exporter[w])
      /\ Holds(w, exporter[w], baseline[exporter[w].job], csv)
  BY ExporterFacts DEF Busy, Exporting, Up
<1>2. \A v \in Exporters \ {w} : Busy(exporter[v]) => exporter[v].job # exporter[w].job
  BY HeldByOne
<1>3. Busy(e) => e.job = exporter[w].job /\ Holds(w, e, row, csv')
  BY <1>1 DEF Holds
<1> QED
  BY <1>1, <1>2, <1>3, OneJob

LEMMA LeftIdle ==
  ASSUME Phase0IInv, NEW w \in Exporters, Polling(w) \/ LoopError(w)
  PROVE  \E e \in ExporterRow : ~Busy(e) /\ exporter' = [exporter EXCEPT ![w] = e]
  BY Idle DEF Polling, LoopError

\* The row of Closed0.
ClosedRow(w, status) ==
  EndedRow(baseline[exporter[w].job], status,
           IF status = "completed" THEN exporter[w].stores ELSE baseline[exporter[w].job].processed)

LEMMA ClosedRowOK ==
  ASSUME Phase0IInv, NEW w \in Exporters, NEW status \in {"completed", "failed"},
         exporter[w].at = "finishing", status = "completed" => exporter[w].ok
  PROVE  /\ Closed0(w, status) = [baseline EXCEPT ![exporter[w].job] = ClosedRow(w, status)]
         /\ ClosedRow(w, status) \in JobRow
         /\ ClosedRow(w, status).by = baseline[exporter[w].job].by
         /\ ClosedRow(w, status).old = baseline[exporter[w].job].old
         /\ ClosedRow(w, status).status = status
         /\ Whole(exporter[w].job, ClosedRow(w, status), csv)
<1> DEFINE j == exporter[w].job
           n == IF status = "completed" THEN exporter[w].stores ELSE baseline[j].processed
<1>1. /\ j \in Jobs /\ baseline[j] \in JobRow /\ Holds(w, exporter[w], baseline[j], csv)
      /\ exporter[w].ok => exporter[w].stores = NStores
  BY ExporterFacts, RowFacts DEF Busy, Exporting
<1>2. n \in 0 .. NStores
  BY <1>1, ExporterFacts DEF JobRow
<1>3. status \in JobStates
  BY DEF JobStates
<1>4. ClosedRow(w, status) = EndedRow(baseline[j], status, n)
  BY DEF ClosedRow
<1>5. Closed0(w, status) = [baseline EXCEPT ![j] = EndedRow(baseline[j], status, n)]
  BY DEF Closed0, EndedRow
<1> HIDE DEF n
<1>6. /\ EndedRow(baseline[j], status, n) \in JobRow /\ EndedRow(baseline[j], status, n).by = baseline[j].by
      /\ EndedRow(baseline[j], status, n).status = status
      /\ EndedRow(baseline[j], status, n).old = baseline[j].old
      /\ EndedRow(baseline[j], status, n).processed = n
  BY <1>1, <1>2, <1>3, EndedRowOK
<1>7. Whole(j, EndedRow(baseline[j], status, n), csv)
  <2>1. status = "completed" => j \in csv /\ n = NStores
    BY <1>1 DEF Holds, n
  <2> QED
    BY <1>6, <2>1 DEF Whole
<1> QED
  BY <1>4, <1>5, <1>6, <1>7

LEMMA CompleteJobOK ==
  ASSUME Phase0IInv, NEW w \in Exporters, CompleteJob(w) PROVE Phase0IInv'
<1>1. exporter[w].at = "finishing" /\ exporter[w].ok /\ csv' = csv /\ csv \subseteq Jobs
  BY DEF CompleteJob, At, Phase0IInv
<1>2. Busy(exporter[w]) /\ Up(exporter[w]) /\ exporter[w].job \in Jobs
  BY <1>1, ExporterFacts DEF Busy, Exporting, Up
<1>3. /\ Closed0(w, "completed") = [baseline EXCEPT ![exporter[w].job] = ClosedRow(w, "completed")]
      /\ ClosedRow(w, "completed") \in JobRow
      /\ ClosedRow(w, "completed").by = baseline[exporter[w].job].by
      /\ ClosedRow(w, "completed").old = baseline[exporter[w].job].old
      /\ ClosedRow(w, "completed").status = "completed"
      /\ Whole(exporter[w].job, ClosedRow(w, "completed"), csv)
  BY <1>1, ClosedRowOK
<1> DEFINE e == [exporter[w] EXCEPT !.ok = FALSE]
<1>4. /\ e \in [at : ExporterStates, job : Jobs \cup {NoBaseline}, stores : 0 .. NStores,
                pulse : 0 .. NStores + 1, ok : BOOLEAN]
      /\ e.at = "finishing" /\ e.job = exporter[w].job /\ ~e.ok /\ e.pulse = exporter[w].pulse
  BY <1>1, ExporterFacts
<1> HIDE DEF e
<1>5. e \in ExporterRow
  BY <1>1, <1>4, ExporterFacts DEF ExporterRow, Exporting
<1>6. CASE baseline' = Closed0(w, "completed") /\ Polling(w)
  <2>1. PICK idle \in ExporterRow : ~Busy(idle) /\ exporter' = [exporter EXCEPT ![w] = idle]
    BY <1>6, LeftIdle
  <2> QED
    BY <1>1, <1>2, <1>3, <1>6, <2>1, CloseOK
<1>7. CASE baseline' = Closed0(w, "completed") /\ exporter' = [exporter EXCEPT ![w].ok = FALSE]
  <2>1. exporter' = [exporter EXCEPT ![w] = e]
    BY <1>7 DEF e, Phase0IInv
  <2>2. e.at = "finishing" /\ e.job = exporter[w].job /\ ~e.ok
    BY <1>4
  <2> QED
    BY <1>1, <1>2, <1>3, <1>5, <1>7, <2>1, <2>2, CloseOK
<1>8. CASE baseline' = baseline /\ exporter' = [exporter EXCEPT ![w].ok = FALSE]
  <2>1. exporter' = [exporter EXCEPT ![w] = e]
    BY <1>8 DEF e, Phase0IInv
  <2>2. Holds(w, e, baseline[e.job], csv')
    BY <1>1, <1>2, <1>4, ExporterFacts DEF Holds
  <2> QED
    BY <1>1, <1>2, <1>5, <1>8, <2>1, <2>2, NoJob
<1> QED
  BY <1>6, <1>7, <1>8 DEF CompleteJob

LEMMA FailJobOK ==
  ASSUME Phase0IInv, NEW w \in Exporters, FailJob(w) PROVE Phase0IInv'
<1>1. exporter[w].at = "finishing" /\ csv' = csv /\ csv \subseteq Jobs
  BY DEF FailJob, At, Phase0IInv
<1>2. Busy(exporter[w])
  BY <1>1 DEF Busy, Exporting
<1>3. /\ Closed0(w, "failed") = [baseline EXCEPT ![exporter[w].job] = ClosedRow(w, "failed")]
      /\ ClosedRow(w, "failed") \in JobRow
      /\ ClosedRow(w, "failed").by = baseline[exporter[w].job].by
      /\ ClosedRow(w, "failed").old = baseline[exporter[w].job].old
      /\ ClosedRow(w, "failed").status = "failed"
      /\ Whole(exporter[w].job, ClosedRow(w, "failed"), csv)
  BY <1>1, ClosedRowOK
<1>4. CASE baseline' = Closed0(w, "failed")
  <2>1. PICK idle \in ExporterRow : ~Busy(idle) /\ exporter' = [exporter EXCEPT ![w] = idle]
    BY LeftIdle DEF FailJob
  <2> QED
    BY <1>1, <1>2, <1>3, <1>4, <2>1, CloseOK
<1>5. CASE baseline' = baseline /\ LoopError(w)
  BY <1>1, <1>5, ToIdle
<1> QED
  BY <1>4, <1>5 DEF FailJob

LEMMA SmokeEndsOK ==
  ASSUME Phase0IInv, NEW w \in Exporters, SmokeEnds(w) PROVE Phase0IInv'
<1> DEFINE j == exporter[w].job
<1>1. /\ exporter[w].at = "smoking" /\ j \in Smokes /\ j \in Jobs /\ j \notin Baselines
      /\ Busy(exporter[w]) /\ baseline[j] \in JobRow
  BY ExporterFacts, RowFacts, Phase0Assumption DEF SmokeEnds, At, Busy, Jobs
<1>2. csv \subseteq csv' /\ csv' \subseteq Jobs
  BY <1>1 DEF SmokeEnds, Phase0IInv
<1>3. PICK e \in ExporterRow : ~Busy(e) /\ exporter' = [exporter EXCEPT ![w] = e]
  BY LeftIdle DEF SmokeEnds
<1>4. ASSUME NEW status \in {"completed", "failed"},
             baseline' = [baseline EXCEPT ![j].status = status], status = "completed" => j \in csv'
      PROVE  Phase0IInv'
  <2> DEFINE row == [baseline[j] EXCEPT !.status = status]
  <2>1. baseline' = [baseline EXCEPT ![j] = row]
    BY <1>4 DEF Phase0IInv
  <2>2. row \in JobRow /\ row.by = baseline[j].by /\ row.old = baseline[j].old /\ row.status = status
    BY <1>1 DEF JobRow, JobStates
  <2> HIDE DEF row
  <2>3. Whole(j, row, csv')
    BY <1>1, <1>4, <2>2 DEF Whole
  <2> QED
    BY <1>1, <1>2, <1>3, <2>1, <2>2, <2>3, CloseOK
<1>5. CASE baseline' = baseline
  <2>1. Up(exporter[w])
    BY <1>1 DEF Up
  <2> QED
    BY <1>2, <1>3, <1>5, <2>1, NoJob
<1> QED
  BY <1>4, <1>5 DEF SmokeEnds

-----------------------------------------------------------------------------
LEMMA Phase0InitOK ==
  ASSUME Phase0Init PROVE Phase0IInv
<1>1. PICK s \in {"queued", "running"} :
        baseline = [j \in Jobs |->
          IF j \in Legacy THEN [QueuedRow EXCEPT !.status = s, !.old = TRUE] ELSE AbsentRow]
  BY DEF Phase0Init, Jobs
<1> DEFINE legacy == [QueuedRow EXCEPT !.status = s, !.old = TRUE]
<1>2. QueuedRow \in JobRow
  BY Ages DEF QueuedRow, JobRow, JobStates
<1>3. /\ legacy \in JobRow /\ legacy.status = s
      /\ AbsentRow \in JobRow /\ AbsentRow.status = "absent"
  BY <1>2 DEF AbsentRow, JobRow, JobStates
<1> HIDE DEF legacy
<1>4. baseline \in [Jobs -> JobRow] /\ \A j \in Jobs : baseline[j].status # "completed"
  <2>1. baseline = [j \in Jobs |-> IF j \in Legacy THEN legacy ELSE AbsentRow]
    BY <1>1 DEF legacy
  <2> QED
    BY <2>1, <1>3
<1>5. exporter \in [Exporters -> ExporterRow] /\ \A w \in Exporters : exporter[w] = IdleExporter
  BY Idle DEF Phase0Init
<1> QED
  BY <1>4, <1>5, Idle DEF Phase0IInv, Phase0Init, Whole

LEMMA Phase0NextOK ==
  ASSUME Phase0IInv, [Phase0Next]_phase0Vars PROVE Phase0IInv'
<1>1. ASSUME NEW i \in Jobs, CreateJob(i) PROVE Phase0IInv'
  BY <1>1, CreateJobOK
<1>2. ASSUME NEW w \in Exporters,
             \/ StartExporter(w) \/ EnsureSchema(w) \/ RecoverStaleJobs(w) \/ Peek(w)
             \/ PollRaises(w) \/ StoreStarts(w) \/ PulseReads(w) \/ PulseWrites(w)
             \/ RunJob(w) \/ ExporterStops(w)
      PROVE  Phase0IInv'
  <2>1. CASE StartExporter(w) \/ StartExport(w) \/ StopPulse(w) \/ ExportRaises(w)
    BY <2>1, MovesOK
  <2>2. CASE EnsureSchema(w)
    BY <2>2, EnsureSchemaOK
  <2>3. CASE RecoverStaleJobs(w)
    BY <2>3, RecoverStaleJobsOK
  <2>4. CASE Peek(w)
    BY <2>4, PeekOK
  <2>5. CASE PollRaises(w) \/ ExporterStops(w)
    BY <2>5, ToIdle DEF PollRaises, ExporterStops
  <2>6. CASE StoreStarts(w)
    BY <2>6, StoreStartsOK
  <2>7. CASE PulseReads(w)
    BY <2>7, PulseReadsOK
  <2>8. CASE PulseWrites(w)
    BY <2>8, PulseWritesOK
  <2>9. CASE ClaimJob(w)
    BY <2>9, ClaimJobOK
  <2>10. CASE StoreEnds(w)
    BY <2>10, StoreEndsOK
  <2>11. CASE Publish(w)
    BY <2>11, PublishOK
  <2>12. CASE CompleteJob(w)
    BY <2>12, CompleteJobOK
  <2>13. CASE FailJob(w)
    BY <2>13, FailJobOK
  <2>14. CASE SmokeEnds(w)
    BY <2>14, SmokeEndsOK
  <2> QED
    BY <1>2, <2>1, <2>2, <2>3, <2>4, <2>5, <2>6, <2>7, <2>8, <2>9, <2>10, <2>11, <2>12, <2>13, <2>14
    DEF RunJob
<1>3. CASE WebStartup
  BY <1>3, WebStartupOK
<1>4. CASE Phase0Tick
  BY <1>4, Phase0TickOK
<1>5. CASE UNCHANGED phase0Vars
  <2>1. baseline' = baseline /\ csv' = csv /\ exporter' = exporter
    BY <1>5 DEF phase0Vars
  <2> QED
    BY <2>1 DEF Phase0IInv
<1> QED
  BY <1>1, <1>2, <1>3, <1>4, <1>5 DEF Phase0Next, Jobs

(* A completed baseline has its file and all its stores, a job has one worker in all its *)
(* life, and no job of the older store scope is exported: with any number of workers,     *)
(* jobs and stores, whatever is lost, late or refused (phase0_baseline_jobs.py:211-315,    *)
(* 510-672; phase0_baseline_worker.py:31-153).                                             *)
THEOREM Phase0Invariant == Phase0Spec => []Phase0Inv
<1>1. Phase0Init => Phase0IInv
  BY Phase0InitOK
<1>2. Phase0IInv /\ [Phase0Next]_phase0Vars => Phase0IInv'
  BY Phase0NextOK
<1>3. Phase0IInv => Phase0Inv
  BY Phase0IInvImplies
<1> QED
  BY <1>1, <1>2, <1>3, PTL DEF Phase0Spec
==============================================================================
