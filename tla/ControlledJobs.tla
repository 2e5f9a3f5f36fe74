--------------------------- MODULE ControlledJobs ----------------------------
(* What backend/main.py starts beside searches: the bootstrap of the catalogue *)
(* at startup, the two catalogue loops, and the resync jobs an operator starts *)
(* (Sabina and Deloox, Deloox alone, Easycosmetic). All of it is memory of one *)
(* process, behind flags; discover_store itself is DiscoveryRuns.              *)
EXTENDS Naturals

CONSTANTS
  Kinds,     \* the resync endpoints
  MaxJobs    \* bound: resync jobs of one kind in a behaviour

ASSUME ControlAssumption == MaxJobs \in Nat \ {0}

VARIABLES
  boot,        \* the _CATALOG_BOOTSTRAP_* flags and the thread behind them
  catalogued,  \* the persistent catalogue has indexed urls
  resync       \* for each kind its variables, and its worker threads

controlVars == <<boot, catalogued, resync>>

(* down; starting: the bootstrap thread exists; syncing: in sync_all; ending; up.  *)
(* loops: the hydration and discovery loops were started; raised: history.         *)
DownBoot == [at |-> "down", running |-> FALSE, done |-> FALSE, error |-> FALSE,
             loops |-> 0, raised |-> FALSE]

(* job, result: the job id shown and the job whose result is shown (0: none);      *)
(* workers: the jobs whose threads are in discover_store or about to report.       *)
IdleResync == [running |-> FALSE, job |-> 0, result |-> 0, finished |-> FALSE, workers |-> {}]

ControlType ==
  /\ boot \in [at : {"down", "starting", "syncing", "ending", "up"},
               running : BOOLEAN, done : BOOLEAN, error : BOOLEAN,
               loops : 0 .. 1, raised : BOOLEAN]
  /\ catalogued \in BOOLEAN
  /\ resync \in [Kinds -> [running : BOOLEAN, job : 0 .. MaxJobs, result : 0 .. MaxJobs,
                           finished : BOOLEAN, workers : SUBSET (1 .. MaxJobs)]]

ControlInit ==
  /\ boot = DownBoot /\ catalogued \in BOOLEAN
  /\ resync = [k \in Kinds |-> IdleResync]

--------------------------------------------------------------------------------
(* _start_catalog_hydration and _start_catalog_discovery: once per process. *)
LoopsStarted == IF boot.loops = 0 THEN 1 ELSE boot.loops

(* The startup handler. _catalog_is_ready also says no when its read fails. *)
Startup ==
  /\ boot.at = "down"
  /\ \E ready \in {catalogued, FALSE} :
       boot' = IF ready
               THEN [boot EXCEPT !.at = "up", !.done = TRUE, !.loops = LoopsStarted]
               ELSE [boot EXCEPT !.at = "starting"]
  /\ UNCHANGED <<catalogued, resync>>

BootstrapRuns ==
  /\ boot.at = "starting"
  /\ boot' = [boot EXCEPT !.at = "syncing", !.running = TRUE]
  /\ UNCHANGED <<catalogued, resync>>

\* Mutation of BootstrapSyncs: the loops are started for a ready catalogue only.
BootstrapSyncsReady ==
  /\ boot.at = "syncing"
  /\ catalogued' \in {catalogued, TRUE}
  /\ \E ready \in {catalogued', FALSE} :
       boot' = [boot EXCEPT !.at = "ending", !.done = ready, !.error = ~ready,
                            !.loops = IF ready THEN LoopsStarted ELSE @]
  /\ UNCHANGED resync

BootstrapSyncs ==
  /\ boot.at = "syncing"
  /\ catalogued' \in {catalogued, TRUE}
  /\ \E ready \in {catalogued', FALSE} :
       boot' = [boot EXCEPT !.at = "ending", !.loops = LoopsStarted, !.done = ready,
                            !.error = ~ready]
  /\ UNCHANGED resync

(* sync_all raises: the two loops are not started, now or later. *)
BootstrapRaises ==
  /\ boot.at = "syncing"
  /\ boot' = [boot EXCEPT !.at = "ending", !.error = TRUE, !.raised = TRUE]
  /\ UNCHANGED <<catalogued, resync>>

BootstrapEnds ==
  /\ boot.at = "ending"
  /\ boot' = [boot EXCEPT !.at = "up", !.running = FALSE]
  /\ UNCHANGED <<catalogued, resync>>

(* The discovery loop or a resync finds urls. *)
CatalogueFills ==
  /\ boot.loops = 1 \/ \E k \in Kinds : resync[k].workers # {}
  /\ ~catalogued /\ catalogued' = TRUE
  /\ UNCHANGED <<boot, resync>>

(* The gate of /search-start: "busy" during the bootstrap, an error after one that *)
(* failed.                                                                         *)
Admits == ~(boot.running /\ ~boot.done) /\ ~(boot.error /\ ~boot.running)

--------------------------------------------------------------------------------
\* Mutation of ResyncStart: a running job is not looked at.
ResyncStartAgain(k) ==
  /\ boot.at # "down" /\ resync[k].job < MaxJobs
  /\ resync' = [resync EXCEPT ![k] =
       [@ EXCEPT !.running = TRUE, !.job = @ + 1, !.finished = FALSE,
                 !.workers = @ \cup {resync[k].job + 1}]]
  /\ UNCHANGED <<boot, catalogued>>

(* /catalog/resync-...: under the kind's lock; a running job is reported instead.  *)
ResyncStart(k) ==
  /\ boot.at # "down"
  /\ ~resync[k].running /\ resync[k].job < MaxJobs
  /\ \E threadStarts \in BOOLEAN :
       resync' = [resync EXCEPT ![k] =
         [running |-> TRUE, job |-> @.job + 1, result |-> 0, finished |-> FALSE,
          workers |-> IF threadStarts THEN @.workers \cup {@.job + 1} ELSE @.workers]]
  /\ UNCHANGED <<boot, catalogued>>

(* The worker's `finally`: discover_store returned or raised.                      *)
ResyncEnds(k) ==
  /\ \E j \in resync[k].workers :
       resync' = [resync EXCEPT ![k].workers = @ \ {j}, ![k].result = j,
                                ![k].finished = TRUE, ![k].running = FALSE]
  /\ UNCHANGED <<boot, catalogued>>

ControlCrash ==
  /\ boot' = DownBoot
  /\ resync' = [k \in Kinds |-> [IdleResync EXCEPT !.job = resync[k].job]]
  /\ UNCHANGED catalogued

BootStep == Startup \/ BootstrapRuns \/ BootstrapSyncs \/ BootstrapRaises \/ BootstrapEnds

ControlNext ==
  \/ BootStep \/ CatalogueFills \/ ControlCrash
  \/ \E k \in Kinds : ResyncStart(k) \/ ResyncEnds(k)

ControlSpec == ControlInit /\ [][ControlNext]_controlVars

(* sync_all is bounded by the hard time-outs of its runs; it does not raise, nor is *)
(* the process killed in it, every time.                                           *)
ControlFairness ==
  /\ WF_controlVars(BootStep) /\ SF_controlVars(BootstrapSyncs)
  /\ <>[][~ControlCrash]_controlVars

--------------------------------------------------------------------------------
(* A kind has at most one worker, the result that is shown is the one of the job   *)
(* that is shown, and a worker that is at work is the one of the job that is shown  *)
(* as running: a second request never starts beside it.                            *)
ResyncIsSingle ==
  \A k \in Kinds :
    /\ \A i, j \in resync[k].workers : i = j
    /\ resync[k].finished => resync[k].result = resync[k].job
    /\ resync[k].workers # {} => resync[k].running /\ resync[k].workers = {resync[k].job}

ControlInv == ControlType /\ ResyncIsSingle

(* The loops that keep the catalogue alive are started in the end, unless sync_all *)
(* raised in this process: nothing tries again.                                    *)
LoopsAreStarted == <>[](boot.loops = 1 \/ boot.raised)
==============================================================================
