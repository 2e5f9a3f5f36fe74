---------------------------- MODULE SearchJobsProofs ----------------------------
(* Proofs about the search jobs. The invariant says, of each job, what its thread   *)
(* has left behind at every stage of its way, whatever the watchdog and a new        *)
(* search have done to it meanwhile, and of each request, which jobs it counts on.   *)
EXTENDS SearchJobs, TLAPS

Complete == {"completed", "completed_with_store_issues"}

JobOK(k) ==
  /\ k.done => k.completed
  /\ k.worker \in {"closing", "ended"} => k.completed
  /\ k.worker \in {"none", "collecting"} => ~k.cut
  /\ k.worker = "collected" /\ k.cut => k.cancel
  /\ k.worker = "finalizing" /\ k.cut => k.sawCancel
  /\ k.worker \in {"none", "collecting", "collected", "finalizing"} => k.status \notin Complete
  /\ k.status \in Complete => ~k.cut
  /\ k.status = "absent" => ~k.completed /\ ~k.known /\ k.worker = "none"

(* What a request counts on: the jobs it waits for are in JOBS, those it has waited   *)
(* for are done, and the one it is about to start has no thread.                      *)
RequestOK(r) ==
  /\ r.at \in {"waiting", "creating", "starting"} => \A j \in r.waitFor : job[j].status # "absent"
  /\ r.at = "creating" => AllDone(r.waitFor)
  /\ r.at = "starting" => \A j \in r.waitFor : job[j].worker = "none"

OwnJobs ==
  \A c, d \in Clients : c # d /\ request[c].at = "starting" /\ request[d].at = "starting"
                          => request[c].waitFor \cap request[d].waitFor = {}

JobsIInv ==
  /\ JobsType
  /\ \A j \in Jobs : JobOK(job[j])
  /\ \A c \in Clients : RequestOK(request[c])
  /\ OwnJobs

Request == [at : {"none", "gated", "waiting", "creating", "starting"}, waitFor : SUBSET Jobs]

\* The inductive invariant implies the one the runs check.
LEMMA JobsIInvImplies == JobsIInv => JobsInv
  BY DEF JobsIInv, JobsInv, HandshakeInv, CompleteIsNotCut, JobOK, RequestOK, Complete

LEMMA JobFacts ==
  ASSUME JobsIInv, NEW j \in Jobs
  PROVE  job[j] \in Job /\ JobOK(job[j])
  BY DEF JobsIInv, JobsType

\* The thread or the watchdog of one job moves: no request notices more than it should.
LEMMA OneJob ==
  ASSUME JobsIInv, NEW j \in Jobs, NEW k \in Job, JobOK(k),
         job' = [job EXCEPT ![j] = k], request' = request,
         job[j].status # "absent", k.status # "absent",
         job[j].done => k.done,
         job[j].worker = "none" => k.worker = "none"
  PROVE  JobsIInv'
<1>1. \A i \in Jobs : job'[i] = IF i = j THEN k ELSE job[i]
  BY DEF JobsIInv, JobsType
<1>2. JobsType'
  BY DEF JobsIInv, JobsType
<1>3. \A i \in Jobs : JobOK(job'[i])
  BY <1>1 DEF JobsIInv
<1>4. \A i \in Jobs : /\ job[i].status # "absent" => job'[i].status # "absent"
                      /\ job[i].done => job'[i].done
                      /\ job[i].worker = "none" => job'[i].worker = "none"
  BY <1>1
<1>5. ASSUME NEW c \in Clients PROVE RequestOK(request[c])'
  <2>1. RequestOK(request[c]) /\ request[c].waitFor \subseteq Jobs
    BY DEF JobsIInv, JobsType
  <2> QED
    BY <2>1, <1>4 DEF RequestOK, AllDone
<1> QED
  BY <1>2, <1>3, <1>5 DEF JobsIInv, OwnJobs

\* A request moves to r and leaves the jobs alone.
LEMMA OneRequest ==
  ASSUME JobsIInv, NEW c \in Clients, NEW r \in Request, RequestOK(r), r.at # "starting",
         request' = [request EXCEPT ![c] = r], job' = job
  PROVE  JobsIInv'
<1>1. \A d \in Clients : request'[d] = IF d = c THEN r ELSE request[d]
  BY DEF JobsIInv, JobsType
<1>2. JobsType'
  BY DEF JobsIInv, JobsType, Request
<1>3. ASSUME NEW d \in Clients PROVE RequestOK(request[d])'
  BY <1>1 DEF JobsIInv, RequestOK, AllDone
<1>4. OwnJobs'
  BY <1>1 DEF JobsIInv, OwnJobs
<1> QED
  BY <1>2, <1>3, <1>4 DEF JobsIInv

-----------------------------------------------------------------------------
LEMMA SearchStartOK ==
  ASSUME JobsIInv, NEW c \in Clients, SearchStart(c) PROVE JobsIInv'
<1> DEFINE r == [request[c] EXCEPT !.at = "gated"]
<1>1. request[c] \in Request
  BY DEF JobsIInv, JobsType, Request
<1>2. request' = [request EXCEPT ![c] = r]
  BY DEF SearchStart, JobsIInv, JobsType
<1>3. r \in Request /\ r.at = "gated"
  BY <1>1 DEF Request
<1>4. RequestOK(r)
  BY <1>3 DEF RequestOK
<1> QED
  BY <1>2, <1>3, <1>4, OneRequest DEF SearchStart

LEMMA HandshakeDoneOK ==
  ASSUME JobsIInv, NEW c \in Clients, HandshakeDone(c) PROVE JobsIInv'
<1> DEFINE r == [request[c] EXCEPT !.at = "creating"]
<1>1. request[c] \in Request /\ RequestOK(request[c])
  BY DEF JobsIInv, JobsType, Request
<1>2. request' = [request EXCEPT ![c] = r]
  BY DEF HandshakeDone, JobsIInv, JobsType
<1>3. r \in Request /\ r.at = "creating" /\ r.waitFor = request[c].waitFor
  BY <1>1 DEF Request
<1>4. RequestOK(r)
  BY <1>1, <1>3 DEF RequestOK, HandshakeDone
<1> QED
  BY <1>2, <1>3, <1>4, OneRequest DEF HandshakeDone

LEMMA RequestEndsOK ==
  ASSUME JobsIInv, NEW c \in Clients, HandshakeTimesOut(c) \/ StartThreadFails(c) PROVE JobsIInv'
<1>1. NoRequest \in Request /\ NoRequest.at = "none"
  BY DEF NoRequest, Request
<1>2. RequestOK(NoRequest)
  BY <1>1 DEF RequestOK
<1> QED
  BY <1>1, <1>2, OneRequest DEF HandshakeTimesOut, StartThreadFails

LEMMA CancelActiveOK ==
  ASSUME JobsIInv, NEW c \in Clients, CancelActive(c) PROVE JobsIInv'
<1> DEFINE active == {j \in Jobs : ActiveJob(j)}
           r == [at |-> "waiting", waitFor |-> active]
<1>1. /\ request' = [request EXCEPT ![c] = r]
      /\ job' = [j \in Jobs |-> IF j \in active THEN [job[j] EXCEPT !.cancel = TRUE] ELSE job[j]]
  BY DEF CancelActive
<1>2. ASSUME NEW j \in Jobs
      PROVE  /\ job'[j] \in Job /\ JobOK(job'[j])
             /\ job'[j].status = job[j].status /\ job'[j].done = job[j].done
             /\ job'[j].worker = job[j].worker
  <2>1. CASE j \in active
    <3>1. job'[j] = [job[j] EXCEPT !.cancel = TRUE]
      BY <1>1, <2>1
    <3>2. /\ job'[j] \in Job /\ job'[j].cancel = TRUE
          /\ job'[j].status = job[j].status /\ job'[j].done = job[j].done
          /\ job'[j].worker = job[j].worker /\ job'[j].cut = job[j].cut
          /\ job'[j].completed = job[j].completed /\ job'[j].sawCancel = job[j].sawCancel
          /\ job'[j].known = job[j].known
      BY <3>1, JobFacts DEF Job
    <3>3. JobOK(job'[j])
      BY <3>2, JobFacts DEF JobOK
    <3> QED
      BY <3>2, <3>3
  <2>2. CASE j \notin active
    BY <1>1, <2>2, JobFacts
  <2> QED
    BY <2>1, <2>2
<1>3. /\ request'[c].at = "waiting" /\ request'[c].waitFor = active
      /\ \A d \in Clients \ {c} : request'[d] = request[d]
  <2>1. r.at = "waiting" /\ r.waitFor = active
    OBVIOUS
  <2> HIDE DEF r, active
  <2> QED
    BY <1>1, <2>1 DEF JobsIInv, JobsType
<1>4. JobsType'
  BY <1>1, <1>2 DEF JobsIInv, JobsType
<1>5. ASSUME NEW d \in Clients PROVE RequestOK(request[d])'
  <2>1. CASE d = c
    <3>1. \A j \in active : job'[j].status # "absent"
      BY <1>2 DEF ActiveJob
    <3> HIDE DEF active
    <3> QED
      BY <2>1, <3>1, <1>3 DEF RequestOK
  <2>2. CASE d # c
    <3>1. request'[d] = request[d] /\ RequestOK(request[d]) /\ request[d].waitFor \subseteq Jobs
      BY <2>2, <1>3 DEF JobsIInv, JobsType
    <3> QED
      BY <3>1, <1>2 DEF RequestOK, AllDone
  <2> QED
    BY <2>1, <2>2
<1>6. OwnJobs'
  BY <1>3 DEF JobsIInv, OwnJobs
<1> QED
  BY <1>2, <1>4, <1>5, <1>6 DEF JobsIInv

LEMMA NewJobOK ==
  ASSUME JobsIInv, NEW c \in Clients, NewJob(c) PROVE JobsIInv'
<1>1. PICK i \in Jobs :
        /\ job[i].status = "absent"
        /\ job' = [job EXCEPT ![i] = [NoJob EXCEPT !.status = "searching"]]
        /\ request' = [request EXCEPT ![c] = [at |-> "starting", waitFor |-> {i}]]
  BY DEF NewJob
<1> DEFINE k == [NoJob EXCEPT !.status = "searching"]
           r == [at |-> "starting", waitFor |-> {i}]
<1>2. k \in Job /\ JobOK(k) /\ k.status = "searching" /\ k.worker = "none"
  <2>1. 0 \in 0 .. JobLimit
    BY JobsAssumption
  <2>2. k \in Job
    BY <2>1 DEF NoJob, Job, Statuses, JobWorkers
  <2>3. k.status = "searching" /\ k.worker = "none" /\ ~k.done /\ ~k.cut
    BY DEF NoJob
  <2> QED
    BY <2>2, <2>3 DEF JobOK, Complete
<1>3. \A j \in Jobs : job'[j] = IF j = i THEN k ELSE job[j]
  BY <1>1 DEF JobsIInv, JobsType
<1>4. \A d \in Clients : request'[d] = IF d = c THEN r ELSE request[d]
  BY <1>1 DEF JobsIInv, JobsType
<1>5. JobsType'
  <2>1. r \in Request
    BY DEF Request
  <2>2. request' \in [Clients -> Request] /\ job' \in [Jobs -> Job]
    BY <1>1, <1>2, <2>1 DEF JobsIInv, JobsType, Request
  <2> QED
    BY <2>2 DEF JobsType, Request
<1>6. ASSUME NEW j \in Jobs PROVE JobOK(job'[j])
  BY <1>2, <1>3, JobFacts
<1>7. ASSUME NEW d \in Clients PROVE RequestOK(request[d])'
  <2>1. CASE d = c
    <3>1. request'[d].at = "starting" /\ request'[d].waitFor = {i}
      BY <2>1, <1>4
    <3>2. job'[i].status = "searching" /\ job'[i].worker = "none"
      BY <1>2, <1>3
    <3> QED
      BY <3>1, <3>2 DEF RequestOK
  <2>2. CASE d # c
    <3>1. request'[d] = request[d] /\ RequestOK(request[d]) /\ request[d].waitFor \subseteq Jobs
      BY <2>2, <1>4 DEF JobsIInv, JobsType
    <3>2. \A j \in Jobs : job[j].status # "absent" => j # i /\ job'[j] = job[j]
      BY <1>1, <1>3
    <3> QED
      BY <3>1, <3>2 DEF RequestOK, AllDone
  <2> QED
    BY <2>1, <2>2
<1>8. ASSUME NEW d \in Clients, d # c, request[d].at = "starting" PROVE i \notin request[d].waitFor
  BY <1>1, <1>8 DEF JobsIInv, RequestOK
<1>9. OwnJobs'
  BY <1>4, <1>8 DEF JobsIInv, OwnJobs
<1> QED
  BY <1>5, <1>6, <1>7, <1>9 DEF JobsIInv

LEMMA StartThreadOK ==
  ASSUME JobsIInv, NEW c \in Clients, StartThread(c) PROVE JobsIInv'
<1> DEFINE mine == request[c].waitFor
<1>1. /\ request[c].at = "starting"
      /\ request' = [request EXCEPT ![c] = NoRequest]
      /\ job' = [j \in Jobs |-> IF j \in mine THEN [job[j] EXCEPT !.worker = "collecting", !.known = TRUE]
                                ELSE job[j]]
  BY DEF StartThread
<1>2. \A j \in mine : job[j].worker = "none" /\ job[j].status # "absent"
  BY <1>1 DEF JobsIInv, RequestOK
<1>3. ASSUME NEW j \in Jobs
      PROVE  /\ job'[j] \in Job /\ JobOK(job'[j])
             /\ job'[j].status = job[j].status /\ job'[j].done = job[j].done
             /\ j \notin mine => job'[j].worker = job[j].worker
  <2>1. CASE j \in mine
    <3>1. job'[j] = [job[j] EXCEPT !.worker = "collecting", !.known = TRUE]
      BY <1>1, <2>1
    <3>2. /\ job'[j] \in Job /\ job'[j].worker = "collecting"
          /\ job'[j].status = job[j].status /\ job'[j].done = job[j].done
          /\ job'[j].cut = job[j].cut /\ job'[j].completed = job[j].completed
      BY <3>1, JobFacts DEF Job, JobWorkers
    <3> QED
      BY <3>2, <2>1, <1>2, JobFacts DEF JobOK
  <2>2. CASE j \notin mine
    BY <1>1, <2>2, JobFacts
  <2> QED
    BY <2>1, <2>2
<1>4. NoRequest \in Request /\ NoRequest.at = "none"
  BY DEF NoRequest, Request
<1>5. \A d \in Clients : request'[d] = IF d = c THEN NoRequest ELSE request[d]
  BY <1>1 DEF JobsIInv, JobsType
<1>6. JobsType'
  <2>1. request' \in [Clients -> Request] /\ job' \in [Jobs -> Job]
    BY <1>1, <1>3, <1>4 DEF JobsIInv, JobsType, Request
  <2> QED
    BY <2>1 DEF JobsType, Request
<1>7. ASSUME NEW d \in Clients PROVE RequestOK(request[d])'
  <2>1. CASE d = c
    BY <2>1, <1>4, <1>5 DEF RequestOK
  <2>2. CASE d # c
    <3>1. request'[d] = request[d] /\ RequestOK(request[d]) /\ request[d].waitFor \subseteq Jobs
      BY <2>2, <1>5 DEF JobsIInv, JobsType
    <3>2. request[d].at = "starting" => request[d].waitFor \cap mine = {}
      BY <2>2, <1>1 DEF JobsIInv, OwnJobs
    <3> QED
      BY <3>1, <3>2, <1>3 DEF RequestOK, AllDone
  <2> QED
    BY <2>1, <2>2
<1>8. OwnJobs'
  BY <1>4, <1>5 DEF JobsIInv, OwnJobs
<1> QED
  BY <1>3, <1>6, <1>7, <1>8 DEF JobsIInv

-----------------------------------------------------------------------------
LEMMA PublishStoreOK ==
  ASSUME JobsIInv, NEW j \in Jobs, NEW s \in Shops, PublishStore(j, s) PROVE JobsIInv'
<1> DEFINE k == [job[j] EXCEPT !.stores = @ \cup {s}]
<1>1. job' = [job EXCEPT ![j] = k]
  BY DEF PublishStore, JobsIInv, JobsType
<1>2. /\ k \in Job /\ k.status = job[j].status /\ k.done = job[j].done /\ k.worker = job[j].worker
      /\ k.cut = job[j].cut /\ k.completed = job[j].completed /\ k.cancel = job[j].cancel
      /\ k.sawCancel = job[j].sawCancel
  BY JobFacts DEF Job
<1>3. JobOK(k) /\ job[j].status # "absent"
  BY <1>2, JobFacts DEF JobOK, PublishStore
<1> QED
  BY <1>1, <1>2, <1>3, OneJob DEF PublishStore

LEMMA CollectedOK ==
  ASSUME JobsIInv, NEW j \in Jobs, Collected(j) PROVE JobsIInv'
<1>1. PICK cut \in {FALSE, job[j].cancel} :
        job' = [job EXCEPT ![j].worker = "collected", ![j].cut = cut]
  BY DEF Collected
<1> DEFINE k == [job[j] EXCEPT !.worker = "collected", !.cut = cut]
<1>2. job' = [job EXCEPT ![j] = k]
  BY <1>1 DEF JobsIInv, JobsType
<1>3. /\ k \in Job /\ k.status = job[j].status /\ k.done = job[j].done /\ k.worker = "collected"
      /\ k.cut = cut /\ k.completed = job[j].completed /\ k.cancel = job[j].cancel
  BY JobFacts DEF Job, JobWorkers
<1>4. JobOK(k) /\ job[j].status # "absent"
  BY <1>3, JobFacts DEF JobOK, Collected
<1> QED
  BY <1>2, <1>3, <1>4, OneJob DEF Collected

LEMMA ReadCancelledOK ==
  ASSUME JobsIInv, NEW j \in Jobs, ReadCancelled(j) PROVE JobsIInv'
<1> DEFINE k == [job[j] EXCEPT !.worker = "finalizing", !.sawCancel = job[j].cancel]
<1>1. job' = [job EXCEPT ![j] = k]
  BY DEF ReadCancelled, JobsIInv, JobsType
<1>2. /\ k \in Job /\ k.status = job[j].status /\ k.done = job[j].done /\ k.worker = "finalizing"
      /\ k.cut = job[j].cut /\ k.completed = job[j].completed /\ k.sawCancel = job[j].cancel
  BY JobFacts DEF Job, JobWorkers
<1>3. JobOK(k) /\ job[j].status # "absent"
  BY <1>2, JobFacts DEF JobOK, ReadCancelled
<1> QED
  BY <1>1, <1>2, <1>3, OneJob DEF ReadCancelled

LEMMA FinalizeOK ==
  ASSUME JobsIInv, NEW j \in Jobs, Finalize(j) PROVE JobsIInv'
<1>1. PICK status \in FinalStatuses(j) :
        job' = [job EXCEPT ![j].worker = "closing", ![j].completed = TRUE, ![j].status = status]
  BY DEF Finalize
<1> DEFINE k == [job[j] EXCEPT !.worker = "closing", !.completed = TRUE, !.status = status]
<1>2. job' = [job EXCEPT ![j] = k]
  BY <1>1 DEF JobsIInv, JobsType
<1>3. status \in Statuses /\ status # "absent" /\ (status \in Complete => ~job[j].sawCancel)
  BY <1>1 DEF FinalStatuses, Statuses, Complete
<1>4. /\ k \in Job /\ k.status = status /\ k.done = job[j].done /\ k.worker = "closing"
      /\ k.cut = job[j].cut /\ k.completed = TRUE
  BY <1>3, JobFacts DEF Job, JobWorkers
<1>5. status \in Complete => ~k.cut
  BY <1>3, <1>4, JobFacts DEF JobOK, Finalize
<1>6. JobOK(k) /\ job[j].status # "absent"
  BY <1>3, <1>4, <1>5, JobFacts DEF JobOK, Finalize
<1> QED
  BY <1>2, <1>3, <1>4, <1>6, OneJob DEF Finalize

LEMMA WorkerRaisesOK ==
  ASSUME JobsIInv, NEW j \in Jobs, WorkerRaises(j) PROVE JobsIInv'
<1> DEFINE k == [job[j] EXCEPT !.worker = "closing", !.completed = TRUE, !.status = "error"]
<1>1. job' = [job EXCEPT ![j] = k]
  BY DEF WorkerRaises, JobsIInv, JobsType
<1>2. /\ k \in Job /\ k.status = "error" /\ k.done = job[j].done /\ k.worker = "closing"
      /\ k.completed = TRUE
  BY JobFacts DEF Job, JobWorkers, Statuses
<1>3. JobOK(k) /\ job[j].status # "absent"
  BY <1>2, JobFacts DEF JobOK, WorkerRaises, Complete
<1> QED
  BY <1>1, <1>2, <1>3, OneJob DEF WorkerRaises

LEMMA SetDoneOK ==
  ASSUME JobsIInv, NEW j \in Jobs, SetDone(j) PROVE JobsIInv'
<1> DEFINE k == [job[j] EXCEPT !.worker = "ended", !.done = TRUE, !.sawCancel = FALSE, !.age = 0]
<1>1. job' = [job EXCEPT ![j] = k]
  BY DEF SetDone, JobsIInv, JobsType
<1>2. /\ k \in Job /\ k.status = job[j].status /\ k.done = TRUE /\ k.worker = "ended"
      /\ k.completed = job[j].completed /\ k.cut = job[j].cut
  <2>1. 0 \in 0 .. JobLimit
    BY JobsAssumption
  <2> QED
    BY <2>1, JobFacts DEF Job, JobWorkers
<1>3. JobOK(k) /\ job[j].status # "absent"
  BY <1>2, JobFacts DEF JobOK, SetDone
<1> QED
  BY <1>1, <1>2, <1>3, OneJob DEF SetDone

LEMMA WatchdogOK ==
  ASSUME JobsIInv, NEW j \in Jobs, Watchdog(j) PROVE JobsIInv'
<1> DEFINE k == [job[j] EXCEPT !.completed = TRUE, !.status = "watchdog", !.cancel = TRUE, !.done = TRUE]
<1>1. job' = [job EXCEPT ![j] = k]
  BY DEF Watchdog, JobsIInv, JobsType
<1>2. /\ k \in Job /\ k.status = "watchdog" /\ k.done = TRUE /\ k.worker = job[j].worker
      /\ k.completed = TRUE /\ k.cut = job[j].cut /\ k.cancel = TRUE /\ k.sawCancel = job[j].sawCancel
  BY JobFacts DEF Job, Statuses
<1>3. JobOK(k) /\ job[j].status # "absent"
  BY <1>2, JobFacts DEF JobOK, Complete, Watchdog
<1> QED
  BY <1>1, <1>2, <1>3, OneJob DEF Watchdog

LEMMA JobsTickOK ==
  ASSUME JobsIInv, JobsTick PROVE JobsIInv'
<1>1. ASSUME NEW j \in Jobs
      PROVE  /\ job'[j] \in Job /\ JobOK(job'[j])
             /\ job'[j].status = job[j].status /\ job'[j].done = job[j].done
             /\ job'[j].worker = job[j].worker
  <2>1. CASE ActiveJob(j) /\ job[j].age < JobLimit
    <3>1. job'[j] = [job[j] EXCEPT !.age = @ + 1]
      BY <2>1 DEF JobsTick
    <3>2. job[j].age + 1 \in 0 .. JobLimit
      BY <2>1, JobFacts, JobsAssumption DEF Job
    <3>3. /\ job'[j] \in Job
          /\ job'[j].status = job[j].status /\ job'[j].done = job[j].done
          /\ job'[j].worker = job[j].worker /\ job'[j].cut = job[j].cut
          /\ job'[j].completed = job[j].completed /\ job'[j].cancel = job[j].cancel
          /\ job'[j].sawCancel = job[j].sawCancel /\ job'[j].known = job[j].known
      BY <3>1, <3>2, JobFacts DEF Job
    <3> QED
      BY <3>3, JobFacts DEF JobOK
  <2>2. CASE ~(ActiveJob(j) /\ job[j].age < JobLimit)
    BY <2>2, JobFacts DEF JobsTick
  <2> QED
    BY <2>1, <2>2
<1>2. JobsType'
  BY <1>1 DEF JobsTick, JobsIInv, JobsType
<1>3. ASSUME NEW c \in Clients PROVE RequestOK(request[c])'
  <2>1. request'[c] = request[c] /\ RequestOK(request[c]) /\ request[c].waitFor \subseteq Jobs
    BY DEF JobsTick, JobsIInv, JobsType
  <2> QED
    BY <2>1, <1>1 DEF RequestOK, AllDone
<1> QED
  BY <1>1, <1>2, <1>3 DEF JobsTick, JobsIInv, OwnJobs

LEMMA Fresh ==
  /\ NoJob \in Job /\ JobOK(NoJob)
  /\ NoRequest \in Request /\ NoRequest.at = "none"
<1>1. 0 \in 0 .. JobLimit
  BY JobsAssumption
<1>2. NoJob \in Job
  BY <1>1 DEF NoJob, Job, Statuses, JobWorkers
<1>3. JobOK(NoJob)
  BY DEF JobOK, NoJob, Complete
<1> QED
  BY <1>2, <1>3 DEF NoRequest, Request

LEMMA JobsInitOK == JobsInit => JobsIInv
<1> SUFFICES ASSUME JobsInit PROVE JobsIInv
  OBVIOUS
<1>1. JobsType
  BY Fresh DEF JobsType, Request, JobsInit
<1>2. \A c \in Clients : request[c].at = "none"
  BY Fresh DEF JobsInit
<1> QED
  BY Fresh, <1>1, <1>2 DEF JobsIInv, RequestOK, OwnJobs, JobsInit

LEMMA JobsCrashOK ==
  ASSUME JobsCrash PROVE JobsIInv'
<1>1. JobsType'
  BY Fresh DEF JobsType, Request, JobsCrash
<1>2. \A c \in Clients : request'[c].at = "none"
  BY Fresh DEF JobsCrash
<1> QED
  BY Fresh, <1>1, <1>2 DEF JobsIInv, RequestOK, OwnJobs, JobsCrash

LEMMA JobsNextOK == JobsIInv /\ [JobsNext]_jobsVars => JobsIInv'
<1> SUFFICES ASSUME JobsIInv, [JobsNext]_jobsVars PROVE JobsIInv'
  OBVIOUS
<1>1. CASE UNCHANGED jobsVars
  BY <1>1 DEF jobsVars, JobsIInv, JobsType, RequestOK, AllDone, OwnJobs
<1>2. ASSUME NEW c \in Clients, RequestStep(c) PROVE JobsIInv'
  BY <1>2, SearchStartOK, CancelActiveOK, HandshakeDoneOK, RequestEndsOK, NewJobOK, StartThreadOK
     DEF RequestStep
<1>3. ASSUME NEW j \in Jobs, WorkerStep(j) PROVE JobsIInv'
  BY <1>3, CollectedOK, ReadCancelledOK, FinalizeOK, WorkerRaisesOK, SetDoneOK DEF WorkerStep
<1>4. ASSUME NEW j \in Jobs, Watchdog(j) PROVE JobsIInv'
  BY <1>4, WatchdogOK
<1>5. ASSUME NEW j \in Jobs, NEW s \in Shops, PublishStore(j, s) PROVE JobsIInv'
  BY <1>5, PublishStoreOK
<1> QED
  BY <1>1, <1>2, <1>3, <1>4, <1>5, JobsTickOK, JobsCrashOK DEF JobsNext

-----------------------------------------------------------------------------
(* For any number of clients and jobs: a job that is done is completed, so that a new  *)
(* search never starts beside one it has waited for that still shows "searching", and  *)
(* no result a cancel has cut short is presented as complete, however the thread, the   *)
(* watchdog and the requests interleave (main.py:2585-3053).                 *)
THEOREM JobsInvariant == JobsSpec => []JobsInv
<1>1. JobsSpec => []JobsIInv
  BY JobsInitOK, JobsNextOK, PTL DEF JobsSpec
<1> QED
  BY <1>1, JobsIInvImplies, PTL

\* Of the steps that touch a job, only a publication changes its stores.
LEMMA FrozenStep ==
  ASSUME JobsIInv, [JobsNext]_jobsVars, NEW j \in Jobs, job[j].completed, job'[j].status # "absent"
  PROVE  job'[j].stores = job[j].stores
<1>1. job[j].status # "absent" /\ job \in [Jobs -> Job] /\ job[j] \in Job
  BY DEF JobsIInv, JobsType, JobOK
<1>2. CASE UNCHANGED jobsVars
  BY <1>2 DEF jobsVars
<1>3. ASSUME NEW c \in Clients, RequestStep(c) PROVE job'[j].stores = job[j].stores
  <2>1. CASE CancelActive(c)
    BY <2>1, <1>1 DEF CancelActive, Job
  <2>2. CASE StartThread(c)
    BY <2>2, <1>1 DEF StartThread, Job
  <2>3. CASE NewJob(c)
    <3>1. PICK i \in Jobs :
            /\ job[i].status = "absent"
            /\ job' = [job EXCEPT ![i] = [NoJob EXCEPT !.status = "searching"]]
      BY <2>3 DEF NewJob
    <3> QED
      BY <3>1, <1>1
  <2> QED
    BY <1>3, <2>1, <2>2, <2>3 DEF RequestStep, SearchStart, HandshakeDone, HandshakeTimesOut,
       StartThreadFails
<1>4. ASSUME NEW i \in Jobs, WorkerStep(i) PROVE job'[j].stores = job[j].stores
  <2>1. CASE Collected(i)
    BY <2>1, <1>1 DEF Collected, Job
  <2>2. CASE ReadCancelled(i)
    BY <2>2, <1>1 DEF ReadCancelled, Job
  <2>3. CASE Finalize(i)
    BY <2>3, <1>1 DEF Finalize, Job
  <2>4. CASE WorkerRaises(i)
    BY <2>4, <1>1 DEF WorkerRaises, Job
  <2>5. CASE SetDone(i)
    BY <2>5, <1>1 DEF SetDone, Job
  <2> QED
    BY <1>4, <2>1, <2>2, <2>3, <2>4, <2>5 DEF WorkerStep
<1>5. ASSUME NEW i \in Jobs, Watchdog(i) PROVE job'[j].stores = job[j].stores
  BY <1>5, <1>1 DEF Watchdog, Job
<1>6. ASSUME NEW i \in Jobs, NEW s \in Shops, PublishStore(i, s) PROVE job'[j].stores = job[j].stores
  <2>1. i # j
    BY <1>6 DEF PublishStore
  <2> QED
    BY <2>1, <1>6, <1>1 DEF PublishStore
<1>7. CASE JobsTick
  BY <1>7, <1>1 DEF JobsTick, Job
<1>8. CASE JobsCrash
  BY <1>8 DEF JobsCrash, NoJob
<1> QED
  BY <1>2, <1>3, <1>4, <1>5, <1>6, <1>7, <1>8 DEF JobsNext

(* "Preserve the latest published snapshot": once a job is completed, by its thread or  *)
(* by the watchdog while its thread is still collecting, its stores never change         *)
(* (main.py:2656-2892).                                                                 *)
THEOREM StoresFreeze == JobsSpec => CompletedStoresFrozen
<1> DEFINE Frozen == \A j \in Jobs : job[j].completed /\ job'[j].status # "absent"
                                     => job'[j].stores = job[j].stores
<1>1. JobsIInv /\ [JobsNext]_jobsVars => [Frozen]_jobsVars
  BY FrozenStep
<1>2. JobsSpec => []JobsIInv
  BY JobsInitOK, JobsNextOK, PTL DEF JobsSpec
<1> QED
  BY <1>1, <1>2, PTL DEF JobsSpec, CompletedStoresFrozen
==============================================================================
