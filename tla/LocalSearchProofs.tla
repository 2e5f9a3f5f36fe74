----------------------------- MODULE LocalSearchProofs -----------------------------
(* Proofs about one search: the threads and worker processes of the stores, and the   *)
(* index of the stored pages.                                                         *)
EXTENDS StoreLanes, SearchIndex, FiniteSetTheorems, TLAPS

(* A status event, a report, and what a worker, a thread and a search may look like. *)
Event == [status : {"none"} \cup NativeStatuses, verified : BOOLEAN, rows : {FALSE}]
OutRow == [status : {"none", "success", "partial", "failed", "ok", "no_match"},
           verified : BOOLEAN, rows : BOOLEAN]
ReportRow == [status : {"none", "success", "partial", "failed", "ok", "no_match",
                        "catalog_pending", "catalog_not_indexed"},
              verified : BOOLEAN, rows : BOOLEAN]
Pipe == [rows : Nat, kept : Nat, end : Event]
Worker == [alive : BOOLEAN, failed : BOOLEAN, pipe : Pipe, sent : 0 .. MaxRows,
           got : 0 .. MaxRows, last : Event, said : BOOLEAN]
LaneRow == [at : Ats, holds : BOOLEAN, out : OutRow, worker : Worker]
SearchRow ==
  [at : {"idle", "joining", "cancelling", "resolving", "bridging", "returned"},
   lanes : BOOLEAN, cancel : BOOLEAN, failed : BOOLEAN, unfinished : SUBSET LaneStores,
   rows : [LaneStores -> RowKinds],
   indexed : SUBSET LaneStores, returned : [LaneStores -> ReportRow]]

(* A worker that lives has printed no status event, and the event of a verified      *)
(* success, read or not, is that of a process that was not killed.                    *)
Proves(e) == e.status = "success" /\ e.verified
WorkerOK(w) ==
  /\ w.got + w.pipe.kept <= w.sent
  /\ w.alive => w.last = NoReport /\ w.pipe.end = NoReport
  /\ Proves(w.pipe.end) \/ Proves(w.last) => w.said /\ ~w.failed

(* A permit is held from the first attempt to the report; no_match stands only with   *)
(* the worker it came from, until it is published.                                    *)
LaneOK(k) ==
  /\ WorkerOK(k.worker)
  /\ k.holds => k.at \in {"first", "between", "second", "reporting"}
  /\ k.out.status = "no_match" =>
       /\ k.at \in {"reporting", "bridged"} /\ ~k.out.rows
       /\ k.worker.said /\ ~k.worker.failed /\ k.worker.got = 0
  /\ k.at \in {"reporting", "bridged"} => k.out.status # "none"

(* Where the threads are while the search is at each of its stages. *)
StageOK ==
  /\ search.at \in {"idle", "resolving"} => \A s \in LaneStores : lane[s].at = "none"
  /\ search.at = "idle" => \A s \in LaneStores : search.rows[s] = "none"
  /\ search.at \in {"idle", "resolving", "bridging"} => ~search.lanes
  /\ search.at \in {"joining", "cancelling"} => search.lanes
  /\ ~search.lanes =>
       \A s \in LaneStores : lane[s].at \in {"none", "bridge", "bridged", "ended"}
  /\ search.lanes =>
       \A s \in LaneStores :
         /\ search.rows[s] = "none" /\ lane[s].at \notin {"none", "bridge", "bridged"}
         /\ lane[s].at = "ended" => report[s].status # "none"
  /\ search.at = "cancelling" =>
       \A s \in LaneStores \ search.unfinished : lane[s].at = "ended"

(* What CatalogueIsKept allows: the store may be reported absent. *)
MayBeAbsent(s) ==
  search.rows[s] # "pending" /\ (search.rows[s] = "matched" => search.cancel)

(* What will be returned, and what has been. *)
ReturnedOK ==
  \A s \in LaneStores :
    /\ report[s] = NoReport \/ report[s].status # "none"
    /\ search.at # "returned" => search.returned[s] = NoReport
    /\ search.at = "returned" /\ search.lanes => search.returned[s].status # "none"
    /\ search.at = "bridging" /\ report[s].status = "no_match" => MayBeAbsent(s)
    /\ search.returned[s].status = "no_match" => MayBeAbsent(s)

LanesIInv ==
  /\ lane \in [LaneStores -> LaneRow] /\ permits \in [DOMAIN Permits -> Nat]
  /\ report \in [LaneStores -> ReportRow] /\ search \in SearchRow
  /\ \A s \in LaneStores : LaneOK(lane[s])
  /\ PermitsAddUp /\ StageOK /\ ReturnedOK

LEMMA LaneConstants ==
  /\ IsFiniteSet(LaneStores) /\ LiveStores \subseteq LaneStores /\ MaxRows \in Nat
  /\ \A s \in LaneStores : LaneOf[s] \in DOMAIN Permits
  /\ \A l \in DOMAIN Permits : Permits[l] \in Nat \ {0}
  BY LanesAssumption

LEMMA OutIsReport == OutRow \subseteq ReportRow
  BY DEF OutRow, ReportRow

LEMMA NoReportOK ==
  /\ NoReport \in Event /\ NoReport \in OutRow /\ NoReport \in ReportRow
  /\ ~Proves(NoReport) /\ NoReport.status = "none"
  BY DEF NoReport, Report, Event, OutRow, ReportRow, Proves

LEMMA FailedReportOK ==
  /\ FailedReport \in OutRow /\ FailedReport \in ReportRow
  /\ FailedReport.status = "failed" /\ ~FailedReport.rows
  BY DEF FailedReport, Report, OutRow, ReportRow

LEMMA IdleWorkerOK == IdleWorker \in Worker /\ WorkerOK(IdleWorker)
<1>1. EmptyPipe \in Pipe /\ EmptyPipe.kept = 0 /\ EmptyPipe.end = NoReport
  BY NoReportOK DEF EmptyPipe, Pipe
<1>2. 0 \in 0 .. MaxRows
  BY LaneConstants
<1>3. IdleWorker \in Worker /\ IdleWorker.got = 0 /\ IdleWorker.sent = 0
      /\ IdleWorker.last = NoReport /\ IdleWorker.pipe = EmptyPipe
  BY <1>1, <1>2, NoReportOK DEF IdleWorker, Worker
<1> QED
  BY <1>1, <1>3, NoReportOK DEF WorkerOK

(* The worker of an attempt that begins. *)
NewWorker == [IdleWorker EXCEPT !.alive = TRUE]
LEMMA NewWorkerOK == NewWorker \in Worker /\ WorkerOK(NewWorker)
<1>1. IdleWorker \in Worker
  BY IdleWorkerOK
<1>2. NewWorker \in Worker /\ NewWorker.got = IdleWorker.got /\ NewWorker.sent = IdleWorker.sent
      /\ NewWorker.last = IdleWorker.last /\ NewWorker.pipe = IdleWorker.pipe
  BY <1>1 DEF NewWorker, Worker
<1>3. IdleWorker.last = NoReport /\ IdleWorker.pipe.end = NoReport
  BY DEF IdleWorker, EmptyPipe
<1> QED
  BY <1>2, <1>3, IdleWorkerOK, NoReportOK DEF WorkerOK

LEMMA IdleLaneOK ==
  \A at \in {"none", "ended"} : LET k == [IdleLane EXCEPT !.at = at] IN
    k \in LaneRow /\ LaneOK(k) /\ k.at = at /\ k.holds = FALSE
<1> SUFFICES ASSUME NEW at \in {"none", "ended"}
             PROVE  LET k == [IdleLane EXCEPT !.at = at] IN
                      k \in LaneRow /\ LaneOK(k) /\ k.at = at /\ k.holds = FALSE
  OBVIOUS
<1>1. IdleLane \in LaneRow /\ IdleLane.holds = FALSE /\ IdleLane.out = NoReport
      /\ IdleLane.worker = IdleWorker
  BY NoReportOK, IdleWorkerOK DEF IdleLane, LaneRow, Ats
<1> DEFINE k == [IdleLane EXCEPT !.at = at]
<1>2. k \in LaneRow /\ k.at = at /\ k.out = IdleLane.out /\ k.worker = IdleLane.worker
  BY <1>1 DEF LaneRow, Ats
<1>3. k.holds = IdleLane.holds
  BY <1>1 DEF LaneRow
<1> HIDE DEF k
<1>4. LaneOK(k)
  BY <1>1, <1>2, <1>3, NoReportOK, IdleWorkerOK DEF LaneOK
<1> QED
  BY <1>1, <1>2, <1>3, <1>4 DEF k

LEMMA IdleLaneItself ==
  IdleLane \in LaneRow /\ LaneOK(IdleLane) /\ IdleLane.at = "none" /\ IdleLane.holds = FALSE
<1>1. IdleLane \in LaneRow /\ IdleLane.holds = FALSE /\ IdleLane.out = NoReport
      /\ IdleLane.worker = IdleWorker /\ IdleLane.at = "none"
  BY NoReportOK, IdleWorkerOK DEF IdleLane, LaneRow, Ats
<1> QED
  BY <1>1, NoReportOK, IdleWorkerOK DEF LaneOK

-----------------------------------------------------------------------------------
(* The threads that hold a permit of lane l. *)
Holders(l) == {s \in LaneStores : lane[s].holds /\ LaneOf[s] = l}

LEMMA HoldersFinite == \A l : IsFiniteSet(Holders(l)) /\ Cardinality(Holders(l)) \in Nat
<1> TAKE l
<1>1. Holders(l) \subseteq LaneStores
  BY DEF Holders
<1> QED
  BY <1>1, LaneConstants, FS_Subset, FS_CardinalityType

LEMMA PermitsSame ==
  ASSUME LanesIInv, UNCHANGED permits, \A s \in LaneStores : lane'[s].holds = lane[s].holds
  PROVE  PermitsAddUp'
<1> SUFFICES ASSUME NEW l \in DOMAIN Permits
             PROVE  permits[l] + Cardinality(Holders(l)') = Permits[l]
  BY DEF PermitsAddUp, Holders
<1>1. Holders(l)' = Holders(l)
  BY DEF Holders
<1> QED
  BY <1>1 DEF LanesIInv, PermitsAddUp, Holders

(* A step of the thread of one store that stays on the way it is on. *)
OnLane == {"waiting", "first", "between", "second", "reporting"}
OnBridge == {"bridge", "bridged"}
LEMMA OneLaneStages ==
  ASSUME LanesIInv, NEW s \in LaneStores, NEW k \in LaneRow, LaneOK(k),
         lane' = [lane EXCEPT ![s] = k], UNCHANGED <<report, search>>,
         \/ lane[s].at \in OnLane /\ k.at \in OnLane
         \/ lane[s].at \in OnBridge /\ k.at \in OnBridge
  PROVE  /\ lane' \in [LaneStores -> LaneRow] /\ \A t \in LaneStores : LaneOK(lane'[t])
         /\ StageOK' /\ ReturnedOK'
<1>1. lane' \in [LaneStores -> LaneRow] /\ lane'[s] = k
      /\ \A t \in LaneStores \ {s} : lane'[t] = lane[t]
  BY DEF LanesIInv
<1>2. \A t \in LaneStores : LaneOK(lane'[t])
  BY <1>1 DEF LanesIInv
<1>3. StageOK'
  BY <1>1 DEF LanesIInv, StageOK, OnLane, OnBridge
<1>4. ReturnedOK'
  BY DEF LanesIInv, ReturnedOK, MayBeAbsent
<1> QED
  BY <1>1, <1>2, <1>3, <1>4

LEMMA OneLane ==
  ASSUME LanesIInv, NEW s \in LaneStores, NEW k \in LaneRow, LaneOK(k),
         lane' = [lane EXCEPT ![s] = k], UNCHANGED <<permits, report, search>>,
         k.holds = lane[s].holds,
         \/ lane[s].at \in OnLane /\ k.at \in OnLane
         \/ lane[s].at \in OnBridge /\ k.at \in OnBridge
  PROVE  LanesIInv'
<1>1. PermitsAddUp'
  BY PermitsSame DEF LanesIInv
<1> QED
  BY <1>1, OneLaneStages DEF LanesIInv

-----------------------------------------------------------------------------------
(* The worker process and its pipe. *)
LEMMA WorkerMoves ==
  ASSUME LanesIInv, NEW s \in LaneStores, lane[s].at \in Attempts,
         NEW w \in Worker, WorkerOK(w), WorkerIs(s, w), UNCHANGED <<permits, report, search>>
  PROVE  LanesIInv'
<1> DEFINE k == [lane[s] EXCEPT !.worker = w]
<1>1. lane[s] \in LaneRow /\ LaneOK(lane[s])
  BY DEF LanesIInv
<1>2. k \in LaneRow /\ k.at = lane[s].at /\ k.holds = lane[s].holds /\ k.out = lane[s].out
      /\ k.worker = w
  BY <1>1 DEF LaneRow
<1>3. lane' = [lane EXCEPT ![s] = k]
  BY DEF WorkerIs
<1> HIDE DEF k
<1>4. LaneOK(k)
  BY <1>1, <1>2 DEF LaneOK, Attempts
<1> QED
  BY <1>2, <1>3, <1>4, OneLane DEF Attempts, OnLane, OnBridge

LEMMA WorkerRowOK ==
  ASSUME LanesIInv, NEW s \in LaneStores, WorkerRow(s)
  PROVE  LanesIInv'
<1> DEFINE w == lane[s].worker
<1>1. w \in Worker /\ WorkerOK(w) /\ w.alive /\ w.sent < MaxRows /\ lane[s].at \in Attempts
  BY DEF LanesIInv, LaneRow, LaneOK, WorkerRow, Running
<1>2. PICK kept \in {0, 1} :
        WorkerIs(s, [w EXCEPT !.sent = @ + 1,
                              !.pipe = [w.pipe EXCEPT !.rows = @ + 1, !.kept = @ + kept]])
  BY DEF WorkerRow
<1> DEFINE pipe == [w.pipe EXCEPT !.rows = @ + 1, !.kept = @ + kept]
           after == [w EXCEPT !.sent = @ + 1, !.pipe = pipe]
<1>3. w.pipe \in Pipe
  BY <1>1 DEF Worker
<1>30. pipe \in Pipe /\ pipe.kept = w.pipe.kept + kept /\ pipe.end = w.pipe.end
  <2>1. w.pipe.rows + 1 \in Nat /\ w.pipe.kept + kept \in Nat
    BY <1>3 DEF Pipe
  <2>2. pipe = [w.pipe EXCEPT !.rows = w.pipe.rows + 1, !.kept = w.pipe.kept + kept]
    OBVIOUS
  <2> HIDE DEF w, pipe
  <2> QED
    BY <1>3, <2>1, <2>2 DEF Pipe
<1>4. WorkerIs(s, after)
  BY <1>2
<1>5. w.sent + 1 \in 0 .. MaxRows
  BY <1>1, LaneConstants DEF Worker
<1> HIDE DEF pipe
<1>6. after \in Worker /\ after.sent = w.sent + 1 /\ after.pipe = pipe /\ after.got = w.got
  BY <1>1, <1>30, <1>5 DEF Worker
<1>7. after.alive = w.alive /\ after.last = w.last /\ after.said = w.said /\ after.failed = w.failed
  BY <1>1 DEF Worker
<1> HIDE DEF after
<1>8. WorkerOK(after)
  <2>1. after.got + after.pipe.kept <= after.sent
    <3>1. w.got \in Nat /\ w.pipe.kept \in Nat /\ w.sent \in Nat /\ w.got + w.pipe.kept <= w.sent
      BY <1>1 DEF WorkerOK, Worker, Pipe
    <3> QED
      BY <1>30, <1>6, <3>1
  <2> QED
    BY <1>1, <1>30, <1>6, <1>7, <2>1 DEF WorkerOK
<1> QED
  BY <1>1, <1>4, <1>6, <1>8, WorkerMoves DEF WorkerRow

LEMMA LastEventOK ==
  ASSUME NEW raw \in ScraperReturns
  PROVE  /\ LastEvent(raw) \in Event
         /\ LastEvent(raw).status = NormaliseReport(raw).status
         /\ LastEvent(raw).verified = NormaliseReport(raw).verified
         /\ raw.shape = "raises" => ~Proves(LastEvent(raw))
<1> DEFINE r == NormaliseReport(raw)
<1>1. r.status \in NativeStatuses /\ r.verified \in BOOLEAN
  <2>1. CASE raw \in [shape : {"dict"}, status : NativeStatuses \cup {"other"},
                      verified : {"yes", "no", "absent"}, rows : BOOLEAN]
    BY <2>1 DEF NormaliseReport, Report, NativeStatuses
  <2>2. CASE raw \in [shape : {"list", "iterable"}, rows : BOOLEAN]
    BY <2>2 DEF NormaliseReport, Report, NativeStatuses
  <2>3. CASE raw \in [shape : {"none", "raises"}]
    BY <2>3 DEF NormaliseReport, Report, NativeStatuses, FailedReport
  <2> QED
    BY <2>1, <2>2, <2>3 DEF ScraperReturns
<1>2. raw.shape = "raises" => r.status = "failed"
  BY DEF NormaliseReport, FailedReport, Report
<1> HIDE DEF r
<1>3. LastEvent(raw) = [status |-> r.status, verified |-> r.verified, rows |-> FALSE]
  BY DEF LastEvent, Report, r
<1> QED
  BY <1>1, <1>2, <1>3 DEF Event, Proves, r

LEMMA WorkerEndsOK ==
  ASSUME LanesIInv, NEW s \in LaneStores, WorkerEnds(s)
  PROVE  LanesIInv'
<1> DEFINE w == lane[s].worker
<1>1. w \in Worker /\ WorkerOK(w) /\ w.alive /\ lane[s].at \in Attempts
  BY DEF LanesIInv, LaneRow, LaneOK, WorkerEnds, Running
<1>2. PICK raw \in ScraperReturns :
        WorkerIs(s, [w EXCEPT !.alive = FALSE, !.failed = raw.shape = "raises",
                              !.said = NormaliseReport(raw).status = "success"
                                       /\ NormaliseReport(raw).verified,
                              !.pipe = [@ EXCEPT !.end = LastEvent(raw)]])
  BY DEF WorkerEnds
<1> DEFINE e == LastEvent(raw)
           raised == raw.shape = "raises"
           said == NormaliseReport(raw).status = "success" /\ NormaliseReport(raw).verified
           pipe == [w.pipe EXCEPT !.end = e]
           after == [w EXCEPT !.alive = FALSE, !.failed = raised, !.said = said, !.pipe = pipe]
<1>3. WorkerIs(s, after)
  BY <1>2
<1>4. e \in Event /\ (Proves(e) => said) /\ (raised => ~Proves(e))
  BY LastEventOK DEF Proves
<1>5. said \in BOOLEAN /\ raised \in BOOLEAN
  OBVIOUS
<1> HIDE DEF e, raised, said
<1>6. pipe \in Pipe /\ pipe.kept = w.pipe.kept /\ pipe.end = e
  BY <1>1, <1>4 DEF Worker, Pipe
<1> HIDE DEF pipe
<1>7. after \in Worker
  BY <1>1, <1>5, <1>6 DEF Worker
<1>8. after.alive = FALSE /\ after.failed = raised /\ after.said = said /\ after.pipe = pipe
  BY <1>1 DEF Worker
<1>9. after.got = w.got /\ after.sent = w.sent /\ after.last = w.last
  BY <1>1 DEF Worker
<1> HIDE DEF after
<1>10. WorkerOK(after)
  BY <1>1, <1>4, <1>6, <1>8, <1>9, NoReportOK DEF WorkerOK
<1> QED
  BY <1>1, <1>3, <1>7, <1>10, WorkerMoves DEF WorkerEnds

LEMMA WorkerKilledOK ==
  ASSUME LanesIInv, NEW s \in LaneStores, WorkerKilled(s)
  PROVE  LanesIInv'
<1> DEFINE w == lane[s].worker
           after == [w EXCEPT !.alive = FALSE, !.failed = TRUE]
<1>1. w \in Worker /\ WorkerOK(w) /\ w.alive /\ lane[s].at \in Attempts /\ WorkerIs(s, after)
  BY DEF LanesIInv, LaneRow, LaneOK, WorkerKilled, Running
<1>2. after \in Worker /\ after.pipe = w.pipe /\ after.got = w.got /\ after.sent = w.sent
      /\ after.last = w.last
  BY <1>1 DEF Worker
<1>3. after.alive = FALSE
  BY <1>1 DEF Worker
<1> HIDE DEF after
<1>4. WorkerOK(after)
  BY <1>1, <1>2, <1>3, NoReportOK DEF WorkerOK
<1> QED
  BY <1>1, <1>2, <1>4, WorkerMoves DEF WorkerKilled

LEMMA ParsedOK ==
  ASSUME NEW w \in Worker, WorkerOK(w)
  PROVE  Parsed(w) \in Worker /\ WorkerOK(Parsed(w))
<1> DEFINE got == w.got + w.pipe.kept
           last == IF w.pipe.end = NoReport THEN w.last ELSE w.pipe.end
           after == [w EXCEPT !.got = got, !.pipe = EmptyPipe, !.last = last]
<1>1. Parsed(w) = after
  BY DEF Parsed, Worker
<1>2. w.pipe \in Pipe /\ w.got \in 0 .. MaxRows /\ w.sent \in 0 .. MaxRows /\ w.last \in Event
  BY DEF Worker
<1>3. got \in 0 .. MaxRows /\ got + 0 <= w.sent
  BY <1>2, LaneConstants DEF WorkerOK, Pipe
<1>4. last \in Event /\ (Proves(last) => w.said /\ ~w.failed) /\ (w.alive => last = NoReport)
  BY <1>2 DEF WorkerOK, Pipe
<1>5. EmptyPipe \in Pipe /\ EmptyPipe.kept = 0 /\ EmptyPipe.end = NoReport
  BY NoReportOK DEF EmptyPipe, Pipe
<1> HIDE DEF got, last
<1>6. after \in Worker /\ after.got = got /\ after.pipe = EmptyPipe /\ after.last = last
  BY <1>3, <1>4, <1>5 DEF Worker
<1>7. after.sent = w.sent /\ after.alive = w.alive /\ after.said = w.said /\ after.failed = w.failed
  BY DEF Worker
<1> HIDE DEF after
<1>8. WorkerOK(after)
  BY <1>3, <1>4, <1>5, <1>6, <1>7, NoReportOK DEF WorkerOK
<1> QED
  BY <1>1, <1>6, <1>8

LEMMA ReadsOK ==
  ASSUME LanesIInv, NEW s \in LaneStores, Reads(s)
  PROVE  LanesIInv'
  BY ParsedOK, WorkerMoves DEF Reads, LanesIInv, LaneRow, LaneOK

LEMMA TailOfOK ==
  ASSUME NEW w \in Worker, WorkerOK(w)
  PROVE  TailOf(w) \in Worker /\ WorkerOK(TailOf(w))
<1> DEFINE after == [w EXCEPT !.pipe = EmptyPipe]
<1>1. EmptyPipe \in Pipe /\ EmptyPipe.kept = 0 /\ EmptyPipe.end = NoReport
  BY NoReportOK DEF EmptyPipe, Pipe
<1>2. after \in Worker /\ after.got = w.got /\ after.pipe = EmptyPipe /\ after.last = w.last
  BY <1>1 DEF Worker
<1>3. after.sent = w.sent /\ after.alive = w.alive /\ after.said = w.said /\ after.failed = w.failed
  BY DEF Worker
<1> HIDE DEF after
<1>4. w.got \in Nat /\ w.pipe.kept \in Nat /\ w.sent \in Nat
  BY DEF Worker, Pipe
<1>5. WorkerOK(after)
  BY <1>1, <1>2, <1>3, <1>4, NoReportOK DEF WorkerOK
<1> QED
  BY <1>2, <1>5, ParsedOK DEF TailOf, after

-----------------------------------------------------------------------------------
(* The end of an attempt. *)
LEMMA AttemptOverOK ==
  ASSUME LanesIInv, NEW s \in LaneStores, lane[s].at \in Attempts, NEW r \in OutRow,
         NEW w \in Worker, WorkerOK(w), r.status # "none",
         r.status = "no_match" => /\ r.verified /\ ~r.rows
                                  /\ w.said /\ ~w.failed /\ w.got = 0,
         AttemptOver(s, r, w), UNCHANGED <<permits, report, search>>
  PROVE  LanesIInv'
<1> DEFINE k == lane[s]
           next == IF k.at = "bridge" THEN "bridged"
                   ELSE IF k.at = "second" \/ r.status = "failed" \/ Conclusive(r) THEN "reporting"
                   ELSE "between"
           out == IF k.at = "second" THEN SecondReport(r) ELSE r
           after == [k EXCEPT !.at = next, !.out = out, !.worker = w]
<1>1. k \in LaneRow /\ LaneOK(k) /\ lane' = [lane EXCEPT ![s] = after]
  BY DEF LanesIInv, AttemptOver
<1>2. out \in OutRow /\ out.status # "none"
  BY DEF SecondReport, Report, OutRow
<1>3. next \in Ats /\ (k.at \in OnLane => next \in OnLane) /\ (k.at \in OnBridge => next \in OnBridge)
      /\ next \in {"between", "reporting", "bridged"}
  BY DEF Ats, OnLane, OnBridge, Attempts
<1>4. ASSUME out.status = "no_match"
      PROVE  /\ out = r /\ next \in {"reporting", "bridged"}
  <2>1. out = r
    BY <1>4 DEF SecondReport, Report
  <2>2. Conclusive(r)
    BY <1>4, <2>1 DEF Conclusive
  <2> QED
    BY <2>1, <2>2
<1>5. k.at = "bridge" => next = "bridged"
  OBVIOUS
<1> HIDE DEF next, out
<1>6. after \in LaneRow /\ after.at = next /\ after.out = out /\ after.worker = w
  BY <1>1, <1>2, <1>3 DEF LaneRow
<1>7. after.holds = k.holds
  BY <1>1 DEF LaneRow
<1> HIDE DEF after
<1>8. after.holds => after.at \in {"first", "between", "second", "reporting"}
  BY <1>1, <1>3, <1>6, <1>7 DEF LaneOK, OnLane, Attempts
<1>9. LaneOK(after)
  BY <1>2, <1>4, <1>6, <1>8 DEF LaneOK
<1>10. k.at \in OnLane \/ k.at \in OnBridge
  BY DEF Attempts, OnLane, OnBridge
<1> QED
  BY <1>1, <1>3, <1>6, <1>7, <1>9, <1>10, OneLane

(* A no_match is the verified success of a process that ended by itself. *)
LEMMA PublicReportOK ==
  ASSUME NEW w \in Worker, WorkerOK(w)
  PROVE  /\ PublicReport(w) \in OutRow /\ PublicReport(w).status # "none"
         /\ PublicReport(w).status = "no_match" =>
              /\ PublicReport(w).verified /\ ~PublicReport(w).rows
              /\ w.said /\ ~w.failed /\ w.got = 0
<1> DEFINE status == IF w.last.status # "none" THEN w.last.status
                     ELSE IF w.got > 0 THEN "success" ELSE "failed"
           verified == IF w.last.status # "none" THEN w.last.verified ELSE w.got > 0
           public == IF status = "success" /\ verified /\ w.got = 0 THEN "no_match"
                     ELSE IF status = "success" /\ w.got > 0 THEN "ok" ELSE status
           got == w.got > 0
<1>1. w.last \in Event /\ w.got \in Nat
  BY DEF Worker
<1>2. status \in {"success", "partial", "failed"} /\ verified \in BOOLEAN /\ got \in BOOLEAN
  <2>1. w.last.status \in {"none", "success", "partial", "failed"} /\ w.last.verified \in BOOLEAN
    BY <1>1 DEF Event, NativeStatuses
  <2>2. got \in BOOLEAN
    OBVIOUS
  <2>3. verified \in BOOLEAN
    BY <2>1, <2>2
  <2> QED
    BY <2>1, <2>2, <2>3
<1>3. ASSUME public = "no_match" PROVE verified /\ ~got /\ w.got = 0 /\ w.said /\ ~w.failed
  <2>1. status = "success" /\ verified /\ w.got = 0
    BY <1>2, <1>3
  <2>2. Proves(w.last)
    BY <2>1 DEF Proves
  <2> QED
    BY <1>1, <2>1, <2>2 DEF WorkerOK
<1>4. public \in {"no_match", "ok", "success", "partial", "failed"}
  BY <1>2
<1>5. PublicReport(w) = IF w.failed /\ w.last.status \notin {"success", "partial"}
                        THEN [status |-> "failed", verified |-> FALSE, rows |-> got]
                        ELSE [status |-> public, verified |-> verified, rows |-> got]
  BY DEF PublicReport, Report
<1> HIDE DEF public, verified, got
<1> QED
  BY <1>2, <1>3, <1>4, <1>5 DEF OutRow

LEMMA AttemptEndsOK ==
  ASSUME LanesIInv, NEW s \in LaneStores, ProcessSeenEnded(s) \/ Deadline(s) \/ CancelSeen(s)
  PROVE  LanesIInv'
<1>1. lane[s].worker \in Worker /\ WorkerOK(lane[s].worker)
  BY DEF LanesIInv, LaneRow, LaneOK
<1>2. CASE ProcessSeenEnded(s)
  <2> DEFINE w == TailOf(lane[s].worker)
  <2>1. w \in Worker /\ WorkerOK(w)
    BY <1>1, TailOfOK
  <2>2. lane[s].at \in Attempts /\ AttemptOver(s, PublicReport(w), w)
        /\ UNCHANGED <<permits, report, search>>
    BY <1>2 DEF ProcessSeenEnded
  <2> HIDE DEF w
  <2> QED
    BY <2>1, <2>2, PublicReportOK, AttemptOverOK
<1>3. CASE Deadline(s) \/ CancelSeen(s)
  BY <1>3, IdleWorkerOK, FailedReportOK, AttemptOverOK DEF Deadline, CancelSeen
<1> QED
  BY <1>2, <1>3

(* A new worker process. *)
LEMMA AttemptBegins ==
  ASSUME NEW k \in LaneRow, LaneOK(k), k.at \in {"none", "waiting", "between"},
         NEW at \in {"first", "second", "bridge"}, k.holds => at # "bridge"
  PROVE  LET after == [k EXCEPT !.at = at, !.worker = NewWorker]
         IN  after \in LaneRow /\ LaneOK(after) /\ after.at = at /\ after.holds = k.holds
<1> DEFINE after == [k EXCEPT !.at = at, !.worker = NewWorker]
<1>1. after \in LaneRow /\ after.at = at /\ after.worker = NewWorker
  BY NewWorkerOK DEF LaneRow, Ats
<1>2. after.out = k.out /\ after.holds = k.holds
  BY DEF LaneRow
<1> HIDE DEF after
<1>3. LaneOK(after)
  BY <1>1, <1>2, NewWorkerOK DEF LaneOK
<1> QED
  BY <1>1, <1>2, <1>3 DEF after

LEMMA TryAgainOK ==
  ASSUME LanesIInv, NEW s \in LaneStores, TryAgain(s)
  PROVE  LanesIInv'
<1> DEFINE k == lane[s]
           after == [k EXCEPT !.at = "second", !.worker = NewWorker]
<1>1. k \in LaneRow /\ LaneOK(k) /\ k.at = "between"
  BY DEF LanesIInv, TryAgain
<1>2. after \in LaneRow /\ LaneOK(after) /\ after.at = "second" /\ after.holds = k.holds
  BY <1>1, AttemptBegins
<1>3. lane' = [lane EXCEPT ![s] = after] /\ UNCHANGED <<permits, report, search>>
  BY DEF TryAgain, NewWorker
<1> HIDE DEF after
<1> QED
  BY <1>1, <1>2, <1>3, OneLane DEF OnLane

LEMMA TakePermitOK ==
  ASSUME LanesIInv, NEW s \in LaneStores, TakePermit(s)
  PROVE  LanesIInv'
<1> DEFINE k == lane[s]
           l == LaneOf[s]
           after == [k EXCEPT !.at = "first", !.holds = TRUE, !.worker = NewWorker]
<1>1. k \in LaneRow /\ LaneOK(k) /\ k.at = "waiting" /\ k.holds = FALSE
      /\ l \in DOMAIN Permits /\ permits[l] \in Nat /\ permits[l] > 0
  BY LaneConstants DEF LanesIInv, TakePermit, LaneRow, LaneOK
<1>2. after \in LaneRow /\ LaneOK(after) /\ after.at = "first" /\ after.holds = TRUE
  <2>1. after \in LaneRow /\ after.at = "first" /\ after.worker = NewWorker /\ after.out = k.out
    BY <1>1, NewWorkerOK DEF LaneRow, Ats
  <2>2. after.holds = TRUE
    BY <1>1 DEF LaneRow
  <2> HIDE DEF after
  <2>3. LaneOK(after)
    BY <1>1, <2>1, <2>2, NewWorkerOK DEF LaneOK
  <2> QED
    BY <2>1, <2>2, <2>3
<1>3. lane' = [lane EXCEPT ![s] = after]
  BY DEF TakePermit, NewWorker
<1>4. permits' = [permits EXCEPT ![l] = permits[l] - 1] /\ UNCHANGED <<report, search>>
  BY DEF TakePermit
<1> HIDE DEF after
<1>5. permits' \in [DOMAIN Permits -> Nat]
  BY <1>1, <1>4 DEF LanesIInv
<1>6. PermitsAddUp'
  <2> SUFFICES ASSUME NEW m \in DOMAIN Permits
               PROVE  permits'[m] + Cardinality(Holders(m)') = Permits[m]
    BY DEF PermitsAddUp, Holders
  <2>1. permits[m] + Cardinality(Holders(m)) = Permits[m]
    BY DEF LanesIInv, PermitsAddUp, Holders
  <2>2. IsFiniteSet(Holders(m)) /\ Cardinality(Holders(m)) \in Nat
    BY HoldersFinite
  <2>3. CASE m = l
    <3>1. Holders(m)' = Holders(m) \cup {s} /\ s \notin Holders(m)
      BY <1>1, <1>2, <1>3, <2>3 DEF Holders, LanesIInv
    <3>2. Cardinality(Holders(m)') = Cardinality(Holders(m)) + 1
      BY <2>2, <3>1, FS_AddElement
    <3>3. permits'[m] = permits[m] - 1
      BY <1>4, <2>3 DEF LanesIInv
    <3> QED
      BY <1>1, <2>1, <2>2, <2>3, <3>2, <3>3, LaneConstants
  <2>4. CASE m # l
    <3>1. Holders(m)' = Holders(m)
      BY <1>3, <2>4 DEF Holders, LanesIInv
    <3> QED
      BY <1>4, <2>1, <2>4, <3>1 DEF LanesIInv
  <2> QED
    BY <2>3, <2>4
<1> QED
  BY <1>1, <1>2, <1>3, <1>4, <1>5, <1>6, OneLaneStages DEF LanesIInv, OnLane

LEMMA GiveUpLaneOK ==
  ASSUME LanesIInv, NEW s \in LaneStores, GiveUpLane(s)
  PROVE  LanesIInv'
<1> DEFINE k == lane[s]
           after == [k EXCEPT !.at = "reporting", !.out = FailedReport]
<1>1. k \in LaneRow /\ LaneOK(k) /\ k.at = "waiting"
  BY DEF LanesIInv, GiveUpLane
<1>2. after \in LaneRow /\ after.at = "reporting" /\ after.out = FailedReport
      /\ after.holds = k.holds /\ after.worker = k.worker
  BY <1>1, FailedReportOK DEF LaneRow, Ats
<1>3. lane' = [lane EXCEPT ![s] = after] /\ UNCHANGED <<permits, report, search>>
  BY DEF GiveUpLane
<1> HIDE DEF after
<1>4. LaneOK(after)
  BY <1>1, <1>2, FailedReportOK DEF LaneOK
<1> QED
  BY <1>1, <1>2, <1>3, <1>4, OneLane DEF OnLane

LEMMA GiveBackOK ==
  ASSUME LanesIInv, NEW s \in LaneStores, GiveBack(s)
  PROVE  LanesIInv'
<1> DEFINE k == lane[s]
           l == LaneOf[s]
           after == [k EXCEPT !.holds = FALSE]
<1>1. k \in LaneRow /\ LaneOK(k) /\ k.at = "reporting" /\ k.holds
      /\ l \in DOMAIN Permits /\ permits[l] \in Nat
  BY LaneConstants DEF LanesIInv, GiveBack
<1>2. after \in LaneRow /\ after.at = k.at /\ after.out = k.out /\ after.worker = k.worker
  BY <1>1 DEF LaneRow
<1>3. after.holds = FALSE
  BY <1>1 DEF LaneRow
<1>4. lane' = [lane EXCEPT ![s] = after]
  BY DEF GiveBack
<1>5. permits' = [permits EXCEPT ![l] = permits[l] + 1] /\ UNCHANGED <<report, search>>
  BY DEF GiveBack
<1> HIDE DEF after
<1>6. LaneOK(after)
  BY <1>1, <1>2, <1>3 DEF LaneOK
<1>7. permits' \in [DOMAIN Permits -> Nat]
  BY <1>1, <1>5 DEF LanesIInv
<1>8. PermitsAddUp'
  <2> SUFFICES ASSUME NEW m \in DOMAIN Permits
               PROVE  permits'[m] + Cardinality(Holders(m)') = Permits[m]
    BY DEF PermitsAddUp, Holders
  <2>1. permits[m] + Cardinality(Holders(m)) = Permits[m]
    BY DEF LanesIInv, PermitsAddUp, Holders
  <2>2. IsFiniteSet(Holders(m)) /\ Cardinality(Holders(m)) \in Nat
    BY HoldersFinite
  <2>3. CASE m = l
    <3>1. Holders(m)' = Holders(m) \ {s} /\ s \in Holders(m)
      BY <1>1, <1>3, <1>4, <2>3 DEF Holders, LanesIInv
    <3>2. Cardinality(Holders(m)') = Cardinality(Holders(m)) - 1
      BY <2>2, <3>1, FS_RemoveElement
    <3>3. permits'[m] = permits[m] + 1
      BY <1>5, <2>3 DEF LanesIInv
    <3> QED
      BY <1>1, <2>1, <2>2, <2>3, <3>2, <3>3, LaneConstants
  <2>4. CASE m # l
    <3>1. Holders(m)' = Holders(m)
      BY <1>4, <2>4 DEF Holders, LanesIInv
    <3> QED
      BY <1>5, <2>1, <2>4, <3>1 DEF LanesIInv
  <2> QED
    BY <2>3, <2>4
<1> QED
  BY <1>1, <1>2, <1>4, <1>5, <1>6, <1>7, <1>8, OneLaneStages DEF LanesIInv, OnLane

LEMMA PublishOK ==
  ASSUME LanesIInv, NEW s \in LaneStores, Publish(s)
  PROVE  LanesIInv'
<1> DEFINE k == lane[s]
           after == [IdleLane EXCEPT !.at = "ended"]
<1>1. k \in LaneRow /\ LaneOK(k) /\ k.at = "reporting" /\ k.holds = FALSE
      /\ k.out \in ReportRow /\ k.out.status # "none"
  BY OutIsReport DEF LanesIInv, Publish, LaneOK, LaneRow
<1>2. after \in LaneRow /\ LaneOK(after) /\ after.at = "ended" /\ after.holds = FALSE
  BY IdleLaneOK DEF LaneRow
<1>3. lane' = [lane EXCEPT ![s] = after] /\ report' = [report EXCEPT ![s] = k.out]
      /\ UNCHANGED <<permits, search>>
  BY DEF Publish
<1> HIDE DEF after
<1>4. lane' \in [LaneStores -> LaneRow] /\ lane'[s] = after
      /\ \A t \in LaneStores \ {s} : lane'[t] = lane[t]
  BY <1>2, <1>3 DEF LanesIInv
<1>5. report' \in [LaneStores -> ReportRow] /\ report'[s] = k.out
      /\ \A t \in LaneStores \ {s} : report'[t] = report[t]
  BY <1>1, <1>3 DEF LanesIInv
<1>6. \A t \in LaneStores : LaneOK(lane'[t])
  BY <1>2, <1>4 DEF LanesIInv
<1>7. PermitsAddUp'
  <2>1. \A t \in LaneStores : lane'[t].holds = lane[t].holds
    BY <1>1, <1>2, <1>4
  <2> QED
    BY <1>3, <2>1, PermitsSame
<1>8. StageOK'
  BY <1>1, <1>2, <1>3, <1>4, <1>5 DEF LanesIInv, StageOK
<1>9. ReturnedOK'
  <2>1. search.at # "bridging"
    BY <1>1 DEF LanesIInv, StageOK
  <2> QED
    BY <1>1, <1>3, <1>5, <2>1 DEF LanesIInv, ReturnedOK, MayBeAbsent
<1> QED
  BY <1>3, <1>4, <1>5, <1>6, <1>7, <1>8, <1>9 DEF LanesIInv

LEMMA LaneStepOK ==
  ASSUME LanesIInv, NEW s \in LaneStores, LaneStep(s)
  PROVE  LanesIInv'
  BY WorkerRowOK, WorkerEndsOK, WorkerKilledOK, ReadsOK, AttemptEndsOK, TryAgainOK,
     TakePermitOK, GiveUpLaneOK, GiveBackOK, PublishOK DEF LaneStep

-----------------------------------------------------------------------------------
(* The collecting thread. *)
LEMMA SearchParts ==
  ASSUME NEW k \in SearchRow
  PROVE  /\ k.returned \in [LaneStores -> ReportRow] /\ k.unfinished \subseteq LaneStores
         /\ k.lanes \in BOOLEAN /\ k.cancel \in BOOLEAN
  BY DEF SearchRow

LEMMA StartLanesOK == ASSUME LanesIInv, StartLanes PROVE LanesIInv'
<1> DEFINE k(s) == [lane[s] EXCEPT !.at = "waiting"]
           after == [search EXCEPT !.at = "joining", !.lanes = TRUE]
<1>1. search \in SearchRow /\ search.at = "idle" /\ search' = after
      /\ UNCHANGED <<permits, report>> /\ lane' = [s \in LaneStores |-> k(s)]
  BY DEF LanesIInv, StartLanes
<1>2. ASSUME NEW s \in LaneStores
      PROVE  /\ k(s) \in LaneRow /\ LaneOK(k(s))
             /\ k(s).at = "waiting" /\ k(s).holds = lane[s].holds
  <2>1. lane[s] \in LaneRow /\ LaneOK(lane[s]) /\ lane[s].at = "none"
    BY <1>1 DEF LanesIInv, StageOK
  <2>2. k(s) \in LaneRow /\ k(s).at = "waiting" /\ k(s).holds = lane[s].holds
        /\ k(s).out = lane[s].out /\ k(s).worker = lane[s].worker
    BY <2>1 DEF LaneRow, Ats
  <2> QED
    BY <2>1, <2>2 DEF LaneOK
<1> HIDE DEF k
<1>3. after \in SearchRow /\ after.at = "joining" /\ after.lanes = TRUE
  BY <1>1 DEF SearchRow
<1>4. after.rows = search.rows /\ after.returned = search.returned
  BY <1>1 DEF SearchRow
<1> HIDE DEF after
<1>5. PermitsAddUp'
  BY <1>1, <1>2, PermitsSame
<1>6. \A s \in LaneStores : search.rows[s] = "none"
  BY <1>1 DEF LanesIInv, StageOK
<1>7. ReturnedOK'
  BY <1>1, <1>3, <1>4, <1>6, NoReportOK DEF LanesIInv, ReturnedOK, MayBeAbsent
<1> QED
  BY <1>1, <1>2, <1>3, <1>4, <1>5, <1>6, <1>7 DEF LanesIInv, StageOK

(* Steps of the search alone that leave its stage, its rows and its list. *)
LEMMA JoinDeadlineOK == ASSUME LanesIInv, JoinDeadline PROVE LanesIInv'
<1> DEFINE after == [search EXCEPT !.at = "cancelling", !.cancel = TRUE, !.unfinished = Alive]
<1>1. search \in SearchRow /\ search.at = "joining" /\ search' = after
      /\ UNCHANGED <<lane, permits, report>> /\ Alive \subseteq LaneStores
  BY DEF LanesIInv, JoinDeadline, Alive
<1>2. after \in SearchRow /\ after.at = "cancelling" /\ after.unfinished = Alive /\ after.cancel
  BY <1>1 DEF SearchRow
<1>3. after.rows = search.rows /\ after.returned = search.returned /\ after.lanes = search.lanes
  BY <1>1 DEF SearchRow
<1> HIDE DEF after
<1>4. PermitsAddUp'
  BY <1>1, PermitsSame
<1> QED
  BY <1>1, <1>2, <1>3, <1>4 DEF LanesIInv, StageOK, ReturnedOK, MayBeAbsent, Alive

LEMMA CancelSearchOK == ASSUME LanesIInv, CancelSearch PROVE LanesIInv'
<1> DEFINE after == [search EXCEPT !.cancel = TRUE]
<1>1. search \in SearchRow /\ search' = after /\ UNCHANGED <<lane, permits, report>>
  BY DEF LanesIInv, CancelSearch
<1>2. after \in SearchRow /\ after.at = search.at /\ after.unfinished = search.unfinished
      /\ after.cancel
  BY <1>1 DEF SearchRow
<1>3. after.rows = search.rows /\ after.returned = search.returned /\ after.lanes = search.lanes
  BY <1>1 DEF SearchRow
<1> HIDE DEF after
<1>4. PermitsAddUp'
  BY <1>1, PermitsSame
<1> QED
  BY <1>1, <1>2, <1>3, <1>4 DEF LanesIInv, StageOK, ReturnedOK, MayBeAbsent

LEMMA CollectReportsOK == ASSUME LanesIInv, CollectReports PROVE LanesIInv'
<1> DEFINE whole == [s \in LaneStores |->
                       IF report[s] = NoReport /\ s \in search.unfinished
                       THEN FailedReport ELSE report[s]]
           after == [search EXCEPT !.at = "returned", !.returned = whole]
<1>1. search \in SearchRow /\ search' = after /\ report' = whole /\ UNCHANGED <<lane, permits>>
      /\ search.lanes
      /\ \/ search.at = "joining" /\ Alive = {}
         \/ search.at = "cancelling"
  BY DEF LanesIInv, CollectReports, StageOK
<1>2. whole \in [LaneStores -> ReportRow]
  BY FailedReportOK DEF LanesIInv
<1>3. \A s \in LaneStores : whole[s].status # "none"
  <2> SUFFICES ASSUME NEW s \in LaneStores PROVE whole[s].status # "none"
    OBVIOUS
  <2>1. CASE lane[s].at = "ended"
    <3>1. report[s].status # "none" /\ report[s] # NoReport
      BY <1>1, <2>1, NoReportOK DEF LanesIInv, StageOK
    <3> QED
      BY <3>1
  <2>2. CASE lane[s].at # "ended"
    <3>1. s \in search.unfinished
      BY <1>1, <2>2 DEF LanesIInv, StageOK, Alive
    <3>2. report[s] = NoReport \/ report[s].status # "none"
      BY DEF LanesIInv, ReturnedOK
    <3> QED
      BY <3>1, <3>2, FailedReportOK
  <2> QED
    BY <2>1, <2>2
<1>4. \A s \in LaneStores : lane[s].at = "ended" => whole[s].status # "none"
  BY <1>3
<1> HIDE DEF whole
<1>5. after \in SearchRow /\ after.at = "returned" /\ after.returned = whole
  BY <1>1, <1>2 DEF SearchRow
<1>6. after.rows = search.rows /\ after.lanes = search.lanes
  BY <1>1 DEF SearchRow
<1> HIDE DEF after
<1>7. PermitsAddUp'
  BY <1>1, PermitsSame
<1>8. StageOK'
  BY <1>1, <1>4, <1>5, <1>6 DEF LanesIInv, StageOK
<1>9. ReturnedOK'
  BY <1>1, <1>3, <1>5, <1>6 DEF LanesIInv, StageOK, ReturnedOK, MayBeAbsent
<1> QED
  BY <1>1, <1>2, <1>5, <1>7, <1>8, <1>9 DEF LanesIInv

LEMMA SearchCatalogueOK == ASSUME LanesIInv, SearchCatalogue PROVE LanesIInv'
<1>1. PICK rows \in [LaneStores -> RowKinds],
           failed \in BOOLEAN, indexed \in SUBSET LaneStores :
        search' = [search EXCEPT !.at = "resolving", !.rows = rows, !.failed = failed,
                                 !.indexed = indexed]
  BY DEF SearchCatalogue, IndexedStores
<1> DEFINE after == [search EXCEPT !.at = "resolving", !.rows = rows, !.failed = failed,
                                   !.indexed = indexed]
<1>2. search \in SearchRow /\ search.at = "idle" /\ UNCHANGED <<lane, permits, report>>
      /\ ~search.lanes
  BY DEF LanesIInv, SearchCatalogue, StageOK
<1>3. after \in SearchRow /\ after.at = "resolving" /\ after.rows = rows
  BY <1>2 DEF SearchRow
<1>4. after.returned = search.returned /\ after.lanes = search.lanes
  BY <1>2 DEF SearchRow
<1> HIDE DEF after
<1>5. search' = after
  BY <1>1 DEF after
<1>6. PermitsAddUp'
  BY <1>2, PermitsSame
<1>7. StageOK'
  BY <1>2, <1>3, <1>4, <1>5 DEF LanesIInv, StageOK
<1>8. ReturnedOK'
  BY <1>2, <1>3, <1>4, <1>5, NoReportOK DEF LanesIInv, ReturnedOK
<1> QED
  BY <1>2, <1>3, <1>5, <1>6, <1>7, <1>8 DEF LanesIInv

(* The search returns with the list it has, or with a new one. *)
LEMMA ListReturned ==
  ASSUME LanesIInv, ~search.lanes, search.at # "returned",
         NEW list \in [LaneStores -> ReportRow],
         \A s \in LaneStores : list[s].status = "no_match" => MayBeAbsent(s),
         search' = [search EXCEPT !.at = "returned", !.returned = list],
         \A s \in LaneStores : lane'[s].at \in {"none", "bridge", "bridged", "ended"}
                               /\ (report'[s] = NoReport \/ report'[s].status # "none")
  PROVE  search' \in SearchRow /\ StageOK' /\ ReturnedOK'
<1> DEFINE after == [search EXCEPT !.at = "returned", !.returned = list]
<1>1. search \in SearchRow
  BY DEF LanesIInv
<1>2. after \in SearchRow /\ after.at = "returned" /\ after.returned = list
  BY <1>1 DEF SearchRow
<1>3. after.rows = search.rows /\ after.lanes = search.lanes /\ after.cancel = search.cancel
  BY <1>1 DEF SearchRow
<1> HIDE DEF after
<1>4. search' = after
  BY DEF after
<1>5. StageOK'
  BY <1>2, <1>3, <1>4 DEF StageOK
<1>6. ReturnedOK'
  BY <1>2, <1>3, <1>4 DEF ReturnedOK, MayBeAbsent
<1> QED
  BY <1>2, <1>4, <1>5, <1>6

LEMMA CancelledInCatalogueOK == ASSUME LanesIInv, CancelledInCatalogue PROVE LanesIInv'
<1>1. search \in SearchRow /\ search.at = "resolving" /\ ~search.lanes
      /\ \A s \in LaneStores : search.returned[s] = NoReport /\ lane[s].at = "none"
  BY DEF LanesIInv, CancelledInCatalogue, StageOK, ReturnedOK
<1>2. search' = [search EXCEPT !.at = "returned", !.returned = search.returned]
  BY <1>1 DEF CancelledInCatalogue, SearchRow
<1>3. UNCHANGED <<lane, permits, report>>
  BY DEF CancelledInCatalogue
<1>4. search.returned \in [LaneStores -> ReportRow]
  BY <1>1, SearchParts
<1>5. search' \in SearchRow /\ StageOK' /\ ReturnedOK'
  <2>1. \A s \in LaneStores : report'[s] = NoReport \/ report'[s].status # "none"
    BY <1>3 DEF LanesIInv, ReturnedOK
  <2> QED
    BY <1>1, <1>2, <1>3, <1>4, <2>1, NoReportOK, ListReturned
<1>6. PermitsAddUp'
  BY <1>3, PermitsSame
<1> QED
  BY <1>3, <1>5, <1>6 DEF LanesIInv

LEMMA CatalogueErrorOK == ASSUME LanesIInv, CatalogueError PROVE LanesIInv'
<1> DEFINE list == [s \in LaneStores |-> FailedReport]
<1>1. search.at = "resolving" /\ ~search.lanes /\ \A s \in LaneStores : lane[s].at = "none"
  BY DEF LanesIInv, CatalogueError, StageOK
<1>2. list \in [LaneStores -> ReportRow] /\ \A s \in LaneStores : list[s].status = "failed"
  BY FailedReportOK
<1>3. search' = [search EXCEPT !.at = "returned", !.returned = list] /\ report' = list
      /\ UNCHANGED <<lane, permits>>
  BY DEF CatalogueError
<1> HIDE DEF list
<1>4. search' \in SearchRow /\ StageOK' /\ ReturnedOK'
  BY <1>1, <1>2, <1>3, ListReturned
<1>5. PermitsAddUp'
  BY <1>3, PermitsSame
<1> QED
  BY <1>2, <1>3, <1>4, <1>5 DEF LanesIInv

(* A thread that saw what there was, or was stopped by a cancel. *)
LEMMA CatalogueReportOK ==
  ASSUME NEW s \in LaneStores, NEW seen \in RowsSeen
  PROVE  /\ CatalogueReport(s, seen[s]) \in ReportRow
         /\ CatalogueReport(s, seen[s]).status # "none"
         /\ CatalogueReport(s, seen[s]).status = "no_match" => MayBeAbsent(s)
<1>1. /\ CatalogueReport(s, seen[s]) \in ReportRow
      /\ CatalogueReport(s, seen[s]).status # "none"
      /\ CatalogueReport(s, seen[s]).status = "no_match" => seen[s] \notin {"matched", "pending"}
  BY DEF CatalogueReport, Report, ReportRow
<1>2. seen[s] \notin {"matched", "pending"} => MayBeAbsent(s)
  BY DEF RowsSeen, MayBeAbsent
<1> QED
  BY <1>1, <1>2

LEMMA ResolveStoresOK == ASSUME LanesIInv, ResolveStores PROVE LanesIInv'
<1>0. PICK seen \in RowsSeen : report' = [s \in LaneStores |-> CatalogueReport(s, seen[s])]
  BY DEF ResolveStores
<1> DEFINE bridged == {s \in LiveStores : search.rows[s] # "matched" /\ ~search.cancel}
           list == [s \in LaneStores |-> CatalogueReport(s, seen[s])]
           k(s) == IF s \in bridged THEN [lane[s] EXCEPT !.at = "bridge", !.worker = NewWorker]
                   ELSE lane[s]
<1>1. search \in SearchRow /\ search.at = "resolving" /\ ~search.lanes
      /\ \A s \in LaneStores : lane[s].at = "none"
  BY DEF LanesIInv, ResolveStores, StageOK
<1>2. lane' = [s \in LaneStores |-> k(s)] /\ report' = list /\ UNCHANGED permits
  BY <1>0 DEF ResolveStores, NewWorker
<1>3. search' = IF bridged # {} THEN [search EXCEPT !.at = "bridging"]
                ELSE [search EXCEPT !.at = "returned", !.returned = list]
  BY <1>0 DEF ResolveStores
<1>4. /\ list \in [LaneStores -> ReportRow]
      /\ \A s \in LaneStores : list[s].status # "none"
      /\ \A s \in LaneStores : list[s].status = "no_match" => MayBeAbsent(s)
  BY CatalogueReportOK
<1>5. ASSUME NEW s \in LaneStores
      PROVE  /\ k(s) \in LaneRow /\ LaneOK(k(s)) /\ k(s).at \in {"none", "bridge"}
             /\ k(s).holds = lane[s].holds
  <2>1. lane[s] \in LaneRow /\ LaneOK(lane[s]) /\ lane[s].at = "none" /\ lane[s].holds = FALSE
    BY <1>1 DEF LanesIInv, LaneOK, LaneRow
  <2>2. CASE s \in bridged
    <3> DEFINE after == [lane[s] EXCEPT !.at = "bridge", !.worker = NewWorker]
    <3>1. k(s) = after
      BY <2>2
    <3>2. after \in LaneRow /\ LaneOK(after) /\ after.at = "bridge" /\ after.holds = lane[s].holds
      BY <2>1, AttemptBegins
    <3> HIDE DEF after, k
    <3> QED
      BY <2>1, <3>1, <3>2
  <2>3. CASE s \notin bridged
    BY <2>1, <2>3
  <2> QED
    BY <2>2, <2>3
<1> HIDE DEF k, list, bridged
<1>6. PermitsAddUp'
  BY <1>2, <1>5, PermitsSame
<1>7. search' \in SearchRow /\ StageOK' /\ ReturnedOK'
  <2>1. CASE bridged = {}
    BY <1>1, <1>2, <1>3, <1>4, <1>5, <2>1, ListReturned
  <2>2. CASE bridged # {}
    <3> DEFINE after == [search EXCEPT !.at = "bridging"]
    <3>1. search' = after
      BY <1>3, <2>2
    <3>2. after \in SearchRow /\ after.at = "bridging" /\ after.rows = search.rows
          /\ after.lanes = search.lanes /\ after.returned = search.returned
          /\ after.cancel = search.cancel
      BY <1>1 DEF SearchRow
    <3> HIDE DEF after
    <3>3. StageOK'
      BY <1>1, <1>2, <1>5, <3>1, <3>2 DEF StageOK
    <3>4. ReturnedOK'
      BY <1>1, <1>2, <1>4, <3>1, <3>2, NoReportOK DEF LanesIInv, ReturnedOK, MayBeAbsent
    <3> QED
      BY <3>1, <3>2, <3>3, <3>4
  <2> QED
    BY <2>1, <2>2
<1> QED
  BY <1>2, <1>4, <1>5, <1>6, <1>7 DEF LanesIInv

LEMMA BridgeEndsOK == ASSUME LanesIInv, BridgeEnds PROVE LanesIInv'
<1>1. PICK late \in SUBSET {s \in LaneStores : lane[s].at = "bridged"} :
        report' = [s \in LaneStores |->
                     IF lane[s].at = "bridged" /\ s \notin late
                        /\ lane[s].out.verified /\ lane[s].out.rows
                     THEN lane[s].out ELSE report[s]]
  BY DEF BridgeEnds
<1>2. search.at = "bridging" /\ ~search.lanes /\ UNCHANGED permits
      /\ search' = [search EXCEPT !.at = "returned", !.returned = report']
  BY DEF LanesIInv, BridgeEnds, StageOK
<1> DEFINE k(s) == IF lane[s].at = "bridged" THEN [IdleLane EXCEPT !.at = "ended"] ELSE lane[s]
<1>3. lane' = [s \in LaneStores |-> k(s)]
  BY DEF BridgeEnds
<1>4. ASSUME NEW s \in LaneStores
      PROVE  /\ k(s) \in LaneRow /\ LaneOK(k(s)) /\ k(s).holds = lane[s].holds
             /\ k(s).at \in {"none", "bridge", "bridged", "ended"}
  <2>1. lane[s] \in LaneRow /\ LaneOK(lane[s])
        /\ lane[s].at \in {"none", "bridge", "bridged", "ended"}
    BY <1>2 DEF LanesIInv, StageOK
  <2>2. CASE lane[s].at = "bridged"
    <3>1. k(s) = [IdleLane EXCEPT !.at = "ended"]
      BY <2>2
    <3>2. lane[s].holds = FALSE
      BY <2>1, <2>2 DEF LaneOK, LaneRow
    <3> HIDE DEF k
    <3> QED
      BY <3>1, <3>2, IdleLaneOK DEF LaneRow
  <2>3. CASE lane[s].at # "bridged"
    BY <2>1, <2>3
  <2> QED
    BY <2>2, <2>3
<1> HIDE DEF k
<1>5. /\ report' \in [LaneStores -> ReportRow]
      /\ \A s \in LaneStores : report'[s] = NoReport \/ report'[s].status # "none"
  <2>1. \A s \in LaneStores :
          /\ lane[s].out \in ReportRow
          /\ lane[s].at = "bridged" => lane[s].out.status # "none"
          /\ report[s] \in ReportRow /\ (report[s] = NoReport \/ report[s].status # "none")
    BY OutIsReport DEF LanesIInv, LaneRow, LaneOK, ReturnedOK
  <2> QED
    BY <1>1, <2>1
<1>6. ASSUME NEW s \in LaneStores, report'[s].status = "no_match"
      PROVE  MayBeAbsent(s)
  <2>1. LaneOK(lane[s]) /\ (report[s].status = "no_match" => MayBeAbsent(s))
    BY <1>2 DEF LanesIInv, ReturnedOK
  <2> QED
    BY <1>1, <1>6, <2>1 DEF LaneOK
<1>7. search' \in SearchRow /\ StageOK' /\ ReturnedOK'
  <2> DEFINE list == report'
  <2>1. list \in [LaneStores -> ReportRow]
        /\ \A s \in LaneStores : list[s].status = "no_match" => MayBeAbsent(s)
    BY <1>5, <1>6
  <2>2. search' = [search EXCEPT !.at = "returned", !.returned = list]
    BY <1>2
  <2>3. \A s \in LaneStores : lane'[s].at \in {"none", "bridge", "bridged", "ended"}
                             /\ (report'[s] = NoReport \/ report'[s].status # "none")
    BY <1>3, <1>4, <1>5
  <2> HIDE DEF list
  <2> QED
    BY <1>2, <2>1, <2>2, <2>3, ListReturned
<1>8. PermitsAddUp'
  BY <1>2, <1>3, <1>4, PermitsSame
<1> QED
  BY <1>2, <1>3, <1>4, <1>5, <1>7, <1>8 DEF LanesIInv

LEMMA IdleSearchOK ==
  /\ IdleSearch \in SearchRow /\ IdleSearch.at = "idle" /\ ~IdleSearch.lanes
  /\ IdleSearch.rows = [s \in LaneStores |-> "none"]
  /\ IdleSearch.returned = [s \in LaneStores |-> NoReport]
  BY NoReportOK DEF IdleSearch, SearchRow, RowKinds

(* Everything idle, whatever the permits are. *)
LEMMA EverythingIdle ==
  ASSUME lane = [s \in LaneStores |-> IdleLane], report = [s \in LaneStores |-> NoReport],
         search = IdleSearch
  PROVE  /\ lane \in [LaneStores -> LaneRow] /\ report \in [LaneStores -> ReportRow]
         /\ search \in SearchRow /\ StageOK /\ ReturnedOK
         /\ \A s \in LaneStores : LaneOK(lane[s]) /\ ~lane[s].holds
<1> QED
  BY IdleLaneItself, IdleSearchOK, NoReportOK DEF StageOK, ReturnedOK

LEMMA NextSearchOK == ASSUME LanesIInv, NextSearch PROVE LanesIInv'
<1>1. \A s \in LaneStores : lane[s] \in LaneRow /\ lane[s].holds = FALSE
  BY DEF LanesIInv, NextSearch, LaneOK, LaneRow
<1>2. /\ lane' \in [LaneStores -> LaneRow] /\ report' \in [LaneStores -> ReportRow]
      /\ search' \in SearchRow /\ StageOK' /\ ReturnedOK'
      /\ \A s \in LaneStores : LaneOK(lane'[s]) /\ lane'[s].holds = FALSE
  <2>1. lane' = [s \in LaneStores |-> IdleLane] /\ report' = [s \in LaneStores |-> NoReport]
        /\ search' = IdleSearch
    BY DEF NextSearch
  <2>2. StageOK' /\ ReturnedOK'
    BY <2>1, IdleLaneItself, IdleSearchOK, NoReportOK DEF StageOK, ReturnedOK
  <2> QED
    BY <2>1, <2>2, IdleLaneItself, IdleSearchOK, NoReportOK
<1>3. PermitsAddUp'
  BY <1>1, <1>2, PermitsSame DEF NextSearch
<1> QED
  BY <1>2, <1>3 DEF LanesIInv, NextSearch

-----------------------------------------------------------------------------------
LEMMA LanesInitOK == LanesInit => LanesIInv
<1> SUFFICES ASSUME LanesInit PROVE LanesIInv
  OBVIOUS
<1>1. /\ lane \in [LaneStores -> LaneRow] /\ report \in [LaneStores -> ReportRow]
      /\ search \in SearchRow /\ StageOK /\ ReturnedOK
      /\ \A s \in LaneStores : LaneOK(lane[s]) /\ ~lane[s].holds
  BY EverythingIdle DEF LanesInit
<1>2. permits \in [DOMAIN Permits -> Nat]
  BY LanesAssumption DEF LanesInit
<1>3. PermitsAddUp
  <2> SUFFICES ASSUME NEW l \in DOMAIN Permits
               PROVE  permits[l] + Cardinality(Holders(l)) = Permits[l]
    BY DEF PermitsAddUp, Holders
  <2>1. Holders(l) = {}
    BY <1>1 DEF Holders
  <2>2. permits[l] = Permits[l] /\ Permits[l] \in Nat
    BY LaneConstants DEF LanesInit
  <2> QED
    BY <2>1, <2>2, FS_EmptySet
<1> QED
  BY <1>1, <1>2, <1>3 DEF LanesIInv

LEMMA LanesStutter == ASSUME LanesIInv, UNCHANGED lanesVars PROVE LanesIInv'
<1>1. PermitsAddUp'
  BY PermitsSame DEF lanesVars
<1> QED
  BY <1>1 DEF LanesIInv, lanesVars, StageOK, ReturnedOK, MayBeAbsent

LEMMA LanesNextOK == LanesIInv /\ [LanesNext]_lanesVars => LanesIInv'
<1> SUFFICES ASSUME LanesIInv, [LanesNext]_lanesVars PROVE LanesIInv'
  OBVIOUS
<1>1. ASSUME NEW s \in LaneStores, LaneStep(s) PROVE LanesIInv'
  BY <1>1, LaneStepOK
<1> QED
  BY <1>1, LanesStutter, StartLanesOK, JoinDeadlineOK, CollectReportsOK, CancelSearchOK,
     NextSearchOK, SearchCatalogueOK, CancelledInCatalogueOK, ResolveStoresOK, BridgeEndsOK,
     CatalogueErrorOK DEF LanesNext

LEMMA LanesIInvImplies == LanesIInv => LanesInv
<1> SUFFICES ASSUME LanesIInv PROVE LanesInv
  OBVIOUS
<1>1. LanesType
  BY DEF LanesIInv, LanesType, LaneRow, Worker, SearchRow, OutRow
<1>2. AbsenceIsVerified
  BY DEF LanesIInv, LaneOK, AbsenceIsVerified
<1>3. EveryStoreReported
  BY NoReportOK DEF LanesIInv, ReturnedOK, EveryStoreReported
<1>4. CatalogueIsKept
  BY DEF LanesIInv, ReturnedOK, MayBeAbsent, CatalogueIsKept
<1> QED
  BY <1>1, <1>2, <1>3, <1>4 DEF LanesIInv, LanesInv

(* For any stores, lanes and permits: no permit is lost or doubled, a worker's        *)
(* no_match is a verified success without a kept row, no requested store is missing   *)
(* from the list, a page that waits for its refresh keeps its store from being         *)
(* reported absent, and so does a match unless the search is cancelled.               *)
THEOREM LanesInvariant == LanesSpec => []LanesInv
  BY LanesInitOK, LanesNextOK, LanesIInvImplies, PTL DEF LanesSpec

-----------------------------------------------------------------------------------
(* The index of the stored pages. *)
FtsRow == [row : [IndexPages -> SUBSET {"slug", "name"}], table : BOOLEAN, current : BOOLEAN,
           triggers : SUBSET {"urls", "products"}]
FinderRow == [at : {"idle", "page", "rows", "grace"}, of : SUBSET IndexPages,
              shown : {"none", "hidden", "refresh", "offer", "variants"}]
RepairsRow == [size : SUBSET IndexPages, stale : SUBSET IndexPages,
               threads : [{"size", "stale"} -> [IndexPages -> 0 .. 2]]]
LapsesRow == [missed : SUBSET IndexPages, refused : BOOLEAN, overtaken : BOOLEAN]
OpenerAts == {"down", "reading", "old", "untied", "bare", "gone", "empty", "filled", "half",
              "ready"}

IndexTypes ==
  /\ stored \in [IndexPages -> PageRow] /\ fts \in FtsRow
  /\ opener \in [Procs -> OpenerAts] /\ finder \in FinderRow /\ repairs \in RepairsRow
  /\ lapses \in LapsesRow
RepairIInv == IndexTypes /\ OneRepair

LEMMA TextTypes == \A r : TextOfUrl(r) \in SUBSET {"slug", "name"}
                          /\ TextOfProduct(r) \in SUBSET {"slug", "name"}
  BY DEF TextOfUrl, TextOfProduct, NoRow

LEMMA NewRowsOK == NewPage \in PageRow /\ NoSearch \in FinderRow /\ NoRepairs \in RepairsRow
<1>1. NewPage \in PageRow
  BY DEF NewPage, PageRow, Avails, Prices
<1>2. NoSearch \in FinderRow
  BY DEF NoSearch, FinderRow
<1>3. [k \in {"size", "stale"} |-> [p \in IndexPages |-> 0]]
        \in [{"size", "stale"} -> [IndexPages -> 0 .. 2]]
  OBVIOUS
<1> QED
  BY <1>1, <1>2, <1>3 DEF NoRepairs, RepairsRow

(* A write, mirrored or not. *)
Tables == {"urls", "products"}
TextOf(r, table) == IF table = "urls" THEN TextOfUrl(r) ELSE TextOfProduct(r)
LEMMA WriteCases ==
  ASSUME IndexTypes, NEW p \in IndexPages, NEW r \in PageRow, NEW table \in Tables,
         Write(p, r, table)
  PROVE  /\ stored' \in [IndexPages -> PageRow] /\ stored'[p] = r
         /\ \A o \in IndexPages \ {p} : stored'[o] = stored[o]
         /\ fts' \in FtsRow /\ lapses' \in LapsesRow
         /\ fts'.table = fts.table /\ fts'.current = fts.current /\ fts'.triggers = fts.triggers
         /\ lapses'.refused = lapses.refused /\ lapses'.overtaken = lapses.overtaken
         /\ \A o \in IndexPages \ {p} :
              fts'.row[o] = fts.row[o] /\ (o \in lapses'.missed <=> o \in lapses.missed)
         /\ table \in fts.triggers =>
              /\ fts'.row[p] = TextOf(r, table) /\ fts.table
              /\ lapses'.missed \subseteq lapses.missed
         /\ table \notin fts.triggers =>
              /\ fts' = fts /\ (fts.current => p \in lapses'.missed)
              /\ ~fts.current => lapses'.missed = lapses.missed
<1>1. /\ stored \in [IndexPages -> PageRow] /\ fts \in FtsRow /\ lapses \in LapsesRow
      /\ fts.row \in [IndexPages -> SUBSET {"slug", "name"}] /\ lapses.missed \subseteq IndexPages
  BY DEF IndexTypes, FtsRow, LapsesRow
<1>2. /\ stored' \in [IndexPages -> PageRow] /\ stored'[p] = r
      /\ \A o \in IndexPages \ {p} : stored'[o] = stored[o]
  BY <1>1 DEF Write
<1>3. CASE table \in fts.triggers
  <2> DEFINE text == TextOf(r, table)
             seen == lapses.missed \ {p}
  <2>1. fts' = [fts EXCEPT !.row[p] = text] /\ fts.table
        /\ lapses' = [lapses EXCEPT !.missed = seen]
    BY <1>3 DEF Write, TextOf, Tables
  <2>2. text \in SUBSET {"slug", "name"}
    BY TextTypes DEF TextOf
  <2> HIDE DEF text
  <2>3. /\ fts' \in FtsRow /\ fts'.row[p] = text
        /\ \A o \in IndexPages \ {p} : fts'.row[o] = fts.row[o]
        /\ fts'.table = fts.table /\ fts'.current = fts.current /\ fts'.triggers = fts.triggers
    BY <1>1, <2>1, <2>2 DEF FtsRow
  <2>4. /\ lapses' \in LapsesRow /\ lapses'.missed = seen
        /\ lapses'.refused = lapses.refused /\ lapses'.overtaken = lapses.overtaken
    BY <1>1, <2>1 DEF LapsesRow
  <2> QED
    BY <1>2, <1>3, <2>1, <2>3, <2>4 DEF text
<1>4. CASE table \notin fts.triggers
  <2> DEFINE seen == IF fts.current THEN lapses.missed \cup {p} ELSE lapses.missed
  <2>1. fts' = fts /\ lapses' = [lapses EXCEPT !.missed = seen]
    BY <1>4 DEF Write
  <2>2. /\ lapses' \in LapsesRow /\ lapses'.missed = seen
        /\ lapses'.refused = lapses.refused /\ lapses'.overtaken = lapses.overtaken
    BY <1>1, <2>1 DEF LapsesRow
  <2> QED
    BY <1>1, <1>2, <1>4, <2>1, <2>2
<1> QED
  BY <1>3, <1>4

LEMMA UrlWriteOK == ASSUME IndexTypes, NEW p \in IndexPages, WriteUrl(p) PROVE IndexTypes'
<1>1. PICK url \in {"active", "inactive"} : Write(p, [stored[p] EXCEPT !.url = url], "urls")
  BY DEF WriteUrl
<1>2. [stored[p] EXCEPT !.url = url] \in PageRow
  BY DEF IndexTypes, PageRow
<1> QED
  BY <1>1, <1>2, WriteCases DEF WriteUrl, IndexTypes, Tables

LEMMA ProductRow ==
  ASSUME IndexTypes, NEW p \in IndexPages, WriteProduct(p)
  PROVE  \E r \in PageRow : Write(p, r, "products")
<1>1. stored[p] \in PageRow
  BY DEF IndexTypes
<1>2. [stored[p] EXCEPT !.status = "ERROR"] \in PageRow
  BY <1>1 DEF PageRow
<1>3. OfferRows(stored[p].url) \subseteq PageRow
  BY <1>1 DEF OfferRows, PageRow
<1> QED
  BY <1>2, <1>3 DEF WriteProduct

LEMMA ProductWriteOK == ASSUME IndexTypes, NEW p \in IndexPages, WriteProduct(p) PROVE IndexTypes'
<1>1. PICK r \in PageRow : Write(p, r, "products")
  BY ProductRow
<1> QED
  BY <1>1, WriteCases DEF WriteProduct, IndexTypes, Tables

LEMMA GrowsOldOK == ASSUME IndexTypes, NEW p \in IndexPages, GrowsOld(p) PROVE IndexTypes'
<1> DEFINE after == [stored[p] EXCEPT !.due = TRUE,
                                      !.variants = IF @ = {} THEN {} ELSE {"stale"}]
<1>1. stored[p] \in PageRow
  BY DEF IndexTypes
<1>2. after \in PageRow
  BY <1>1 DEF PageRow
<1>3. stored' = [stored EXCEPT ![p] = after]
  BY <1>1 DEF GrowsOld
<1> QED
  BY <1>2, <1>3 DEF IndexTypes, GrowsOld

Opens(q) ==
  \/ OpenCatalogue(q) \/ ReadVersion(q) \/ DropTriggers(q) \/ DropTable(q) \/ CreateTable(q)
  \/ Fill(q) \/ InstallTriggers(q) \/ GivesUp(q)

(* What a statement of the opening leaves in the index: the fill, and the others. *)
LEMMA FillStep ==
  ASSUME IndexTypes, NEW q \in Procs, Fill(q)
  PROVE  /\ fts' \in FtsRow /\ fts'.table /\ fts'.current /\ fts'.triggers = fts.triggers
         /\ \A p \in IndexPages : fts'.row[p] = fts.row[p] \cup TextOfUrl(stored[p])
<1> DEFINE rows == [p \in IndexPages |-> fts.row[p] \cup TextOfUrl(stored[p])]
<1>1. fts \in FtsRow /\ fts.row \in [IndexPages -> SUBSET {"slug", "name"}]
  BY DEF IndexTypes, FtsRow
<1>2. rows \in [IndexPages -> SUBSET {"slug", "name"}]
  BY <1>1, TextTypes
<1>3. fts' = [fts EXCEPT !.row = rows, !.current = TRUE] /\ fts.table
  BY <1>1 DEF Fill, FtsRow
<1>4. \A p \in IndexPages : rows[p] = fts.row[p] \cup TextOfUrl(stored[p])
  OBVIOUS
<1> HIDE DEF rows
<1> QED
  BY <1>1, <1>2, <1>3, <1>4 DEF FtsRow

LEMMA FtsSteps ==
  ASSUME IndexTypes, NEW q \in Procs
  PROVE  /\ OpenCatalogue(q) => /\ fts' \in FtsRow /\ fts'.row = fts.row /\ fts'.table
                               /\ fts'.current = fts.current /\ fts'.triggers = fts.triggers
         /\ DropTriggers(q) =>
              /\ fts' \in FtsRow /\ fts'.row = fts.row /\ fts'.table = fts.table
              /\ fts'.current = fts.current
              /\ \/ opener[q] = "old" /\ fts'.triggers = fts.triggers \ {"urls"}
                 \/ opener[q] = "untied" /\ fts'.triggers = fts.triggers \ {"products"}
         /\ DropTable(q) => /\ fts' \in FtsRow /\ fts'.row = [p \in IndexPages |-> NoRow]
                           /\ fts'.table = FALSE
                           /\ fts'.current = fts.current /\ fts'.triggers = fts.triggers
         /\ CreateTable(q) => /\ fts' \in FtsRow /\ fts'.row = fts.row /\ fts'.table
                             /\ fts'.current = fts.current /\ fts'.triggers = fts.triggers
         /\ InstallTriggers(q) =>
              /\ fts' \in FtsRow /\ fts'.row = fts.row /\ fts'.table = fts.table
              /\ fts'.current = fts.current
              /\ \/ opener[q] = "filled" /\ fts'.triggers = fts.triggers \cup {"urls"}
                 \/ opener[q] = "half" /\ fts'.triggers = fts.triggers \cup {"products"}
<1>1. /\ fts \in FtsRow /\ fts.row \in [IndexPages -> SUBSET {"slug", "name"}]
      /\ fts.triggers \in SUBSET {"urls", "products"}
      /\ [p \in IndexPages |-> NoRow] \in [IndexPages -> SUBSET {"slug", "name"}]
  BY DEF IndexTypes, FtsRow, NoRow
<1>2. ASSUME DropTriggers(q)
      PROVE  /\ fts' \in FtsRow /\ fts'.row = fts.row /\ fts'.table = fts.table
             /\ fts'.current = fts.current
             /\ \/ opener[q] = "old" /\ fts'.triggers = fts.triggers \ {"urls"}
                \/ opener[q] = "untied" /\ fts'.triggers = fts.triggers \ {"products"}
  BY <1>1, <1>2 DEF DropTriggers, FtsRow
<1>3. ASSUME DropTable(q)
      PROVE  /\ fts' \in FtsRow /\ fts'.row = [p \in IndexPages |-> NoRow] /\ fts'.table = FALSE
             /\ fts'.current = fts.current /\ fts'.triggers = fts.triggers
  BY <1>1, <1>3 DEF DropTable, FtsRow
<1>4. ASSUME CreateTable(q)
      PROVE  /\ fts' \in FtsRow /\ fts'.row = fts.row /\ fts'.table
             /\ fts'.current = fts.current /\ fts'.triggers = fts.triggers
  BY <1>1, <1>4 DEF CreateTable, FtsRow
<1>5. ASSUME InstallTriggers(q)
      PROVE  /\ fts' \in FtsRow /\ fts'.row = fts.row /\ fts'.table = fts.table
             /\ fts'.current = fts.current
             /\ \/ opener[q] = "filled" /\ fts'.triggers = fts.triggers \cup {"urls"}
                \/ opener[q] = "half" /\ fts'.triggers = fts.triggers \cup {"products"}
  BY <1>1, <1>5 DEF InstallTriggers, FtsRow
<1>6. ASSUME OpenCatalogue(q)
      PROVE  /\ fts' \in FtsRow /\ fts'.row = fts.row /\ fts'.table
             /\ fts'.current = fts.current /\ fts'.triggers = fts.triggers
  BY <1>1, <1>6 DEF OpenCatalogue, FtsRow
<1> QED
  BY <1>2, <1>3, <1>4, <1>5, <1>6

(* And in the history of what went wrong. *)
LEMMA LapseSteps ==
  ASSUME IndexTypes, NEW q \in Procs
  PROVE  /\ DropTriggers(q) \/ DropTable(q) =>
              /\ lapses' \in LapsesRow /\ lapses'.missed = lapses.missed
              /\ lapses'.refused = lapses.refused
              /\ lapses'.overtaken = (lapses.overtaken \/ fts.current)
         /\ GivesUp(q) =>
              /\ lapses' \in LapsesRow /\ lapses'.missed = lapses.missed
              /\ lapses'.refused /\ lapses'.overtaken = lapses.overtaken
<1>1. lapses \in LapsesRow /\ fts.current \in BOOLEAN /\ lapses.overtaken \in BOOLEAN
  BY DEF IndexTypes, FtsRow, LapsesRow
<1>2. ASSUME DropTriggers(q) \/ DropTable(q)
      PROVE  /\ lapses' \in LapsesRow /\ lapses'.missed = lapses.missed
             /\ lapses'.refused = lapses.refused
             /\ lapses'.overtaken = (lapses.overtaken \/ fts.current)
  <2> DEFINE late == lapses.overtaken \/ fts.current
  <2>1. lapses' = [lapses EXCEPT !.overtaken = late]
    BY <1>1, <1>2 DEF DropTriggers, DropTable, Overtaken, LapsesRow
  <2>2. late \in BOOLEAN
    BY <1>1
  <2> HIDE DEF late
  <2>3. lapses' \in LapsesRow /\ lapses'.missed = lapses.missed
        /\ lapses'.refused = lapses.refused /\ lapses'.overtaken = late
    BY <1>1, <2>1, <2>2 DEF LapsesRow
  <2> QED
    BY <2>3 DEF late
<1>3. ASSUME GivesUp(q)
      PROVE  /\ lapses' \in LapsesRow /\ lapses'.missed = lapses.missed
             /\ lapses'.refused /\ lapses'.overtaken = lapses.overtaken
  BY <1>1, <1>3 DEF GivesUp, LapsesRow
<1> QED
  BY <1>2, <1>3

LEMMA OpenerMoves ==
  ASSUME IndexTypes, NEW q \in Procs, Opens(q) \/ Killed(q)
  PROVE  /\ opener' \in [Procs -> OpenerAts] /\ UNCHANGED stored
         /\ \A r \in Procs \ {q} : opener'[r] = opener[r]
  BY DEF IndexTypes, OpenerAts, Go, Opens, OpenCatalogue, ReadVersion, DropTriggers, DropTable,
         CreateTable, Fill, InstallTriggers, GivesUp, Killed

LEMMA OpenerTypes == ASSUME IndexTypes, NEW q \in Procs, Opens(q) PROVE IndexTypes'
<1>1. opener' \in [Procs -> OpenerAts] /\ UNCHANGED <<stored, finder, repairs>>
  BY OpenerMoves DEF Opens, OpenCatalogue, ReadVersion, DropTriggers, DropTable, CreateTable,
                     Fill, InstallTriggers, GivesUp
<1>2. fts' \in FtsRow
  BY FtsSteps, FillStep DEF Opens, ReadVersion, GivesUp, IndexTypes
<1>3. lapses' \in LapsesRow
  BY LapseSteps DEF Opens, OpenCatalogue, ReadVersion, CreateTable, Fill, InstallTriggers,
                    IndexTypes
<1> QED
  BY <1>1, <1>2, <1>3 DEF IndexTypes

LEMMA FinderTypes ==
  ASSUME IndexTypes,
         \/ \E p \in IndexPages : FindPage(p) \/ ReadVariants(p)
         \/ SearchReturns \/ GraceEnds
  PROVE  IndexTypes' /\ UNCHANGED repairs
<1>1. finder' \in FinderRow
  <2>1. ASSUME NEW p \in IndexPages, FindPage(p) PROVE finder' \in FinderRow
    BY <2>1 DEF FinderRow, FindPage
  <2>2. ASSUME NEW p \in IndexPages, ReadVariants(p) PROVE finder' \in FinderRow
    <3>1. PICK shown \in {"variants", "hidden", "offer"} :
            finder' = [finder EXCEPT !.at = "rows", !.shown = shown]
      BY <2>2 DEF ReadVariants
    <3> QED
      BY <3>1 DEF IndexTypes, FinderRow
  <2>3. CASE SearchReturns \/ GraceEnds
    BY <2>3, NewRowsOK DEF FinderRow, SearchReturns, GraceEnds
  <2> QED
    BY <2>1, <2>2, <2>3
<1> QED
  BY <1>1 DEF IndexTypes, FindPage, ReadVariants, SearchReturns, GraceEnds

(* The repair threads: one is counted where its key is put in the set of its kind. *)
LEMMA RepairBegins ==
  ASSUME RepairIInv, NEW p \in IndexPages, RepairSize(p) \/ RepairStale(p) PROVE RepairIInv'
<1>1. /\ repairs \in RepairsRow /\ repairs.size \subseteq IndexPages
      /\ repairs.stale \subseteq IndexPages
      /\ repairs.threads \in [{"size", "stale"} -> [IndexPages -> 0 .. 2]]
  BY DEF RepairIInv, IndexTypes, RepairsRow
<1>2. UNCHANGED <<stored, fts, opener, finder, lapses>>
  BY DEF RepairSize, RepairStale
<1>3. CASE RepairSize(p)
  <2> DEFINE n == [repairs.threads EXCEPT !["size"][p] = repairs.threads["size"][p] + 1]
  <2>1. repairs.threads["size"][p] = 0
    BY <1>3 DEF RepairIInv, OneRepair, RepairSize
  <2>2. /\ n \in [{"size", "stale"} -> [IndexPages -> 0 .. 2]]
        /\ n["stale"] = repairs.threads["stale"] /\ n["size"][p] = 1
        /\ \A q \in IndexPages \ {p} : n["size"][q] = repairs.threads["size"][q]
    BY <1>1, <2>1
  <2>3. repairs' = [repairs EXCEPT !.size = repairs.size \cup {p}, !.threads = n]
    BY <1>1, <1>3 DEF RepairSize, RepairsRow
  <2> HIDE DEF n
  <2>4. /\ repairs' \in RepairsRow /\ repairs'.size = repairs.size \cup {p}
        /\ repairs'.stale = repairs.stale /\ repairs'.threads = n
    BY <1>1, <2>2, <2>3 DEF RepairsRow
  <2>5. OneRepair'
    BY <1>1, <2>2, <2>4 DEF RepairIInv, OneRepair
  <2> QED
    BY <1>2, <2>4, <2>5 DEF RepairIInv, IndexTypes
<1>4. CASE RepairStale(p)
  <2> DEFINE n == [repairs.threads EXCEPT !["stale"][p] = repairs.threads["stale"][p] + 1]
  <2>1. repairs.threads["stale"][p] = 0
    BY <1>4 DEF RepairIInv, OneRepair, RepairStale
  <2>2. /\ n \in [{"size", "stale"} -> [IndexPages -> 0 .. 2]]
        /\ n["size"] = repairs.threads["size"] /\ n["stale"][p] = 1
        /\ \A q \in IndexPages \ {p} : n["stale"][q] = repairs.threads["stale"][q]
    BY <1>1, <2>1
  <2>3. repairs' = [repairs EXCEPT !.stale = repairs.stale \cup {p}, !.threads = n]
    BY <1>1, <1>4 DEF RepairStale, RepairsRow
  <2> HIDE DEF n
  <2>4. /\ repairs' \in RepairsRow /\ repairs'.stale = repairs.stale \cup {p}
        /\ repairs'.size = repairs.size /\ repairs'.threads = n
    BY <1>1, <2>2, <2>3 DEF RepairsRow
  <2>5. OneRepair'
    BY <1>1, <2>2, <2>4 DEF RepairIInv, OneRepair
  <2> QED
    BY <1>2, <2>4, <2>5 DEF RepairIInv, IndexTypes
<1> QED
  BY <1>3, <1>4

LEMMA RepairEndsOK ==
  ASSUME RepairIInv, NEW p \in IndexPages, NEW k \in {"size", "stale"}, RepairEnds(k, p)
  PROVE  RepairIInv'
<1>1. /\ repairs \in RepairsRow /\ repairs.size \subseteq IndexPages
      /\ repairs.stale \subseteq IndexPages
      /\ repairs.threads \in [{"size", "stale"} -> [IndexPages -> 0 .. 2]]
  BY DEF RepairIInv, IndexTypes, RepairsRow
<1> DEFINE n == [repairs.threads EXCEPT ![k][p] = repairs.threads[k][p] - 1]
<1>2. repairs.threads[k][p] = 1
  <2>0. repairs.threads[k][p] > 0
    BY Zenon DEF RepairEnds
  <2>1. repairs.threads[k][p] # 0
    BY <2>0
  <2> QED
    BY <2>1 DEF RepairIInv, OneRepair
<1>3. /\ n \in [{"size", "stale"} -> [IndexPages -> 0 .. 2]] /\ n[k][p] = 0
      /\ \A q \in IndexPages \ {p} : n[k][q] = repairs.threads[k][q]
      /\ \A j \in {"size", "stale"} \ {k} : n[j] = repairs.threads[j]
  BY <1>1, <1>2
<1>4. CASE k = "size"
  <2>1. repairs' = [repairs EXCEPT !.size = repairs.size \ {p}, !.threads = n]
    BY <1>1, <1>4 DEF RepairEnds, RepairsRow
  <2> HIDE DEF n
  <2>2. /\ repairs' \in RepairsRow /\ repairs'.size = repairs.size \ {p}
        /\ repairs'.stale = repairs.stale /\ repairs'.threads = n
    BY <1>1, <1>3, <2>1 DEF RepairsRow
  <2>3. OneRepair'
    <3>1. ASSUME NEW q \in IndexPages
          PROVE  /\ n["size"][q] = IF q \in repairs'.size THEN 1 ELSE 0
                 /\ n["stale"][q] = IF q \in repairs'.stale THEN 1 ELSE 0
      BY <1>3, <1>4, <2>2 DEF RepairIInv, OneRepair
    <3> QED
      BY <2>2, <3>1 DEF OneRepair
  <2> QED
    BY <2>2, <2>3 DEF RepairIInv, IndexTypes, RepairEnds
<1>5. CASE k = "stale"
  <2>1. repairs' = [repairs EXCEPT !.stale = repairs.stale \ {p}, !.threads = n]
    BY <1>1, <1>5 DEF RepairEnds, RepairsRow
  <2> HIDE DEF n
  <2>2. /\ repairs' \in RepairsRow /\ repairs'.stale = repairs.stale \ {p}
        /\ repairs'.size = repairs.size /\ repairs'.threads = n
    BY <1>1, <1>3, <2>1 DEF RepairsRow
  <2>3. OneRepair'
    <3>1. ASSUME NEW q \in IndexPages
          PROVE  /\ n["size"][q] = IF q \in repairs'.size THEN 1 ELSE 0
                 /\ n["stale"][q] = IF q \in repairs'.stale THEN 1 ELSE 0
      BY <1>3, <1>5, <2>2 DEF RepairIInv, OneRepair
    <3> QED
      BY <2>2, <3>1 DEF OneRepair
  <2> QED
    BY <2>2, <2>3 DEF RepairIInv, IndexTypes, RepairEnds
<1> QED
  BY <1>4, <1>5

LEMMA KilledOK == ASSUME RepairIInv, NEW q \in Procs, Killed(q) PROVE RepairIInv'
<1>1. repairs' \in RepairsRow /\ OneRepair'
  <2>1. CASE q = Web
    BY <2>1, NewRowsOK DEF Killed, NoRepairs, OneRepair
  <2>2. CASE q # Web
    BY <2>2 DEF RepairIInv, IndexTypes, Killed, OneRepair
  <2> QED
    BY <2>1, <2>2
<1>2. opener' \in [Procs -> OpenerAts]
  BY DEF RepairIInv, IndexTypes, OpenerAts, Killed, Go
<1> QED
  BY <1>1, <1>2, NewRowsOK DEF RepairIInv, IndexTypes, Killed

LEMMA RepairInitOK == IndexInit => RepairIInv
<1> SUFFICES ASSUME IndexInit PROVE RepairIInv
  OBVIOUS
<1>1. fts \in FtsRow
  BY DEF IndexInit, FtsRow, NoRow
<1>2. OneRepair
  BY DEF IndexInit, NoRepairs, OneRepair
<1>3. lapses \in LapsesRow
  BY DEF IndexInit, LapsesRow
<1> QED
  BY <1>1, <1>2, <1>3, NewRowsOK DEF IndexInit, RepairIInv, IndexTypes, OpenerAts

LEMMA RepairNextOK == RepairIInv /\ [IndexNext]_indexVars => RepairIInv'
<1> SUFFICES ASSUME RepairIInv, [IndexNext]_indexVars PROVE RepairIInv'
  OBVIOUS
<1>1. ASSUME IndexTypes', UNCHANGED repairs PROVE RepairIInv'
  BY <1>1 DEF RepairIInv, OneRepair
<1>2. CASE UNCHANGED indexVars
  BY <1>2 DEF RepairIInv, IndexTypes, OneRepair, indexVars
<1>3. ASSUME NEW q \in Procs, Opens(q) PROVE RepairIInv'
  BY <1>1, <1>3, OpenerTypes DEF RepairIInv, Opens, OpenCatalogue, ReadVersion, DropTriggers,
     DropTable, CreateTable, Fill, InstallTriggers, GivesUp
<1>4. ASSUME NEW p \in IndexPages, WriteUrl(p) \/ WriteProduct(p) \/ GrowsOld(p)
      PROVE  RepairIInv'
  BY <1>1, <1>4, UrlWriteOK, ProductWriteOK, GrowsOldOK
     DEF RepairIInv, WriteUrl, WriteProduct, GrowsOld
<1>5. CASE (\E p \in IndexPages : FindPage(p) \/ ReadVariants(p)) \/ SearchReturns \/ GraceEnds
  BY <1>1, <1>5, FinderTypes DEF RepairIInv
<1> QED
  BY <1>2, <1>3, <1>4, <1>5, RepairBegins, RepairEndsOK, KilledOK DEF IndexNext, Opens

(* The version is recorded by the fill of an empty table, which nobody wrote to since it *)
(* was made: until then no process installs triggers. From then on a row is lost only by *)
(* a rebuild that is overtaken, and a trigger is missing only before it is installed.    *)
Rebuilding == {"untied", "bare", "gone", "empty"}
WholeIInv ==
  /\ IndexIsWhole /\ OnlyRefusalsMiss
  /\ \A q \in Procs :
       /\ opener[q] \in {"filled", "half"} => fts.current
       /\ opener[q] = "half" /\ ~lapses.overtaken => "urls" \in fts.triggers
       /\ opener[q] = "ready" /\ ~lapses.refused => fts.current
       /\ opener[q] = "ready" /\ ~lapses.refused /\ ~lapses.overtaken =>
            {"urls", "products"} \subseteq fts.triggers
       /\ ~fts.current /\ opener[q] \in Rebuilding => "urls" \notin fts.triggers
       /\ ~fts.current /\ opener[q] \in {"bare", "gone", "empty"} => fts.triggers = {}
       /\ ~fts.current /\ opener[q] \in {"gone", "empty"} =>
            \A p \in IndexPages : fts.row[p] = NoRow

LEMMA WholeInitOK == IndexInit => WholeIInv
  BY DEF IndexInit, WholeIInv, IndexIsWhole, OnlyRefusalsMiss, Rebuilding

LEMMA WriteWhole ==
  ASSUME IndexTypes, WholeIInv, Writing, NEW p \in IndexPages, NEW r \in PageRow,
         NEW table \in Tables, Write(p, r, table), UNCHANGED opener
  PROVE  WholeIInv'
<1>1. /\ stored'[p] = r /\ \A o \in IndexPages \ {p} : stored'[o] = stored[o]
      /\ fts'.current = fts.current /\ fts'.triggers = fts.triggers
      /\ lapses'.refused = lapses.refused /\ lapses'.overtaken = lapses.overtaken
      /\ \A o \in IndexPages \ {p} :
           fts'.row[o] = fts.row[o] /\ (o \in lapses'.missed <=> o \in lapses.missed)
  BY WriteCases
<1>2. CASE table \in fts.triggers
  <2>1. fts'.row[p] = TextOf(r, table) /\ lapses'.missed \subseteq lapses.missed
    BY <1>2, WriteCases
  <2>2. Findable(p)'
    BY <1>1, <2>1 DEF Findable, TextOf, TextOfUrl, TextOfProduct, NoRow
  <2>3. IndexIsWhole'
    BY <1>1, <2>2 DEF WholeIInv, IndexIsWhole, Findable
  <2>4. OnlyRefusalsMiss'
    BY <1>1, <2>1 DEF WholeIInv, OnlyRefusalsMiss
  <2>5. \A q \in Procs : ~(~fts.current /\ opener[q] \in {"gone", "empty"})
    BY <1>2 DEF WholeIInv
  <2> QED
    BY <1>1, <2>3, <2>4, <2>5 DEF WholeIInv
<1>3. CASE table \notin fts.triggers
  <2>1. /\ fts' = fts /\ (fts.current => p \in lapses'.missed)
        /\ ~fts.current => lapses'.missed = lapses.missed
    BY <1>3, WriteCases
  <2>2. IndexIsWhole'
    BY <1>1, <2>1 DEF WholeIInv, IndexIsWhole, Findable
  <2>3. fts.current => lapses.refused \/ lapses.overtaken
    BY <1>3 DEF WholeIInv, Writing, Tables
  <2>4. OnlyRefusalsMiss'
    BY <1>1, <2>1, <2>3 DEF WholeIInv, OnlyRefusalsMiss
  <2> QED
    BY <1>1, <2>1, <2>2, <2>4 DEF WholeIInv
<1> QED
  BY <1>2, <1>3

LEMMA WriteUrlWhole ==
  ASSUME IndexTypes, WholeIInv, NEW p \in IndexPages, WriteUrl(p) PROVE WholeIInv'
<1>1. PICK url \in {"active", "inactive"} : Write(p, [stored[p] EXCEPT !.url = url], "urls")
  BY DEF WriteUrl
<1>2. [stored[p] EXCEPT !.url = url] \in PageRow
  BY DEF IndexTypes, PageRow
<1> QED
  BY <1>1, <1>2, WriteWhole DEF WriteUrl, Tables

LEMMA WriteProductWhole ==
  ASSUME IndexTypes, WholeIInv, NEW p \in IndexPages, WriteProduct(p) PROVE WholeIInv'
<1>1. PICK r \in PageRow : Write(p, r, "products")
  BY ProductRow
<1> QED
  BY <1>1, WriteWhole DEF WriteProduct, Tables

LEMMA GrowsOldWhole ==
  ASSUME IndexTypes, WholeIInv, NEW p \in IndexPages, GrowsOld(p) PROVE WholeIInv'
<1>1. \A o \in IndexPages : /\ stored'[o].url = stored[o].url
                            /\ stored'[o].status = stored[o].status
                            /\ stored'[o].named = stored[o].named
  <2> DEFINE after == [stored[p] EXCEPT !.due = TRUE,
                                        !.variants = IF @ = {} THEN {} ELSE {"stale"}]
  <2>1. stored \in [IndexPages -> PageRow] /\ stored[p] \in PageRow
    BY DEF IndexTypes
  <2>2. after.url = stored[p].url /\ after.status = stored[p].status
    BY <2>1 DEF PageRow
  <2>3. after.named = stored[p].named
    BY <2>1 DEF PageRow
  <2>4. stored' = [stored EXCEPT ![p] = after]
    BY <2>1 DEF GrowsOld
  <2> HIDE DEF after
  <2> QED
    BY <2>1, <2>2, <2>3, <2>4
<1>2. UNCHANGED <<fts, opener, lapses>>
  BY DEF GrowsOld
<1> QED
  BY <1>1, <1>2 DEF WholeIInv, IndexIsWhole, OnlyRefusalsMiss, Findable

LEMMA OpeningWhole ==
  ASSUME IndexTypes, WholeIInv, NEW q \in Procs, Opens(q) \/ Killed(q)
  PROVE  WholeIInv'
<1>0. /\ fts \in FtsRow /\ opener \in [Procs -> OpenerAts] /\ UNCHANGED stored
      /\ fts.triggers \subseteq {"urls", "products"}
      /\ \A r \in Procs \ {q} : opener'[r] = opener[r]
  BY OpenerMoves DEF IndexTypes, FtsRow
<1>1. CASE OpenCatalogue(q)
  <2>1. opener'[q] = "reading" /\ UNCHANGED lapses
    BY <1>0, <1>1 DEF OpenCatalogue, Go
  <2>2. fts'.row = fts.row /\ fts'.current = fts.current /\ fts'.triggers = fts.triggers
    BY <1>1, FtsSteps
  <2> QED
    BY <1>0, <2>1, <2>2 DEF WholeIInv, IndexIsWhole, OnlyRefusalsMiss, Findable, Rebuilding
<1>2. CASE ReadVersion(q)
  <2>1. opener'[q] = (IF fts.current THEN "filled" ELSE "old") /\ UNCHANGED <<fts, lapses>>
    BY <1>0, <1>2 DEF ReadVersion, Go
  <2> QED
    BY <1>0, <2>1 DEF WholeIInv, IndexIsWhole, OnlyRefusalsMiss, Findable, Rebuilding
<1>3. CASE DropTriggers(q)
  <2>1. /\ lapses'.missed = lapses.missed /\ lapses'.refused = lapses.refused
        /\ lapses'.overtaken = (lapses.overtaken \/ fts.current)
    BY <1>3, LapseSteps
  <2>2. /\ fts'.row = fts.row /\ fts'.current = fts.current /\ fts'.triggers \subseteq fts.triggers
        /\ \/ opener[q] = "old" /\ fts'.triggers = fts.triggers \ {"urls"}
           \/ opener[q] = "untied" /\ fts'.triggers = fts.triggers \ {"products"}
    BY <1>3, FtsSteps
  <2>3. \/ opener[q] = "old" /\ opener'[q] = "untied"
        \/ opener[q] = "untied" /\ opener'[q] = "bare"
    BY <1>0, <1>3 DEF DropTriggers, Go
  <2>4. IndexIsWhole' /\ OnlyRefusalsMiss'
    BY <1>0, <2>1, <2>2 DEF WholeIInv, IndexIsWhole, OnlyRefusalsMiss, Findable
  <2>5. ~fts.current => "urls" \notin fts'.triggers
                        /\ (opener'[q] = "bare" => fts'.triggers = {})
    BY <1>0, <2>2, <2>3 DEF WholeIInv, Rebuilding
  <2> QED
    BY <1>0, <2>1, <2>2, <2>3, <2>4, <2>5 DEF WholeIInv, Rebuilding
<1>4. CASE DropTable(q)
  <2>1. /\ lapses'.missed = lapses.missed /\ lapses'.refused = lapses.refused
        /\ lapses'.overtaken = (lapses.overtaken \/ fts.current)
    BY <1>4, LapseSteps
  <2>2. /\ \A p \in IndexPages : fts'.row[p] = NoRow
        /\ fts'.current = fts.current /\ fts'.triggers = fts.triggers
    BY <1>4, FtsSteps
  <2>3. opener[q] = "bare" /\ opener'[q] = "gone"
    BY <1>0, <1>4 DEF DropTable, Go
  <2> QED
    BY <1>0, <2>1, <2>2, <2>3 DEF WholeIInv, IndexIsWhole, OnlyRefusalsMiss, Rebuilding
<1>5. CASE CreateTable(q)
  <2>1. opener[q] = "gone" /\ opener'[q] = "empty" /\ UNCHANGED lapses
    BY <1>0, <1>5 DEF CreateTable, Go
  <2>2. fts'.row = fts.row /\ fts'.current = fts.current /\ fts'.triggers = fts.triggers
    BY <1>5, FtsSteps
  <2> QED
    BY <1>0, <2>1, <2>2 DEF WholeIInv, IndexIsWhole, OnlyRefusalsMiss, Findable, Rebuilding
<1>6. CASE Fill(q)
  <2>1. opener[q] = "empty" /\ opener'[q] = "filled" /\ UNCHANGED lapses
    BY <1>0, <1>6 DEF Fill, Go
  <2>2. /\ fts'.current /\ fts'.triggers = fts.triggers
        /\ \A p \in IndexPages : fts'.row[p] = fts.row[p] \cup TextOfUrl(stored[p])
    BY <1>6, FillStep
  <2>3. ASSUME NEW p \in IndexPages, fts.row[p] = NoRow \/ Findable(p) PROVE Findable(p)'
    <3>1. fts'.row[p] = fts.row[p] \cup TextOfUrl(stored[p]) /\ stored' = stored
      BY <1>0, <2>2
    <3>2. CASE stored[p].url = "active"
      <4>1. "slug" \in TextOfUrl(stored[p])
            /\ (stored[p].status = "OK" /\ stored[p].named => "name" \in TextOfUrl(stored[p]))
        BY <3>2 DEF TextOfUrl
      <4> QED
        BY <3>1, <3>2, <4>1 DEF Findable
    <3>3. CASE stored[p].url # "active"
      <4>1. TextOfUrl(stored[p]) = {} /\ fts.row[p] = {}
        BY <2>3, <3>3 DEF TextOfUrl, Findable, NoRow
      <4> QED
        BY <3>1, <3>3, <4>1 DEF Findable, NoRow
    <3> QED
      BY <3>2, <3>3
  <2>4. IndexIsWhole'
    BY <2>1, <2>2, <2>3 DEF WholeIInv, IndexIsWhole
  <2> QED
    BY <1>0, <2>1, <2>2, <2>4 DEF WholeIInv, OnlyRefusalsMiss
<1>7. CASE InstallTriggers(q)
  <2>1. UNCHANGED lapses /\ \/ opener[q] = "filled" /\ opener'[q] = "half"
                            \/ opener[q] = "half" /\ opener'[q] = "ready"
    BY <1>0, <1>7 DEF InstallTriggers, Go
  <2>2. /\ fts'.row = fts.row /\ fts'.current = fts.current /\ fts.triggers \subseteq fts'.triggers
        /\ \/ opener[q] = "filled" /\ fts'.triggers = fts.triggers \cup {"urls"}
           \/ opener[q] = "half" /\ fts'.triggers = fts.triggers \cup {"products"}
    BY <1>7, FtsSteps
  <2>3. fts.current
    BY <2>1 DEF WholeIInv
  <2>4. IndexIsWhole' /\ OnlyRefusalsMiss'
    BY <1>0, <2>1, <2>2 DEF WholeIInv, IndexIsWhole, OnlyRefusalsMiss, Findable
  <2> QED
    BY <1>0, <2>1, <2>2, <2>3, <2>4 DEF WholeIInv
<1>8. CASE GivesUp(q)
  <2>1. lapses'.missed = lapses.missed /\ lapses'.refused /\ lapses'.overtaken = lapses.overtaken
    BY <1>8, LapseSteps
  <2>2. opener'[q] = "ready" /\ UNCHANGED fts
    BY <1>0, <1>8 DEF GivesUp, Go
  <2> QED
    BY <1>0, <2>1, <2>2 DEF WholeIInv, IndexIsWhole, OnlyRefusalsMiss, Findable, Rebuilding
<1>9. CASE Killed(q)
  <2>1. opener'[q] = "down" /\ UNCHANGED <<fts, lapses>>
    BY <1>0, <1>9 DEF Killed, Go
  <2> QED
    BY <1>0, <2>1 DEF WholeIInv, IndexIsWhole, OnlyRefusalsMiss, Findable, Rebuilding
<1> QED
  BY <1>1, <1>2, <1>3, <1>4, <1>5, <1>6, <1>7, <1>8, <1>9 DEF Opens

LEMMA WholeNextOK == RepairIInv /\ WholeIInv /\ [IndexNext]_indexVars => WholeIInv'
<1> SUFFICES ASSUME RepairIInv, WholeIInv, [IndexNext]_indexVars PROVE WholeIInv'
  OBVIOUS
<1>0. IndexTypes
  BY DEF RepairIInv
<1>1. ASSUME UNCHANGED <<stored, fts, opener, lapses>> PROVE WholeIInv'
  BY <1>1 DEF WholeIInv, IndexIsWhole, OnlyRefusalsMiss, Findable
<1>2. ASSUME NEW p \in IndexPages,
             \/ FindPage(p) \/ ReadVariants(p) \/ RepairSize(p) \/ RepairStale(p)
             \/ \E k \in {"size", "stale"} : RepairEnds(k, p)
      PROVE  WholeIInv'
  BY <1>1, <1>2 DEF FindPage, ReadVariants, RepairSize, RepairStale, RepairEnds
<1>3. CASE SearchReturns \/ GraceEnds \/ UNCHANGED indexVars
  BY <1>1, <1>3 DEF SearchReturns, GraceEnds, indexVars
<1>4. ASSUME NEW q \in Procs, Opens(q) \/ Killed(q) PROVE WholeIInv'
  BY <1>0, <1>4, OpeningWhole
<1> QED
  BY <1>0, <1>2, <1>3, <1>4, WriteUrlWhole, WriteProductWhole, GrowsOldWhole
     DEF IndexNext, Opens

(* One process: the version it has read is the one that is recorded until it fills. *)
AloneIInv ==
  /\ ~lapses.overtaken
  /\ \A q \in Procs : opener[q] \in {"old"} \cup Rebuilding => ~fts.current

LEMMA AloneNextOK ==
  ASSUME \A q, r \in Procs : q = r
  PROVE  RepairIInv /\ AloneIInv /\ [IndexNext]_indexVars => AloneIInv'
<1> SUFFICES ASSUME RepairIInv, AloneIInv, [IndexNext]_indexVars PROVE AloneIInv'
  OBVIOUS
<1>0. IndexTypes
  BY DEF RepairIInv
<1>1. ASSUME UNCHANGED <<opener, lapses>>, fts'.current = fts.current PROVE AloneIInv'
  BY <1>1 DEF AloneIInv
<1>2. ASSUME NEW p \in IndexPages,
             \/ GrowsOld(p) \/ FindPage(p) \/ ReadVariants(p) \/ RepairSize(p) \/ RepairStale(p)
             \/ \E k \in {"size", "stale"} : RepairEnds(k, p)
      PROVE  AloneIInv'
  BY <1>1, <1>2 DEF GrowsOld, FindPage, ReadVariants, RepairSize, RepairStale, RepairEnds
<1>3. CASE SearchReturns \/ GraceEnds \/ UNCHANGED indexVars
  BY <1>1, <1>3 DEF SearchReturns, GraceEnds, indexVars
<1>4. ASSUME NEW p \in IndexPages, WriteUrl(p) \/ WriteProduct(p) PROVE AloneIInv'
  <2>1. \E r \in PageRow, table \in Tables : Write(p, r, table)
    <3>1. CASE WriteUrl(p)
      <4>1. PICK url \in {"active", "inactive"} : Write(p, [stored[p] EXCEPT !.url = url], "urls")
        BY <3>1 DEF WriteUrl
      <4>2. [stored[p] EXCEPT !.url = url] \in PageRow
        BY <1>0 DEF IndexTypes, PageRow
      <4> QED
        BY <4>1, <4>2 DEF Tables
    <3>2. CASE WriteProduct(p)
      BY <1>0, <3>2, ProductRow DEF Tables
    <3> QED
      BY <1>4, <3>1, <3>2
  <2>2. fts'.current = fts.current /\ lapses'.overtaken = lapses.overtaken
    <3>1. PICK r \in PageRow, table \in Tables : Write(p, r, table)
      BY <2>1
    <3> QED
      BY <1>0, <3>1, WriteCases
  <2>3. UNCHANGED opener
    BY <1>4 DEF WriteUrl, WriteProduct
  <2> QED
    BY <2>2, <2>3 DEF AloneIInv
<1>5. ASSUME NEW q \in Procs, Opens(q) \/ Killed(q) PROVE AloneIInv'
  <2>0. opener \in [Procs -> OpenerAts] /\ \A r \in Procs : r = q
    BY <1>0 DEF IndexTypes
  <2>1. CASE DropTriggers(q) \/ DropTable(q)
    <3>1. opener[q] \in {"old", "untied", "bare"} /\ fts'.current = fts.current
      BY <1>0, <2>1, FtsSteps DEF DropTriggers, DropTable
    <3>2. ~fts.current
      BY <3>1 DEF AloneIInv, Rebuilding
    <3>3. ~lapses'.overtaken
      BY <1>0, <2>1, <3>2, LapseSteps DEF AloneIInv
    <3> QED
      BY <3>1, <3>2, <3>3 DEF AloneIInv
  <2>2. CASE OpenCatalogue(q) \/ CreateTable(q)
    <3>1. fts'.current = fts.current /\ UNCHANGED lapses
      BY <1>0, <2>2, FtsSteps DEF OpenCatalogue, CreateTable
    <3>2. \/ opener'[q] = "reading"
          \/ opener[q] = "gone" /\ opener'[q] = "empty"
      BY <2>0, <2>2 DEF OpenCatalogue, CreateTable, Go
    <3> QED
      BY <2>0, <3>1, <3>2 DEF AloneIInv, Rebuilding
  <2>3. CASE Fill(q) \/ InstallTriggers(q)
    <3>1. UNCHANGED lapses /\ opener'[q] \in {"filled", "half", "ready"}
      BY <2>0, <2>3 DEF Fill, InstallTriggers, Go
    <3> QED
      BY <2>0, <3>1 DEF AloneIInv, Rebuilding
  <2>4. CASE ReadVersion(q)
    <3>1. UNCHANGED <<fts, lapses>> /\ opener'[q] = (IF fts.current THEN "filled" ELSE "old")
      BY <2>0, <2>4 DEF ReadVersion, Go
    <3> QED
      BY <2>0, <3>1 DEF AloneIInv, Rebuilding
  <2>5. CASE GivesUp(q) \/ Killed(q)
    <3>1. UNCHANGED fts /\ opener'[q] \in {"ready", "down"}
      BY <2>0, <2>5 DEF GivesUp, Killed, Go
    <3>2. lapses'.overtaken = lapses.overtaken
      BY <1>0, <2>5, LapseSteps DEF Killed
    <3> QED
      BY <2>0, <3>1, <3>2 DEF AloneIInv, Rebuilding
  <2> QED
    BY <1>5, <2>1, <2>2, <2>3, <2>4, <2>5 DEF Opens
<1> QED
  BY <1>2, <1>3, <1>4, <1>5 DEF IndexNext, Opens

(* A page never has two repair threads of a kind, and its key is held for as long as    *)
(* the thread is there, in whatever order searches, refreshes and restarts come.        *)
THEOREM OneRepairPerPage == IndexSpec => []OneRepair
<1>1. RepairIInv => OneRepair
  BY DEF RepairIInv
<1> QED
  BY <1>1, RepairInitOK, RepairNextOK, PTL DEF IndexSpec

(* For any processes, in any order of their openings, kills and refused locks: an index   *)
(* of the current version is whole but for the pages last written while a trigger was     *)
(* missing, unless a rebuild was overtaken by another's; no page is missed unless a       *)
(* process went on after a statement had failed.                                          *)
THEOREM IndexInvariant == IndexSpec => []IndexInv
<1>1. RepairIInv /\ WholeIInv => IndexInv
  <2> SUFFICES ASSUME RepairIInv, WholeIInv PROVE IndexInv
    OBVIOUS
  <2>1. IndexType
    BY DEF RepairIInv, IndexTypes, IndexType, FtsRow, FinderRow, RepairsRow, LapsesRow, OpenerAts
  <2> QED
    BY <2>1 DEF RepairIInv, WholeIInv, IndexInv
<1> QED
  BY <1>1, RepairInitOK, RepairNextOK, WholeInitOK, WholeNextOK, PTL DEF IndexSpec

(* One process overtakes nobody: whatever kills and refused locks its rebuilds meet, an  *)
(* index of the current version is whole but for the pages it wrote after a statement    *)
(* had failed.                                                                           *)
THEOREM IndexWholeAlone ==
  ASSUME \A q, r \in Procs : q = r
  PROVE  IndexSpec => [](fts.current => \A p \in IndexPages :
                                          Findable(p) \/ (p \in lapses.missed /\ lapses.refused))
<1>1. IndexInit => AloneIInv
  BY DEF IndexInit, AloneIInv, Rebuilding
<1>2. WholeIInv /\ AloneIInv =>
        (fts.current => \A p \in IndexPages :
                          Findable(p) \/ (p \in lapses.missed /\ lapses.refused))
  BY DEF WholeIInv, AloneIInv, IndexIsWhole, OnlyRefusalsMiss
<1> QED
  BY <1>1, <1>2, RepairInitOK, RepairNextOK, WholeInitOK, WholeNextOK, AloneNextOK, PTL DEF IndexSpec
===================================================================================
