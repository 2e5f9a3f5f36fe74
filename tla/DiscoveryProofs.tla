------------------------------ MODULE DiscoveryProofs ------------------------------
(* Proofs about the discovery: the Deloox frontier, and overlapping runs of          *)
(* discover_store.                                                                   *)
EXTENDS DiscoveryFrontier, DiscoveryRuns, TLAPS

(* The frontier. FrontierInv needs only that a visit is kept in one place: a run has  *)
(* a page exactly while it processes one, has a batch only from its claim to the     *)
(* last page, and never has a listing twice. This is also what the refinement of     *)
(* PageLease rests on: a run that gives a page back is no longer at it.              *)
Processing == {"fetched", "queued", "persisted", "failed"}

LeasedRow == {row \in Node : row.state = "PROCESSING" <=> row.token # NoRun}

OpenRun ==
  {k \in CrawlRun :
     /\ k.page # <<>> <=> k.at \in Processing
     /\ k.at \notin Processing \cup {"claiming"} => k.batch = {}
     /\ \A v, w \in k.batch : v[1] = w[1] => v = w
     /\ k.page # <<>> => \A v \in k.batch : v[1] # k.page[1]}

FrontierIInv ==
  /\ node \in [Nodes -> LeasedRow]
  /\ run \in [Runs -> OpenRun]
  /\ offset \in 0 .. NQueries - 1
  /\ misses \in [Nodes -> 0 .. MaxTries]

\* The inductive invariant implies the one the runs check.
LEMMA FrontierIInvImplies == FrontierIInv => FrontierInv
<1> SUFFICES ASSUME FrontierIInv PROVE FrontierInv
  OBVIOUS
<1>1. node \in [Nodes -> Node] /\ run \in [Runs -> CrawlRun]
  BY DEF FrontierIInv, LeasedRow, OpenRun
<1>2. TokenMeansProcessing
  BY DEF FrontierIInv, LeasedRow, TokenMeansProcessing
<1> QED
  BY <1>1, <1>2 DEF FrontierIInv, FrontierInv, FrontierType

LEMMA Numbers ==
  /\ 0 \in 0 .. MaxDepth /\ 0 \in 0 .. MaxTries /\ 0 \in 0 .. NodeBackoff
  /\ 0 \in 0 .. NodeLease /\ 0 \in 0 .. Revisit /\ 0 \in 0 .. NQueries - 1
  /\ NodeLease \in 0 .. NodeLease /\ NodeLease > 0 /\ NodeBackoff \in 0 .. NodeBackoff
  /\ MaxTries - 1 \in 0 .. MaxTries
  /\ \A n \in 0 .. MaxTries : Least(n + 1, MaxTries) \in 0 .. MaxTries
  /\ \A m, n \in 0 .. MaxDepth : Least(m, n) \in 0 .. MaxDepth
  /\ \A n \in 0 .. NQueries - 1 : (n + 1) % NQueries \in 0 .. NQueries - 1
  BY FrontierAssumption DEF Least

-----------------------------------------------------------------------------
(* Rows. Two rows are leased alike when they have the same token, and their leases run *)
(* alike if they are being processed.                                                *)
LeasedAlike(new, old) ==
  /\ new.token = old.token
  /\ old.state = "PROCESSING" => (new.lease > 0 <=> old.lease > 0)

\* The update of a finish, a sweep or a revisit takes the token away.
LEMMA EndedRow ==
  ASSUME NEW row \in Node, NEW state \in NodeStates \ {"PROCESSING"}, NEW wait \in 0 .. NodeBackoff
  PROVE  /\ Ended(row, state, wait) \in LeasedRow /\ Ended(row, state, wait).token = NoRun
         /\ Ended(row, state, wait).state = state
  BY Numbers DEF Ended, LeasedRow, Node

LEMMA NewRow ==
  ASSUME NEW depth \in 0 .. MaxDepth, NEW state \in {"ABSENT", "PENDING"}
  PROVE  NewNode(state, depth) \in LeasedRow /\ NewNode(state, depth).token = NoRun
  BY Numbers DEF NewNode, LeasedRow, Node, NodeStates

\* The UPSERT of a link or a seed leaves a lease alone.
LEMMA EnqueuedRow ==
  ASSUME NEW row \in LeasedRow, NEW depth \in 0 .. MaxDepth, NEW seed \in BOOLEAN
  PROVE  Enqueued(row, depth, seed) \in LeasedRow /\ LeasedAlike(Enqueued(row, depth, seed), row)
<1> DEFINE closer == [row EXCEPT !.depth = Least(@, depth)]
<1>1. row \in Node /\ (row.state = "PROCESSING" <=> row.token # NoRun)
  BY DEF LeasedRow
<1>2. Least(row.depth, depth) \in 0 .. MaxDepth
  BY <1>1, Numbers DEF Node
<1>3. /\ closer \in Node /\ closer.state = row.state /\ closer.token = row.token
      /\ closer.lease = row.lease
  BY <1>1, <1>2 DEF Node
<1>4. CASE row.state = "ABSENT"
  BY <1>1, <1>4, NewRow DEF Enqueued, LeasedAlike
<1>5. CASE row.state # "ABSENT" /\ seed /\ row.state \in {"DONE", "DEAD"}
  <2>1. Ended(closer, "PENDING", 0) \in LeasedRow /\ Ended(closer, "PENDING", 0).token = NoRun
    BY <1>3, Numbers, EndedRow DEF NodeStates
  <2> QED
    BY <1>1, <1>5, <2>1 DEF Enqueued, LeasedAlike
<1>6. CASE row.state # "ABSENT" /\ ~(seed /\ row.state \in {"DONE", "DEAD"})
  <2>1. Enqueued(row, depth, seed) = closer
    BY <1>6 DEF Enqueued
  <2>2. closer \in LeasedRow
    BY <1>1, <1>3 DEF LeasedRow
  <2> HIDE DEF closer
  <2> QED
    BY <1>3, <2>1, <2>2 DEF LeasedAlike
<1> QED
  BY <1>4, <1>5, <1>6

\* The sweep takes the pages whose lease has run out, and no other.
LEMMA SweptRow ==
  ASSUME FrontierIInv, NEW u \in Nodes
  PROVE  /\ SweptNodes[u] \in LeasedRow
         /\ \/ LeasedAlike(SweptNodes[u], node[u])
            \/ node[u].lease = 0 /\ SweptNodes[u].token = NoRun
<1>1. node[u] \in LeasedRow /\ node[u] \in Node
  BY DEF FrontierIInv, LeasedRow
<1>2. CASE node[u].state = "PROCESSING" /\ node[u].lease = 0
  <2>1. SweptNodes[u] = Ended(node[u], "PENDING", 0)
    BY <1>2 DEF SweptNodes
  <2> QED
    BY <1>1, <1>2, <2>1, EndedRow, Numbers DEF NodeStates
<1>3. CASE ~(node[u].state = "PROCESSING" /\ node[u].lease = 0)
  BY <1>1, <1>3 DEF SweptNodes, LeasedAlike
<1> QED
  BY <1>2, <1>3

-----------------------------------------------------------------------------
(* Runs. Busy(k, u): a run whose record is k has u in its batch or is processing it. *)
Busy(k, u) == \E visit \in k.batch \cup ({k.page} \ {<<>>}) : visit[1] = u

LEMMA CrawlFacts ==
  ASSUME FrontierIInv, NEW r \in Runs
  PROVE  /\ run[r] \in OpenRun /\ run[r] \in CrawlRun
         /\ run[r].page # <<>> <=> run[r].at \in Processing
         /\ run[r].at \notin Processing \cup {"claiming"} => run[r].batch = {}
         /\ \A v, w \in run[r].batch : v[1] = w[1] => v = w
         /\ run[r].page # <<>> => \A v \in run[r].batch : v[1] # run[r].page[1]
  BY DEF FrontierIInv, OpenRun

\* A stage follows another of the same kind.
LEMMA GotoCrawl ==
  ASSUME FrontierIInv, NEW r \in Runs, NEW stage \in Stages, Goto(r, stage),
         stage \in Processing <=> run[r].at \in Processing,
         run[r].at = "claiming" => stage = "claiming"
  PROVE  /\ run' \in [Runs -> OpenRun]
         /\ \A s \in Runs, u \in Nodes : Busy(run'[s], u) <=> Busy(run[s], u)
<1> DEFINE k == [run[r] EXCEPT !.at = stage]
<1>1. run' = [run EXCEPT ![r] = k]
  BY DEF Goto, FrontierIInv
<1>2. /\ k \in CrawlRun /\ k.at = stage /\ k.batch = run[r].batch /\ k.page = run[r].page
  BY CrawlFacts DEF CrawlRun
<1>3. k \in OpenRun
  BY <1>2, CrawlFacts DEF OpenRun
<1>4. \A s \in Runs : run'[s].batch = run[s].batch /\ run'[s].page = run[s].page
  BY <1>1, <1>2 DEF FrontierIInv
<1> QED
  BY <1>1, <1>3, <1>4 DEF FrontierIInv, Busy

LEMMA IdleCrawl == IdleRun \in OpenRun /\ \A u : ~Busy(IdleRun, u)
<1>1. IdleRun \in CrawlRun
  BY Numbers DEF IdleRun, CrawlRun, Stages
<1> QED
  BY <1>1 DEF IdleRun, OpenRun, Busy, Processing

\* A page of the batch is taken up: the run is at the same listings as before.
LEMMA TakeUp ==
  ASSUME FrontierIInv, NEW r \in Runs, NEW visit \in run[r].batch, NEW at \in {"fetched", "failed"},
         NEW shown \in SUBSET Nodes, run[r].at = "claiming",
         run' = [run EXCEPT ![r] = [run[r] EXCEPT !.at = at, !.page = visit,
                                                 !.batch = @ \ {visit}, !.shown = shown]]
  PROVE  /\ run' \in [Runs -> OpenRun]
         /\ \A s \in Runs, u \in Nodes : Busy(run'[s], u) <=> Busy(run[s], u)
<1> DEFINE k == [run[r] EXCEPT !.at = at, !.page = visit, !.batch = @ \ {visit}, !.shown = shown]
<1>1. visit \in Visits /\ visit # <<>>
  <2>1. visit \in Visits
    BY CrawlFacts DEF CrawlRun
  <2>2. \A u \in Nodes, d \in 0 .. MaxDepth : <<u, d>> # <<>>
    BY Z3
  <2>3. \A v \in Visits : v # <<>>
    <3> TAKE v \in Visits
    <3>1. PICK u \in Nodes, d \in 0 .. MaxDepth : v = <<u, d>>
      BY DEF Visits
    <3> QED
      BY <3>1, <2>2
  <2> QED
    BY <2>1, <2>3
<1>2. run[r].page = <<>>
  BY CrawlFacts DEF Processing
<1>3. /\ k \in CrawlRun /\ k.at = at /\ k.page = visit /\ k.batch = run[r].batch \ {visit}
  BY <1>1, CrawlFacts DEF CrawlRun, Stages
<1>4. k \in OpenRun
  BY <1>1, <1>3, CrawlFacts DEF OpenRun, Processing
<1>5. \A u \in Nodes : Busy(k, u) <=> Busy(run[r], u)
  BY <1>1, <1>2, <1>3 DEF Busy
<1>6. \A s \in Runs : run'[s] = IF s = r THEN k ELSE run[s]
  BY DEF FrontierIInv
<1> QED
  BY <1>4, <1>5, <1>6 DEF FrontierIInv

\* A page is left: the run is at the other listings of its batch.
LEMMA LeaveCrawl ==
  ASSUME FrontierIInv, NEW r \in Runs, run[r].at \in Processing, Leave(r)
  PROVE  /\ run' \in [Runs -> OpenRun]
         /\ \A u \in Nodes : Busy(run'[r], u) <=> Busy(run[r], u) /\ u # run[r].page[1]
         /\ \A s \in Runs \ {r} : run'[s] = run[s]
         /\ run[r].page[1] \in Nodes /\ Busy(run[r], run[r].page[1])
<1> DEFINE k == [run[r] EXCEPT !.at = "claiming", !.page = <<>>, !.shown = {}]
<1>1. run' = [run EXCEPT ![r] = k]
  BY DEF Leave, FrontierIInv
<1>2. /\ k \in CrawlRun /\ k.at = "claiming" /\ k.page = <<>> /\ k.batch = run[r].batch
  BY CrawlFacts DEF CrawlRun, Stages
<1>3. k \in OpenRun
  BY <1>2, CrawlFacts DEF OpenRun, Processing
<1>4. run[r].page # <<>> /\ run[r].page \in Visits
  BY CrawlFacts DEF CrawlRun
<1>5. run[r].page[1] \in Nodes
  BY <1>4 DEF Visits
<1>6. \A u \in Nodes : Busy(k, u) <=> Busy(run[r], u) /\ u # run[r].page[1]
  BY <1>2, <1>4, CrawlFacts DEF Busy
<1>7. \A s \in Runs : run'[s] = IF s = r THEN k ELSE run[s]
  BY <1>1 DEF FrontierIInv
<1> QED
  <2>1. run' \in [Runs -> OpenRun] /\ \A s \in Runs \ {r} : run'[s] = run[s]
    <3> HIDE DEF k
    <3> QED
      BY <1>1, <1>3 DEF FrontierIInv
  <2>2. Busy(run[r], run[r].page[1])
    BY <1>4 DEF Busy
  <2>3. run'[r] = k
    BY <1>7
  <2>4. \A u \in Nodes : Busy(run'[r], u) <=> Busy(run[r], u) /\ u # run[r].page[1]
    BY <1>6, <2>3 DEF Busy
  <2> QED
    BY <1>5, <2>1, <2>2, <2>4

\* The rows of a claim.
ClaimedBy(row, r) ==
  [row EXCEPT !.state = "PROCESSING", !.lease = NodeLease, !.token = r,
              !.attempts = Least(@ + 1, MaxTries)]

LEMMA ClaimedRow ==
  ASSUME NEW row \in LeasedRow, NEW r \in Runs, row.state \in {"PENDING", "ERROR"}
  PROVE  /\ ClaimedBy(row, r) \in LeasedRow /\ ClaimedBy(row, r).token = r
         /\ ClaimedBy(row, r).lease > 0 /\ row.token = NoRun
<1> DEFINE new == ClaimedBy(row, r)
<1>1. row \in Node /\ row.token = NoRun /\ Least(row.attempts + 1, MaxTries) \in 0 .. MaxTries
  BY Numbers DEF LeasedRow, Node
<1>2. /\ new \in Node /\ new.state = "PROCESSING" /\ new.token = r /\ new.lease = NodeLease
  BY <1>1, Numbers DEF ClaimedBy, Node, NodeStates
<1>3. r # NoRun
  BY FrontierAssumption
<1> HIDE DEF new
<1>4. new \in LeasedRow
  BY <1>2, <1>3 DEF LeasedRow
<1> QED
  BY <1>1, <1>2, <1>4, Numbers DEF new

-----------------------------------------------------------------------------
(* What a step does to one page, in the words of PageLease. *)
SameVisitors(u) == \A s \in Runs : Busy(run'[s], u) <=> Busy(run[s], u)

Moved(u) ==
  \/ LeasedAlike(node'[u], node[u]) /\ \A s \in Runs : Busy(run'[s], u) => Busy(run[s], u)
  \/ node[u].lease = 0 /\ node'[u].token = NoRun /\ SameVisitors(u)
  \/ NodeLeased(u) /\ ~NodeLeased(u)' /\ node'[u].token = node[u].token /\ SameVisitors(u)
  \/ \E r \in Runs :
       /\ \A s \in Runs \ {r} : Busy(run'[s], u) <=> Busy(run[s], u)
       /\ \/ /\ node[u].token = NoRun /\ node'[u].token = r /\ node'[u].lease > 0
             /\ ~Busy(run[r], u) /\ Busy(run'[r], u)
          \/ /\ Busy(run[r], u) /\ ~Busy(run'[r], u)
             /\ IF node[u].token = r THEN node'[u].token = NoRun ELSE LeasedAlike(node'[u], node[u])

Stepped == FrontierIInv' /\ \A u \in Nodes : Moved(u)

\* A step that touches no row and adds no visitor.
LEMMA RowsKept ==
  ASSUME FrontierIInv, run' \in [Runs -> OpenRun], node' = node,
         \A s \in Runs, u \in Nodes : Busy(run'[s], u) => Busy(run[s], u),
         offset' \in 0 .. NQueries - 1, misses' \in [Nodes -> 0 .. MaxTries]
  PROVE  Stepped
  BY DEF FrontierIInv, Stepped, Moved, LeasedAlike

\* A step that adds no visitor and leaves the leases of the rows alone.
LEMMA RowsAlike ==
  ASSUME FrontierIInv, run' \in [Runs -> OpenRun], node' \in [Nodes -> LeasedRow],
         \A s \in Runs, u \in Nodes : Busy(run'[s], u) => Busy(run[s], u),
         \A u \in Nodes : LeasedAlike(node'[u], node[u]),
         offset' \in 0 .. NQueries - 1, misses' \in [Nodes -> 0 .. MaxTries]
  PROVE  Stepped
  BY DEF FrontierIInv, Stepped, Moved

LEMMA PreludeOK ==
  ASSUME FrontierIInv, NEW r \in Runs,
         StartRun(r) \/ RotateQuery(r) \/ PersistPage(r) \/ ProcessPageRaises(r)
  PROVE  Stepped
<1>1. PICK stage \in Stages :
        /\ Goto(r, stage) /\ (stage \in Processing <=> run[r].at \in Processing)
        /\ run[r].at = "claiming" => stage = "claiming"
  BY DEF StartRun, RotateQuery, PersistPage, ProcessPageRaises, Stages, Processing
<1>2. /\ run' \in [Runs -> OpenRun]
      /\ \A s \in Runs, u \in Nodes : Busy(run'[s], u) <=> Busy(run[s], u)
  BY <1>1, GotoCrawl
<1>3. offset' \in 0 .. NQueries - 1
  <2>1. run[r].query \in 0 .. NQueries - 1
    BY CrawlFacts DEF CrawlRun
  <2> QED
    BY <2>1, Numbers DEF FrontierIInv, StartRun, RotateQuery, PersistPage, ProcessPageRaises
<1>4. node' = node /\ misses' \in [Nodes -> 0 .. MaxTries]
  BY DEF FrontierIInv, StartRun, RotateQuery, PersistPage, ProcessPageRaises
<1> QED
  BY <1>2, <1>3, <1>4, RowsKept

LEMMA SeedFrontierOK ==
  ASSUME FrontierIInv, NEW r \in Runs, SeedFrontier(r) PROVE Stepped
<1>1. /\ run' \in [Runs -> OpenRun]
      /\ \A s \in Runs, u \in Nodes : Busy(run'[s], u) <=> Busy(run[s], u)
  BY GotoCrawl DEF SeedFrontier, Stages, Processing
<1>2. ASSUME NEW u \in Nodes
      PROVE  node'[u] \in LeasedRow /\ LeasedAlike(node'[u], node[u])
  <2>1. node[u] \in LeasedRow
    BY DEF FrontierIInv
  <2>2. node'[u] = IF u \in Seeds THEN Enqueued(node[u], 0, TRUE) ELSE node[u]
    BY DEF SeedFrontier
  <2>3. Enqueued(node[u], 0, TRUE) \in LeasedRow /\ LeasedAlike(Enqueued(node[u], 0, TRUE), node[u])
    BY <2>1, EnqueuedRow, Numbers
  <2>4. CASE u \in Seeds
    BY <2>2, <2>3, <2>4
  <2>5. CASE u \notin Seeds
    BY <2>1, <2>2, <2>5 DEF LeasedAlike
  <2> QED
    BY <2>4, <2>5
<1>3. node' \in [Nodes -> LeasedRow]
  BY <1>2 DEF SeedFrontier
<1> QED
  BY <1>1, <1>2, <1>3, RowsAlike DEF SeedFrontier, FrontierIInv

\* Every row is as the sweep leaves it or leased as before.
LEMMA SweepMoves ==
  ASSUME FrontierIInv, run' \in [Runs -> OpenRun], node' \in [Nodes -> LeasedRow],
         \A s \in Runs, u \in Nodes : Busy(run'[s], u) <=> Busy(run[s], u),
         \A u \in Nodes : \/ LeasedAlike(node'[u], node[u])
                          \/ node[u].lease = 0 /\ node'[u].token = NoRun,
         offset' = offset, misses' = misses
  PROVE  Stepped
  BY DEF FrontierIInv, Stepped, Moved, SameVisitors

LEMMA RecoverStaleOK ==
  ASSUME FrontierIInv, NEW r \in Runs, RecoverStale(r) PROVE Stepped
<1>1. /\ run' \in [Runs -> OpenRun]
      /\ \A s \in Runs, u \in Nodes : Busy(run'[s], u) <=> Busy(run[s], u)
  BY GotoCrawl DEF RecoverStale, Stages, Processing
<1>2. node' \in [Nodes -> LeasedRow]
  BY SweptRow DEF RecoverStale, SweptNodes
<1> QED
  BY <1>1, <1>2, SweptRow, SweepMoves DEF RecoverStale

\* A row that is not being processed and becomes one that is not.
LEMMA NotLeased ==
  ASSUME NEW row \in LeasedRow, row.state # "PROCESSING",
         NEW state \in NodeStates \ {"PROCESSING"}, NEW wait \in 0 .. NodeBackoff
  PROVE  /\ Ended(row, state, wait) \in LeasedRow
         /\ LeasedAlike(Ended(row, state, wait), row)
<1>1. row \in Node /\ row.token = NoRun
  BY DEF LeasedRow
<1> QED
  BY <1>1, EndedRow DEF LeasedAlike

LEMMA RequeueStaleDoneOK ==
  ASSUME FrontierIInv, NEW r \in Runs, RequeueStaleDone(r) PROVE Stepped
<1> DEFINE k == [run[r] EXCEPT !.at = "rotating", !.query = offset]
<1>1. run' = [run EXCEPT ![r] = k] /\ run[r].at = "revisiting"
  BY DEF RequeueStaleDone, FrontierIInv
<1>2. k \in CrawlRun /\ k.at = "rotating" /\ k.batch = run[r].batch /\ k.page = run[r].page
  BY CrawlFacts DEF CrawlRun, FrontierIInv, Stages
<1>3. k \in OpenRun
  BY <1>1, <1>2, CrawlFacts DEF OpenRun, Processing
<1>4. /\ run' \in [Runs -> OpenRun]
      /\ \A s \in Runs : run'[s].batch = run[s].batch /\ run'[s].page = run[s].page
  BY <1>1, <1>2, <1>3 DEF FrontierIInv
<1>5. ASSUME NEW u \in Nodes
      PROVE  node'[u] \in LeasedRow /\ LeasedAlike(node'[u], node[u])
  <2>1. node[u] \in LeasedRow
    BY DEF FrontierIInv
  <2>2. CASE node[u].state = "DONE" /\ node[u].rest = Revisit
    <3>1. node'[u] = Ended(node[u], "PENDING", 0)
      BY <2>2 DEF RequeueStaleDone
    <3> QED
      BY <2>1, <2>2, <3>1, NotLeased, Numbers DEF NodeStates
  <2>3. CASE ~(node[u].state = "DONE" /\ node[u].rest = Revisit)
    BY <2>1, <2>3 DEF RequeueStaleDone, LeasedAlike
  <2> QED
    BY <2>2, <2>3
<1>6. node' \in [Nodes -> LeasedRow]
  BY <1>5 DEF RequeueStaleDone
<1>7. \A s \in Runs, u \in Nodes : Busy(run'[s], u) => Busy(run[s], u)
  BY <1>4 DEF Busy
<1> QED
  BY <1>4, <1>5, <1>6, <1>7, RowsAlike DEF RequeueStaleDone, FrontierIInv

LEMMA SearchCatalogOK ==
  ASSUME FrontierIInv, NEW r \in Runs, SearchCatalog(r) PROVE Stepped
<1> DEFINE k == [run[r] EXCEPT !.at = "claiming", !.query = 0]
<1>1. run' = [run EXCEPT ![r] = k] /\ run[r].at = "searching"
  BY DEF SearchCatalog, FrontierIInv
<1>2. k \in CrawlRun /\ k.at = "claiming" /\ k.batch = run[r].batch /\ k.page = run[r].page
  BY CrawlFacts, Numbers DEF CrawlRun, Stages
<1>3. k \in OpenRun
  BY <1>1, <1>2, CrawlFacts DEF OpenRun, Processing
<1>4. /\ run' \in [Runs -> OpenRun]
      /\ \A s \in Runs : run'[s].batch = run[s].batch /\ run'[s].page = run[s].page
  BY <1>1, <1>2, <1>3 DEF FrontierIInv
<1>5. \A s \in Runs, u \in Nodes : Busy(run'[s], u) => Busy(run[s], u)
  BY <1>4 DEF Busy
<1> QED
  BY <1>4, <1>5, RowsKept DEF SearchCatalog, FrontierIInv

LEMMA ClaimNodesOK ==
  ASSUME FrontierIInv, NEW r \in Runs, ClaimNodes(r) PROVE Stepped
<1>1. PICK picked \in SUBSET Nodes :
        /\ ClaimOrder(picked)
        /\ node' = [u \in Nodes |-> IF u \in picked
             THEN [node[u] EXCEPT !.state = "PROCESSING", !.lease = NodeLease,
                                  !.token = r, !.attempts = Least(@ + 1, MaxTries)]
             ELSE node[u]]
        /\ run' = [run EXCEPT ![r].batch = {<<u, node[u].depth>> : u \in picked}]
  BY DEF ClaimNodes
<1> DEFINE taken == {<<u, node[u].depth>> : u \in picked}
           k == [run[r] EXCEPT !.batch = taken]
<1>2. run[r].at = "claiming" /\ run[r].batch = {} /\ run[r].page = <<>>
  BY CrawlFacts DEF ClaimNodes, Processing
<1>3. taken \in SUBSET Visits /\ \A v, w \in taken : v[1] = w[1] => v = w
  <2>1. \A u \in picked : node[u].depth \in 0 .. MaxDepth
    BY DEF FrontierIInv, LeasedRow, Node
  <2> QED
    BY <2>1 DEF Visits
<1>4. ASSUME NEW u \in Nodes PROVE (\E v \in taken : v[1] = u) <=> u \in picked
  <2>1. ASSUME NEW v \in taken PROVE v[1] \in picked
    <3>1. PICK w \in picked : v = <<w, node[w].depth>>
      OBVIOUS
    <3> QED
      BY <3>1
  <2>2. ASSUME u \in picked PROVE \E v \in taken : v[1] = u
    <3>1. <<u, node[u].depth>> \in taken /\ <<u, node[u].depth>>[1] = u
      BY <2>2
    <3> QED
      BY <3>1
  <2> QED
    BY <2>1, <2>2
<1>5. run' = [run EXCEPT ![r] = k]
  BY <1>1 DEF FrontierIInv
<1> HIDE DEF taken
<1>6. k \in CrawlRun /\ k.at = "claiming" /\ k.batch = taken /\ k.page = <<>>
  BY <1>2, <1>3, CrawlFacts DEF CrawlRun
<1>7. k \in OpenRun
  BY <1>3, <1>6 DEF OpenRun, Processing
<1>8. run' \in [Runs -> OpenRun] /\ \A s \in Runs : run'[s] = IF s = r THEN k ELSE run[s]
  BY <1>5, <1>7 DEF FrontierIInv
<1>9. \A u \in Nodes : ~Busy(run[r], u) /\ (Busy(k, u) <=> u \in picked)
  BY <1>2, <1>4, <1>6 DEF Busy
<1>10. ASSUME NEW u \in picked
       PROVE  /\ node'[u] \in LeasedRow /\ node'[u].token = r /\ node'[u].lease > 0
              /\ node[u].token = NoRun
  <2>1. node[u] \in LeasedRow /\ node[u].state \in {"PENDING", "ERROR"}
    BY <1>1 DEF FrontierIInv, ClaimOrder, Ready
  <2>2. node'[u] = ClaimedBy(node[u], r)
    BY <1>1 DEF ClaimedBy
  <2> QED
    BY <2>1, <2>2, ClaimedRow
<1>11. \A u \in Nodes \ picked : node'[u] = node[u] /\ node[u] \in LeasedRow
  BY <1>1 DEF FrontierIInv
<1>12. node' \in [Nodes -> LeasedRow]
  BY <1>1, <1>10, <1>11
<1>13. FrontierIInv'
  BY <1>8, <1>12 DEF FrontierIInv, ClaimNodes
<1>14. ASSUME NEW u \in Nodes PROVE Moved(u)
  <2>1. CASE u \in picked
    <3>1. \A s \in Runs \ {r} : Busy(run'[s], u) <=> Busy(run[s], u)
      BY <1>8
    <3>2. ~Busy(run[r], u) /\ Busy(run'[r], u)
      BY <2>1, <1>8, <1>9
    <3> QED
      BY <2>1, <3>1, <3>2, <1>10 DEF Moved
  <2>2. CASE u \notin picked
    <3>1. \A s \in Runs : Busy(run'[s], u) => Busy(run[s], u)
      BY <2>2, <1>8, <1>9
    <3> QED
      BY <2>2, <3>1, <1>11 DEF Moved, LeasedAlike
  <2> QED
    BY <2>1, <2>2
<1> QED
  BY <1>13, <1>14 DEF Stepped

LEMMA EndRunOK ==
  ASSUME FrontierIInv, NEW r \in Runs, EndRun(r) \/ FinishRaises(r) PROVE Stepped
<1>1. run' = [run EXCEPT ![r] = IdleRun] /\ node' = node /\ offset' = offset /\ misses' = misses
  BY DEF EndRun, FinishRaises
<1>2. run' \in [Runs -> OpenRun] /\ \A s \in Runs : run'[s] = IF s = r THEN IdleRun ELSE run[s]
  BY <1>1, IdleCrawl DEF FrontierIInv
<1>3. \A s \in Runs, u \in Nodes : Busy(run'[s], u) => Busy(run[s], u)
  BY <1>2, IdleCrawl
<1> QED
  BY <1>1, <1>2, <1>3, RowsKept DEF FrontierIInv

LEMMA ShowPageOK ==
  ASSUME FrontierIInv, NEW r \in Runs, ShowPage(r) PROVE Stepped
<1>1. PICK visit \in run[r].batch : \E shown \in SUBSET Links[visit[1]] :
        run' = [run EXCEPT ![r].at = "fetched", ![r].page = visit,
                           ![r].batch = @ \ {visit}, ![r].shown = shown]
  BY DEF ShowPage
<1>2. PICK shown \in SUBSET Links[visit[1]] :
        run' = [run EXCEPT ![r].at = "fetched", ![r].page = visit,
                           ![r].batch = @ \ {visit}, ![r].shown = shown]
  BY <1>1
<1>3. shown \in SUBSET Nodes
  <2>1. visit[1] \in Nodes
    BY CrawlFacts DEF CrawlRun, Visits
  <2>2. Links[visit[1]] \subseteq Nodes
    BY <2>1, FrontierAssumption
  <2> QED
    BY <2>2
<1>4. run' = [run EXCEPT ![r] = [run[r] EXCEPT !.at = "fetched", !.page = visit,
                                              !.batch = @ \ {visit}, !.shown = shown]]
  BY <1>2 DEF FrontierIInv
<1>5. /\ run' \in [Runs -> OpenRun]
      /\ \A s \in Runs, u \in Nodes : Busy(run'[s], u) <=> Busy(run[s], u)
  BY <1>3, <1>4, TakeUp DEF ShowPage
<1> QED
  BY <1>5, RowsKept DEF ShowPage, FrontierIInv

LEMMA FetchPageFailsOK ==
  ASSUME FrontierIInv, NEW r \in Runs, FetchPageFails(r) PROVE Stepped
<1>1. PICK visit \in run[r].batch :
        run' = [run EXCEPT ![r].at = "failed", ![r].page = visit, ![r].batch = @ \ {visit}]
  BY DEF FetchPageFails
<1>2. run[r].shown \in SUBSET Nodes
  BY CrawlFacts DEF CrawlRun
<1>3. run' = [run EXCEPT ![r] = [run[r] EXCEPT !.at = "failed", !.page = visit,
                                      !.batch = @ \ {visit}, !.shown = run[r].shown]]
  BY <1>1, CrawlFacts DEF FrontierIInv, CrawlRun
<1>4. /\ run' \in [Runs -> OpenRun]
      /\ \A s \in Runs, u \in Nodes : Busy(run'[s], u) <=> Busy(run[s], u)
  BY <1>2, <1>3, TakeUp DEF FetchPageFails
<1> QED
  BY <1>4, RowsKept DEF FetchPageFails, FrontierIInv

LEMMA EnqueueLinksOK ==
  ASSUME FrontierIInv, NEW r \in Runs, EnqueueLinks(r) PROVE Stepped
<1>1. /\ run' \in [Runs -> OpenRun]
      /\ \A s \in Runs, u \in Nodes : Busy(run'[s], u) <=> Busy(run[s], u)
  BY GotoCrawl DEF EnqueueLinks, Stages, Processing
<1>2. ASSUME NEW u \in Nodes
      PROVE  node'[u] \in LeasedRow /\ LeasedAlike(node'[u], node[u])
  <2>1. node[u] \in LeasedRow
    BY DEF FrontierIInv
  <2>2. CASE u \in Admitted(r)
    <3>1. node'[u] = Enqueued(node[u], LinkDepth(run[r].page, u), FALSE)
      BY <2>2 DEF EnqueueLinks
    <3>2. run[r].page \in Visits
      BY CrawlFacts DEF EnqueueLinks, CrawlRun, Processing
    <3>3. run[r].page[2] \in 0 .. MaxDepth
      BY <3>2 DEF Visits
    <3>4. LinkDepth(run[r].page, u) \in 0 .. MaxDepth
      BY <2>2, <3>3, FrontierAssumption DEF Admitted, LinkDepth
    <3> QED
      BY <2>1, <3>1, <3>4, EnqueuedRow
  <2>3. CASE u \notin Admitted(r)
    BY <2>1, <2>3 DEF EnqueueLinks, LeasedAlike
  <2> QED
    BY <2>2, <2>3
<1>3. node' \in [Nodes -> LeasedRow]
  BY <1>2 DEF EnqueueLinks
<1> QED
  BY <1>1, <1>2, <1>3, RowsAlike DEF EnqueueLinks, FrontierIInv

\* The page a run leaves is given back if it still has the run's token.
LEMMA GiveBackMoves ==
  ASSUME FrontierIInv, NEW r \in Runs, run[r].at \in Processing, Leave(r), offset' = offset,
         misses' \in [Nodes -> 0 .. MaxTries], NEW row \in LeasedRow, row.token = NoRun,
         node' = IF OwnsNode(r, run[r].page[1]) THEN [node EXCEPT ![run[r].page[1]] = row] ELSE node
  PROVE  Stepped
<1> DEFINE page == run[r].page[1]
<1>1. /\ run' \in [Runs -> OpenRun]
      /\ \A u \in Nodes : Busy(run'[r], u) <=> Busy(run[r], u) /\ u # page
      /\ \A s \in Runs \ {r} : run'[s] = run[s]
      /\ page \in Nodes /\ Busy(run[r], page)
  BY LeaveCrawl
<1> HIDE DEF page
<1>2. /\ node' \in [Nodes -> LeasedRow]
      /\ \A u \in Nodes : node'[u] = IF u = page /\ node[u].token = r THEN row ELSE node[u]
  BY <1>1 DEF FrontierIInv, OwnsNode, page
<1>3. FrontierIInv'
  BY <1>1, <1>2 DEF FrontierIInv
<1>4. ASSUME NEW u \in Nodes PROVE Moved(u)
  <2>1. CASE u = page
    <3>1. Busy(run[r], u) /\ ~Busy(run'[r], u)
      BY <2>1, <1>1
    <3>2. \A s \in Runs \ {r} : Busy(run'[s], u) <=> Busy(run[s], u)
      BY <1>1
    <3>3. IF node[u].token = r THEN node'[u].token = NoRun ELSE LeasedAlike(node'[u], node[u])
      BY <2>1, <1>2 DEF LeasedAlike
    <3> QED
      BY <3>1, <3>2, <3>3 DEF Moved
  <2>2. CASE u # page
    <3>1. LeasedAlike(node'[u], node[u])
      BY <2>2, <1>2 DEF LeasedAlike
    <3>2. \A s \in Runs : Busy(run'[s], u) => Busy(run[s], u)
      BY <1>1
    <3> QED
      BY <3>1, <3>2 DEF Moved
  <2> QED
    BY <2>1, <2>2
<1> QED
  BY <1>3, <1>4 DEF Stepped

LEMMA RestedRow ==
  ASSUME NEW row \in LeasedRow
  PROVE  [row EXCEPT !.rest = 0] \in LeasedRow /\ [row EXCEPT !.rest = 0].token = row.token
  BY Numbers DEF LeasedRow, Node

LEMMA FinishOkOK ==
  ASSUME FrontierIInv, NEW r \in Runs, FinishOk(r) PROVE Stepped
<1> DEFINE page == run[r].page[1]
           ended == Ended(node[page], "DONE", 0)
           row == [ended EXCEPT !.rest = 0]
<1>1. page \in Nodes
  BY LeaveCrawl DEF FinishOk, Processing
<1>2. ended \in LeasedRow /\ ended.token = NoRun
  <2>1. node[page] \in Node
    BY <1>1 DEF FrontierIInv, LeasedRow
  <2> QED
    BY <2>1, EndedRow, Numbers DEF NodeStates
<1>3. row \in LeasedRow /\ row.token = NoRun
  BY <1>2, RestedRow
<1>4. node' = IF OwnsNode(r, page) THEN [node EXCEPT ![page] = row] ELSE node
  BY DEF FinishOk, FrontierIInv
<1>5. misses' \in [Nodes -> 0 .. MaxTries]
  BY <1>1, Numbers DEF FinishOk, FrontierIInv
<1> HIDE DEF row
<1> QED
  BY <1>3, <1>4, <1>5, GiveBackMoves DEF FinishOk, Processing

LEMMA FinishErrorOK ==
  ASSUME FrontierIInv, NEW r \in Runs, FinishError(r) PROVE Stepped
<1> DEFINE page == run[r].page[1]
           state == IF node[page].attempts >= MaxTries THEN "DEAD" ELSE "ERROR"
           ended == Ended(node[page], state, NodeBackoff)
           row == [ended EXCEPT !.rest = 0]
<1>1. page \in Nodes
  BY LeaveCrawl DEF FinishError, Processing
<1>2. ended \in LeasedRow /\ ended.token = NoRun
  <2>1. node[page] \in Node /\ state \in NodeStates \ {"PROCESSING"}
    BY <1>1 DEF FrontierIInv, LeasedRow, NodeStates
  <2> HIDE DEF state
  <2> QED
    BY <2>1, EndedRow, Numbers
<1>3. row \in LeasedRow /\ row.token = NoRun
  <2> HIDE DEF ended
  <2> QED
    BY <1>2, RestedRow
<1>4. node' = IF OwnsNode(r, page) THEN [node EXCEPT ![page] = row] ELSE node
  BY DEF FinishError, FrontierIInv
<1>5. misses' \in [Nodes -> 0 .. MaxTries]
  BY <1>1, Numbers DEF FinishError, FrontierIInv
<1> HIDE DEF row
<1> QED
  BY <1>3, <1>4, <1>5, GiveBackMoves DEF FinishError, Processing

LEMMA ResumeDeadNodesOK ==
  ASSUME FrontierIInv, ResumeDeadNodes PROVE Stepped
<1>1. ASSUME NEW u \in Nodes
      PROVE  /\ node'[u] \in LeasedRow
             /\ \/ LeasedAlike(node'[u], node[u])
                \/ node[u].lease = 0 /\ node'[u].token = NoRun
  <2>1. node[u] \in LeasedRow
    BY DEF FrontierIInv
  <2>2. CASE node[u].state = "DEAD"
    <3> DEFINE ended == Ended(node[u], "ERROR", 0)
    <3>1. node'[u] = [ended EXCEPT !.attempts = MaxTries - 1]
      BY <2>2 DEF ResumeDeadNodes
    <3>2. ended \in LeasedRow /\ LeasedAlike(ended, node[u])
      BY <2>1, <2>2, NotLeased, Numbers DEF NodeStates
    <3> HIDE DEF ended
    <3>3. node'[u] \in LeasedRow /\ node'[u].token = ended.token
      BY <3>1, <3>2, Numbers DEF LeasedRow, Node
    <3> QED
      BY <2>2, <3>2, <3>3 DEF LeasedAlike
  <2>3. CASE node[u].state # "DEAD"
    BY <2>3, SweptRow DEF ResumeDeadNodes
  <2> QED
    BY <2>2, <2>3
<1>2. node' \in [Nodes -> LeasedRow]
  BY <1>1 DEF ResumeDeadNodes
<1> QED
  BY <1>1, <1>2, SweepMoves DEF ResumeDeadNodes, FrontierIInv

LEMMA FrontierCrashOK ==
  ASSUME FrontierIInv, FrontierCrash PROVE Stepped
<1>1. run' \in [Runs -> OpenRun] /\ \A s \in Runs : run'[s] = IdleRun
  BY IdleCrawl DEF FrontierCrash
<1>2. \A s \in Runs, u \in Nodes : Busy(run'[s], u) => Busy(run[s], u)
  BY <1>1, IdleCrawl
<1> QED
  BY <1>1, <1>2, RowsKept DEF FrontierCrash, FrontierIInv

LEMMA FrontierTickOK ==
  ASSUME FrontierIInv, FrontierTick PROVE Stepped
<1>1. ASSUME NEW u \in Nodes
      PROVE  /\ node'[u] \in LeasedRow /\ node'[u].token = node[u].token
             /\ node'[u].state = node[u].state /\ node'[u].lease = Minus1(node[u].lease)
  <2> DEFINE rest == IF node[u].state = "DONE" /\ node[u].rest < Revisit
                     THEN node[u].rest + 1 ELSE node[u].rest
             new == [node[u] EXCEPT !.lease = Minus1(node[u].lease), !.wait = Minus1(node[u].wait),
                                    !.rest = rest]
  <2>1. node[u] \in LeasedRow /\ node[u] \in Node
    BY DEF FrontierIInv, LeasedRow
  <2>2. node'[u] = new
    BY <2>1 DEF FrontierTick, Node
  <2>3. Minus1(node[u].lease) \in 0 .. NodeLease /\ Minus1(node[u].wait) \in 0 .. NodeBackoff
    BY <2>1, FrontierAssumption DEF Node, Minus1
  <2>4. rest \in 0 .. Revisit
    BY <2>1, FrontierAssumption DEF Node
  <2> HIDE DEF rest
  <2>5. /\ new \in Node /\ new.token = node[u].token /\ new.state = node[u].state
        /\ new.lease = Minus1(node[u].lease)
    BY <2>1, <2>3, <2>4 DEF Node
  <2> HIDE DEF new
  <2> QED
    BY <2>1, <2>2, <2>5 DEF LeasedRow
<1>2. node' \in [Nodes -> LeasedRow] /\ FrontierIInv'
  BY <1>1 DEF FrontierTick, FrontierIInv
<1>3. ASSUME NEW u \in Nodes PROVE Moved(u)
  <2>1. SameVisitors(u) /\ \A s \in Runs : Busy(run'[s], u) => Busy(run[s], u)
    BY DEF SameVisitors, FrontierTick
  <2>2. node[u] \in Node /\ node[u].lease \in Nat
    BY FrontierAssumption DEF FrontierIInv, LeasedRow, Node
  <2>3. CASE node[u].lease > 1
    <3>1. node'[u].lease > 0
      BY <2>2, <2>3, <1>1 DEF Minus1
    <3> QED
      BY <2>1, <2>2, <2>3, <3>1, <1>1 DEF Moved, LeasedAlike
  <2>4. CASE node[u].lease <= 1
    <3>1. node'[u].lease = 0
      BY <2>2, <2>4, <1>1 DEF Minus1
    <3> QED
      BY <2>1, <2>2, <2>4, <3>1, <1>1 DEF Moved, LeasedAlike, NodeLeased
  <2> QED
    BY <2>2, <2>3, <2>4
<1> QED
  BY <1>2, <1>3 DEF Stepped

-----------------------------------------------------------------------------
LEMMA FrontierInitOK ==
  ASSUME FrontierInit PROVE FrontierIInv /\ \A s \in Runs, u \in Nodes : ~Busy(run[s], u)
<1>1. NewNode("ABSENT", 0) \in LeasedRow
  BY NewRow, Numbers
<1> QED
  BY <1>1, IdleCrawl, Numbers DEF FrontierInit, FrontierIInv

LEMMA FrontierNextOK ==
  ASSUME FrontierIInv, [FrontierNext]_frontierVars PROVE Stepped
<1>1. ASSUME NEW r \in Runs, StartRun(r) \/ RunStep(r) PROVE Stepped
  <2>1. CASE StartRun(r) \/ RotateQuery(r) \/ PersistPage(r) \/ ProcessPageRaises(r)
    BY <2>1, PreludeOK
  <2>2. CASE SeedFrontier(r)
    BY <2>2, SeedFrontierOK
  <2>3. CASE RecoverStale(r)
    BY <2>3, RecoverStaleOK
  <2>4. CASE RequeueStaleDone(r)
    BY <2>4, RequeueStaleDoneOK
  <2>5. CASE SearchCatalog(r)
    BY <2>5, SearchCatalogOK
  <2>6. CASE ClaimNodes(r)
    BY <2>6, ClaimNodesOK
  <2>7. CASE EndRun(r) \/ FinishRaises(r)
    BY <2>7, EndRunOK
  <2>8. CASE ShowPage(r)
    BY <2>8, ShowPageOK
  <2>9. CASE FetchPageFails(r)
    BY <2>9, FetchPageFailsOK
  <2>10. CASE EnqueueLinks(r)
    BY <2>10, EnqueueLinksOK
  <2>11. CASE FinishOk(r)
    BY <2>11, FinishOkOK
  <2>12. CASE FinishError(r)
    BY <2>12, FinishErrorOK
  <2> QED
    BY <1>1, <2>1, <2>2, <2>3, <2>4, <2>5, <2>6, <2>7, <2>8, <2>9, <2>10, <2>11, <2>12 DEF RunStep
<1>2. CASE ResumeDeadNodes
  BY <1>2, ResumeDeadNodesOK
<1>3. CASE FrontierCrash
  BY <1>3, FrontierCrashOK
<1>4. CASE FrontierTick
  BY <1>4, FrontierTickOK
<1>5. CASE UNCHANGED frontierVars
  <2>1. node' = node /\ run' = run /\ offset' = offset /\ misses' = misses
    BY <1>5 DEF frontierVars
  <2> QED
    BY <2>1, RowsKept DEF FrontierIInv
<1> QED
  BY <1>1, <1>2, <1>3, <1>4, <1>5 DEF FrontierNext

(* In every state the rows and the runs have their types, and a page of the frontier *)
(* carries a token exactly while it is PROCESSING: what lets _deloox_queue_finish     *)
(* test the token alone (catalog_engine.py:2224). For any pages, links, runs, batch   *)
(* size, depth, lease and number of attempts.                                         *)
THEOREM FrontierInvariant == FrontierSpec => []FrontierInv
<1>1. FrontierInit => FrontierIInv
  BY FrontierInitOK
<1>2. FrontierIInv /\ [FrontierNext]_frontierVars => FrontierIInv'
  BY FrontierNextOK DEF Stepped
<1>3. FrontierIInv => FrontierInv
  BY FrontierIInvImplies
<1> QED
  BY <1>1, <1>2, <1>3, PTL DEF FrontierSpec

-----------------------------------------------------------------------------
(* The refinement of PageLease, page by page. *)
Token(u) == IF node[u].state = "PROCESSING" THEN node[u].token ELSE NoRun

LEMMA Mapped ==
  ASSUME FrontierIInv, NEW u \in Nodes
  PROVE  /\ Token(u) = node[u].token
         /\ Visiting(u) \subseteq Runs /\ \A s \in Runs : s \in Visiting(u) <=> Busy(run[s], u)
         /\ NodeLeased(u) <=> node[u].token # NoRun /\ node[u].lease > 0
  BY DEF FrontierIInv, LeasedRow, Token, Visiting, Busy, NodeLeased

\* What a step may do to a page, over the state that PageLease sees.
Leasing(u) ==
  \/ Visiting(u)' \subseteq Visiting(u) /\ Token(u)' = Token(u) /\ NodeLeased(u)' = NodeLeased(u)
  \/ NodeLeased(u) /\ ~NodeLeased(u)' /\ Token(u)' = Token(u) /\ Visiting(u)' = Visiting(u)
  \/ ~NodeLeased(u) /\ ~NodeLeased(u)' /\ Token(u)' = NoRun /\ Visiting(u)' = Visiting(u)
  \/ \E r \in Runs :
       \/ /\ ~NodeLeased(u) /\ r \notin Visiting(u)
          /\ Token(u)' = r /\ NodeLeased(u)' /\ Visiting(u)' = Visiting(u) \cup {r}
       \/ /\ r \in Visiting(u) /\ Visiting(u)' = Visiting(u) \ {r}
          /\ IF Token(u) = r THEN Token(u)' = NoRun /\ ~NodeLeased(u)'
             ELSE Token(u)' = Token(u) /\ NodeLeased(u)' = NodeLeased(u)

LEMMA AlikeLease ==
  ASSUME FrontierIInv, FrontierIInv', NEW u \in Nodes, LeasedAlike(node'[u], node[u])
  PROVE  Token(u)' = Token(u) /\ NodeLeased(u)' = NodeLeased(u)
  BY DEF FrontierIInv, LeasedRow, LeasedAlike, Token, NodeLeased

LEMMA MovedIsLeasing ==
  ASSUME FrontierIInv, FrontierIInv', NEW u \in Nodes, Moved(u) PROVE Leasing(u)
<1>1. /\ Token(u) = node[u].token
      /\ Visiting(u) \subseteq Runs /\ \A s \in Runs : s \in Visiting(u) <=> Busy(run[s], u)
      /\ NodeLeased(u) <=> node[u].token # NoRun /\ node[u].lease > 0
  BY Mapped
<1>2. /\ Token(u)' = node'[u].token
      /\ Visiting(u)' \subseteq Runs /\ \A s \in Runs : s \in Visiting(u)' <=> Busy(run'[s], u)
      /\ NodeLeased(u)' <=> node'[u].token # NoRun /\ node'[u].lease > 0
  BY DEF FrontierIInv, LeasedRow, Token, Visiting, Busy, NodeLeased
<1>3. CASE LeasedAlike(node'[u], node[u]) /\ \A s \in Runs : Busy(run'[s], u) => Busy(run[s], u)
  <2>1. Visiting(u)' \subseteq Visiting(u)
    BY <1>1, <1>2, <1>3
  <2> QED
    BY <1>3, <2>1, AlikeLease DEF Leasing
<1>4. CASE node[u].lease = 0 /\ node'[u].token = NoRun /\ SameVisitors(u)
  <2>1. Visiting(u)' = Visiting(u)
    BY <1>1, <1>2, <1>4 DEF SameVisitors
  <2> QED
    BY <1>1, <1>2, <1>4, <2>1 DEF Leasing
<1>5. CASE NodeLeased(u) /\ ~NodeLeased(u)' /\ node'[u].token = node[u].token /\ SameVisitors(u)
  <2>1. Visiting(u)' = Visiting(u)
    BY <1>1, <1>2, <1>5 DEF SameVisitors
  <2> QED
    BY <1>1, <1>2, <1>5, <2>1 DEF Leasing
<1>6. ASSUME NEW r \in Runs, \A s \in Runs \ {r} : Busy(run'[s], u) <=> Busy(run[s], u),
             node[u].token = NoRun, node'[u].token = r, node'[u].lease > 0,
             ~Busy(run[r], u), Busy(run'[r], u)
      PROVE  Leasing(u)
  <2>1. Visiting(u)' = Visiting(u) \cup {r} /\ r \notin Visiting(u)
    BY <1>1, <1>2, <1>6
  <2>2. r # NoRun
    BY FrontierAssumption
  <2> QED
    BY <1>1, <1>2, <1>6, <2>1, <2>2 DEF Leasing
<1>7. ASSUME NEW r \in Runs, \A s \in Runs \ {r} : Busy(run'[s], u) <=> Busy(run[s], u),
             Busy(run[r], u), ~Busy(run'[r], u),
             IF node[u].token = r THEN node'[u].token = NoRun ELSE LeasedAlike(node'[u], node[u])
      PROVE  Leasing(u)
  <2>1. Visiting(u)' = Visiting(u) \ {r} /\ r \in Visiting(u)
    BY <1>1, <1>2, <1>7
  <2>2. CASE node[u].token = r
    BY <1>1, <1>2, <1>7, <2>1, <2>2 DEF Leasing
  <2>3. CASE node[u].token # r
    BY <1>1, <1>2, <1>7, <2>1, <2>3, AlikeLease DEF Leasing
  <2> QED
    BY <2>2, <2>3
<1> QED
  BY <1>3, <1>4, <1>5, <1>6, <1>7 DEF Moved

(* The frontier implements PageLease: a page with a live lease is given to no other   *)
(* run and ended by its own alone, and a run that comes late -- after a sweep, a       *)
(* restart or a second claim -- changes nothing of it (catalog_engine.py:2124-2230).   *)
THEOREM FrontierImplementsLease == FrontierSpec => FrontierIsLeased
<1> DEFINE holderBar == [u \in Nodes |-> IF node[u].state = "PROCESSING" THEN node[u].token
                                         ELSE NoRun]
           liveBar == [u \in Nodes |-> NodeLeased(u)]
           workingBar == [u \in Nodes |-> Visiting(u)]
<1>1. FrontierInit => FrontierIInv /\ Leases!LeaseInit
  <2> SUFFICES ASSUME FrontierInit PROVE FrontierIInv /\ Leases!LeaseInit
    OBVIOUS
  <2>1. FrontierIInv /\ \A u \in Nodes : Visiting(u) = {} /\ ~NodeLeased(u) /\ Token(u) = NoRun
    BY FrontierInitOK, Mapped DEF FrontierInit, NewNode
  <2>2. holderBar = [u \in Nodes |-> NoRun]
    BY <2>1 DEF Token
  <2>3. liveBar = [u \in Nodes |-> FALSE]
    <3>1. \A u \in Nodes : NodeLeased(u) = FALSE
      BY <2>1 DEF NodeLeased
    <3> QED
      BY <3>1, Zenon
  <2>4. workingBar = [u \in Nodes |-> {}]
    BY <2>1, Zenon
  <2> QED
    BY <2>1, <2>2, <2>3, <2>4 DEF Leases!LeaseInit
<1>2. FrontierIInv /\ [FrontierNext]_frontierVars
        => FrontierIInv' /\ [Leases!LeaseNext]_(Leases!leaseVars)
  <2> SUFFICES ASSUME FrontierIInv, [FrontierNext]_frontierVars
               PROVE  FrontierIInv' /\ Leases!LeaseNext
    OBVIOUS
  <2>1. FrontierIInv' /\ \A u \in Nodes : Moved(u)
    BY FrontierNextOK DEF Stepped
  <2>2. ASSUME NEW u \in Nodes
        PROVE  \/ Leases!Keep(u) \/ Leases!RunOut(u) \/ Leases!Sweep(u)
               \/ \E r \in Runs : Leases!Take(u, r) \/ Leases!GiveBack(u, r)
    <3>1. Leasing(u)
      BY <2>1, MovedIsLeasing
    <3>2. /\ holderBar[u] = Token(u) /\ holderBar'[u] = Token(u)'
          /\ liveBar[u] = NodeLeased(u) /\ liveBar'[u] = NodeLeased(u)'
          /\ workingBar[u] = Visiting(u) /\ workingBar'[u] = Visiting(u)'
      BY DEF Token
    <3> QED
      BY <3>1, <3>2 DEF Leasing, Leases!Keep, Leases!RunOut, Leases!Sweep, Leases!Take, Leases!GiveBack
  <2> QED
    BY <2>1, <2>2 DEF Leases!LeaseNext
<1> QED
  BY <1>1, <1>2, PTL DEF FrontierSpec, FrontierIsLeased, Leases!LeaseSpec

-----------------------------------------------------------------------------
(* A page that is known is never forgotten nor moved away from the seeds. *)
Nearer(new, old) == old.state # "ABSENT" => new.state # "ABSENT" /\ new.depth <= old.depth

LEMMA SameIsNearer == ASSUME NEW row \in LeasedRow PROVE Nearer(row, row)
  BY FrontierAssumption DEF Nearer, LeasedRow, Node

LEMMA EndedNearer ==
  ASSUME NEW row \in LeasedRow, NEW state \in NodeStates \ {"ABSENT"}, NEW wait
  PROVE  Nearer(Ended(row, state, wait), row)
  BY FrontierAssumption DEF Nearer, Ended, LeasedRow, Node

LEMMA EnqueuedNearer ==
  ASSUME NEW row \in LeasedRow, NEW depth \in 0 .. MaxDepth, NEW seed \in BOOLEAN
  PROVE  /\ Nearer(Enqueued(row, depth, seed), row)
         /\ Enqueued(row, depth, seed).state # "ABSENT" /\ Enqueued(row, depth, seed).depth <= depth
<1> DEFINE closer == [row EXCEPT !.depth = Least(row.depth, depth)]
<1>1. row \in Node /\ row.depth \in Int /\ depth \in Int
  BY FrontierAssumption DEF LeasedRow, Node
<1>2. Least(row.depth, depth) <= row.depth /\ Least(row.depth, depth) <= depth
  BY <1>1 DEF Least
<1>3. closer.state = row.state /\ closer.depth = Least(row.depth, depth)
  BY <1>1 DEF Node
<1>4. CASE row.state = "ABSENT"
  <2>1. Enqueued(row, depth, seed) = NewNode("PENDING", depth)
    BY <1>4 DEF Enqueued
  <2> QED
    BY <1>1, <1>4, <2>1 DEF NewNode, Nearer
<1>5. CASE row.state # "ABSENT" /\ seed /\ row.state \in {"DONE", "DEAD"}
  <2>1. Enqueued(row, depth, seed) = Ended(closer, "PENDING", 0)
    BY <1>5 DEF Enqueued
  <2>2. /\ Ended(closer, "PENDING", 0).state = "PENDING"
        /\ Ended(closer, "PENDING", 0).depth = Least(row.depth, depth)
    BY <1>1, <1>3 DEF Ended, Node
  <2> QED
    BY <1>2, <2>1, <2>2 DEF Nearer
<1>6. CASE row.state # "ABSENT" /\ ~(seed /\ row.state \in {"DONE", "DEAD"})
  <2>1. Enqueued(row, depth, seed) = closer
    BY <1>6 DEF Enqueued
  <2> HIDE DEF closer
  <2> QED
    BY <1>2, <1>3, <1>6, <2>1 DEF Nearer
<1> QED
  BY <1>4, <1>5, <1>6

LEMMA SweptNearer ==
  ASSUME FrontierIInv, NEW u \in Nodes PROVE Nearer(SweptNodes[u], node[u])
<1>1. node[u] \in LeasedRow
  BY DEF FrontierIInv
<1>2. Nearer(Ended(node[u], "PENDING", 0), node[u]) /\ Nearer(node[u], node[u])
  BY <1>1, EndedNearer, SameIsNearer DEF NodeStates
<1> QED
  BY <1>2 DEF SweptNodes

LEMMA StepNearer ==
  ASSUME FrontierIInv, [FrontierNext]_frontierVars, NEW u \in Nodes
  PROVE  Nearer(node'[u], node[u])
<1>1. node[u] \in LeasedRow /\ Nearer(node[u], node[u])
  BY SameIsNearer DEF FrontierIInv
<1>2. CASE node' = node
  BY <1>1, <1>2
<1>3. ASSUME NEW r \in Runs, RunStep(r), node' # node PROVE Nearer(node'[u], node[u])
  <2>1. CASE SeedFrontier(r)
    <3>1. node'[u] = IF u \in Seeds THEN Enqueued(node[u], 0, TRUE) ELSE node[u]
      BY <2>1 DEF SeedFrontier
    <3>2. Nearer(Enqueued(node[u], 0, TRUE), node[u])
      BY <1>1, EnqueuedNearer, Numbers
    <3> QED
      BY <1>1, <3>1, <3>2
  <2>2. CASE RecoverStale(r)
    BY <2>2, SweptNearer DEF RecoverStale
  <2>3. CASE RequeueStaleDone(r)
    <3>1. node'[u] = node[u] \/ node'[u] = Ended(node[u], "PENDING", 0)
      BY <2>3 DEF RequeueStaleDone
    <3>2. Nearer(Ended(node[u], "PENDING", 0), node[u])
      BY <1>1, EndedNearer DEF NodeStates
    <3> QED
      BY <1>1, <3>1, <3>2
  <2>4. CASE ClaimNodes(r)
    <3>1. node'[u] = node[u] \/ node'[u] = ClaimedBy(node[u], r)
      BY <2>4 DEF ClaimNodes, ClaimedBy
    <3>2. Nearer(ClaimedBy(node[u], r), node[u])
      BY <1>1, FrontierAssumption DEF Nearer, ClaimedBy, LeasedRow, Node
    <3> QED
      BY <1>1, <3>1, <3>2
  <2>5. CASE EnqueueLinks(r)
    <3>1. CASE u \in Admitted(r)
      <4>1. node'[u] = Enqueued(node[u], LinkDepth(run[r].page, u), FALSE)
        BY <2>5, <3>1 DEF EnqueueLinks
      <4>2. run[r].page \in Visits
        BY <2>5, CrawlFacts DEF EnqueueLinks, CrawlRun, Processing
      <4>3. LinkDepth(run[r].page, u) \in 0 .. MaxDepth
        BY <3>1, <4>2, FrontierAssumption DEF Admitted, LinkDepth, Visits
      <4> QED
        BY <1>1, <4>1, <4>3, EnqueuedNearer
    <3>2. CASE u \notin Admitted(r)
      BY <1>1, <2>5, <3>2 DEF EnqueueLinks
    <3> QED
      BY <3>1, <3>2
  <2>6. CASE FinishOk(r)
    <3> DEFINE ended == Ended(node[u], "DONE", 0)
    <3>1. node'[u] = node[u] \/ node'[u] = [ended EXCEPT !.rest = 0]
      BY <2>6 DEF FinishOk, FrontierIInv
    <3>2. Nearer([ended EXCEPT !.rest = 0], node[u])
      BY <1>1, FrontierAssumption DEF Nearer, Ended, LeasedRow, Node
    <3> HIDE DEF ended
    <3> QED
      BY <1>1, <3>1, <3>2
  <2>7. CASE FinishError(r)
    <3> DEFINE state == IF node[u].attempts >= MaxTries THEN "DEAD" ELSE "ERROR"
               ended == Ended(node[u], state, NodeBackoff)
    <3>1. node'[u] = node[u] \/ node'[u] = [ended EXCEPT !.rest = 0]
      BY <2>7 DEF FinishError, FrontierIInv
    <3>2. state # "ABSENT"
      OBVIOUS
    <3> HIDE DEF state
    <3>3. Nearer([ended EXCEPT !.rest = 0], node[u])
      BY <1>1, <3>2, FrontierAssumption DEF Nearer, Ended, LeasedRow, Node
    <3> HIDE DEF ended
    <3> QED
      BY <1>1, <3>1, <3>3
  <2> QED
    BY <1>3, <2>1, <2>2, <2>3, <2>4, <2>5, <2>6, <2>7
    DEF RunStep, RotateQuery, SearchCatalog, EndRun, ShowPage, FetchPageFails, PersistPage,
        ProcessPageRaises, FinishRaises
<1>4. CASE ResumeDeadNodes
  <2>1. CASE node[u].state = "DEAD"
    <3> DEFINE ended == Ended(node[u], "ERROR", 0)
    <3>1. node'[u] = [ended EXCEPT !.attempts = MaxTries - 1]
      BY <1>4, <2>1 DEF ResumeDeadNodes
    <3>2. Nearer([ended EXCEPT !.attempts = MaxTries - 1], node[u])
      BY <1>1, FrontierAssumption DEF Nearer, Ended, LeasedRow, Node
    <3> HIDE DEF ended
    <3> QED
      BY <3>1, <3>2
  <2>2. CASE node[u].state # "DEAD"
    BY <1>4, <2>2, SweptNearer DEF ResumeDeadNodes
  <2> QED
    BY <2>1, <2>2
<1>5. CASE FrontierTick
  <2>1. node'[u].state = node[u].state /\ node'[u].depth = node[u].depth
    BY <1>1, <1>5 DEF FrontierTick, LeasedRow, Node
  <2> QED
    BY <1>1, <2>1 DEF Nearer
<1> QED
  BY <1>2, <1>3, <1>4, <1>5 DEF FrontierNext, StartRun, FrontierCrash, frontierVars

(* A page that its run has queued the links of is expanded: what it will be DONE for. *)
Expanded(r) ==
  \A v \in Admitted(r) : node[v].state # "ABSENT" /\ node[v].depth <= LinkDepth(run[r].page, v)

ExpandedIInv == FrontierIInv /\ \A r \in Runs : run[r].at \in {"queued", "persisted"} => Expanded(r)

\* A run whose page and links are as they were keeps what is in the frontier of them.
LEMMA ExpandedKept ==
  ASSUME FrontierIInv, FrontierIInv', NEW r \in Runs, Expanded(r),
         run'[r].page = run[r].page, run'[r].shown = run[r].shown, run[r].at \in Processing,
         \A u \in Nodes : Nearer(node'[u], node[u])
  PROVE  Expanded(r)'
<1>1. Admitted(r)' = Admitted(r) /\ Admitted(r) \subseteq Nodes
  BY CrawlFacts DEF Admitted, LinkDepth, CrawlRun
<1>2. ASSUME NEW v \in Admitted(r)
      PROVE  node'[v].state # "ABSENT" /\ node'[v].depth <= LinkDepth(run[r].page, v)
  <2>1. node[v].state # "ABSENT" /\ node[v].depth <= LinkDepth(run[r].page, v)
    BY DEF Expanded
  <2>2. node'[v].state # "ABSENT" /\ node'[v].depth <= node[v].depth
    BY <1>1, <2>1 DEF Nearer
  <2>3. run[r].page \in Visits
    BY CrawlFacts DEF CrawlRun
  <2>4. LinkDepth(run[r].page, v) \in Int /\ node[v].depth \in Int /\ node'[v].depth \in Int
    BY <1>1, <2>3, FrontierAssumption DEF LinkDepth, Visits, FrontierIInv, LeasedRow, Node
  <2> QED
    BY <2>1, <2>2, <2>4
<1> QED
  BY <1>1, <1>2 DEF Expanded, LinkDepth

\* A run comes to have its links queued, or its products persisted, in one way each.
LEMMA StageMoves ==
  ASSUME FrontierIInv, [FrontierNext]_frontierVars, NEW r \in Runs,
         run'[r].at \in {"queued", "persisted"}
  PROVE  run'[r] = run[r] \/ EnqueueLinks(r) \/ PersistPage(r)
<1>1. CASE run' = run
  BY <1>1
<1>2. CASE FrontierCrash
  <2>1. run'[r].at = "idle"
    BY <1>2 DEF FrontierCrash, IdleRun
  <2> QED
    BY <2>1
<1>3. ASSUME NEW s \in Runs, StartRun(s) \/ RunStep(s)
      PROVE  /\ r # s => run'[r] = run[r]
             /\ \/ run'[s].at \notin {"queued", "persisted"}
                \/ EnqueueLinks(s) \/ PersistPage(s)
  <2>1. CASE StartRun(s) \/ SeedFrontier(s) \/ RecoverStale(s) \/ RotateQuery(s) \/ ProcessPageRaises(s)
    <3>1. PICK stage \in {"seeding", "recovering", "revisiting", "searching", "failed"} : Goto(s, stage)
      BY <2>1 DEF StartRun, SeedFrontier, RecoverStale, RotateQuery, ProcessPageRaises
    <3>2. run'[s].at = stage /\ (r # s => run'[r] = run[r])
      BY <3>1, CrawlFacts DEF Goto, FrontierIInv, CrawlRun
    <3> QED
      BY <3>2
  <2>2. CASE EnqueueLinks(s) \/ PersistPage(s)
    BY <2>2 DEF EnqueueLinks, PersistPage, Goto, FrontierIInv
  <2>3. CASE RequeueStaleDone(s) \/ SearchCatalog(s)
    BY <2>3, CrawlFacts DEF RequeueStaleDone, SearchCatalog, FrontierIInv, CrawlRun
  <2>4. CASE ClaimNodes(s)
    <3>1. PICK batch : run' = [run EXCEPT ![s].batch = batch]
      BY <2>4 DEF ClaimNodes
    <3> QED
      BY <2>4, <3>1, CrawlFacts DEF ClaimNodes, FrontierIInv, CrawlRun
  <2>5. CASE EndRun(s) \/ FinishRaises(s)
    BY <2>5 DEF EndRun, FinishRaises, FrontierIInv, IdleRun
  <2>6. CASE ShowPage(s) \/ FetchPageFails(s)
    <3>1. CASE ShowPage(s)
      <4>1. PICK visit : \E shown :
              run' = [run EXCEPT ![s].at = "fetched", ![s].page = visit,
                                 ![s].batch = @ \ {visit}, ![s].shown = shown]
        BY <3>1 DEF ShowPage
      <4> QED
        BY <4>1, CrawlFacts DEF FrontierIInv, CrawlRun
    <3>2. CASE FetchPageFails(s)
      <4>1. PICK visit :
              run' = [run EXCEPT ![s].at = "failed", ![s].page = visit, ![s].batch = @ \ {visit}]
        BY <3>2 DEF FetchPageFails
      <4> QED
        BY <4>1, CrawlFacts DEF FrontierIInv, CrawlRun
    <3> QED
      BY <2>6, <3>1, <3>2
  <2>7. CASE FinishOk(s) \/ FinishError(s)
    <3>1. Leave(s)
      BY <2>7 DEF FinishOk, FinishError
    <3> QED
      BY <3>1, CrawlFacts DEF Leave, FrontierIInv, CrawlRun
  <2> QED
    BY <1>3, <2>1, <2>2, <2>3, <2>4, <2>5, <2>6, <2>7 DEF RunStep
<1>4. CASE \E s \in Runs : StartRun(s) \/ RunStep(s)
  BY <1>3, <1>4
<1> QED
  BY <1>1, <1>2, <1>4 DEF FrontierNext, ResumeDeadNodes, FrontierTick, frontierVars

LEMMA ExpandedNextOK ==
  ASSUME ExpandedIInv, [FrontierNext]_frontierVars PROVE ExpandedIInv'
<1>1. FrontierIInv /\ FrontierIInv'
  BY FrontierNextOK DEF ExpandedIInv, Stepped
<1>2. \A u \in Nodes : Nearer(node'[u], node[u])
  BY <1>1, StepNearer
<1>3. ASSUME NEW r \in Runs, run'[r].at \in {"queued", "persisted"} PROVE Expanded(r)'
  <2>1. CASE run[r].at \in {"queued", "persisted"}
    <3>1. run'[r] = run[r] \/ PersistPage(r)
      BY <1>1, <1>3, <2>1, StageMoves DEF EnqueueLinks
    <3>2. run'[r].page = run[r].page /\ run'[r].shown = run[r].shown
      BY <1>1, <3>1 DEF PersistPage, Goto, FrontierIInv, OpenRun, CrawlRun
    <3> QED
      BY <1>1, <1>2, <2>1, <3>2, ExpandedKept DEF ExpandedIInv, Processing
  <2>2. CASE run[r].at \notin {"queued", "persisted"}
    <3>1. EnqueueLinks(r)
      BY <1>1, <1>3, <2>2, StageMoves DEF PersistPage
    <3>2. run'[r].page = run[r].page /\ run'[r].shown = run[r].shown
      BY <1>1, <3>1 DEF EnqueueLinks, Goto, FrontierIInv, OpenRun, CrawlRun
    <3>3. Admitted(r)' = Admitted(r) /\ Admitted(r) \subseteq Nodes
      BY <1>1, <3>2, CrawlFacts DEF Admitted, LinkDepth, CrawlRun
    <3>4. ASSUME NEW v \in Admitted(r)
          PROVE  node'[v].state # "ABSENT" /\ node'[v].depth <= LinkDepth(run[r].page, v)
      <4>1. node'[v] = Enqueued(node[v], LinkDepth(run[r].page, v), FALSE) /\ node[v] \in LeasedRow
        BY <1>1, <3>1, <3>3 DEF EnqueueLinks, FrontierIInv
      <4>2. run[r].page \in Visits
        BY <1>1, <3>1, CrawlFacts DEF EnqueueLinks, CrawlRun, Processing
      <4>3. LinkDepth(run[r].page, v) \in 0 .. MaxDepth
        BY <4>2, FrontierAssumption DEF Admitted, LinkDepth, Visits
      <4> QED
        BY <4>1, <4>3, EnqueuedNearer
    <3> QED
      BY <3>2, <3>3, <3>4 DEF Expanded, LinkDepth
  <2> QED
    BY <2>1, <2>2
<1> QED
  BY <1>1, <1>3 DEF ExpandedIInv

(* A page is done with only when every link its run kept of it is in the frontier, at *)
(* the depth it was seen or less, whatever other runs, sweeps, crashes and revisits    *)
(* did in between (catalog_engine.py:2711-2795).                                      *)
THEOREM DoneWasExpanded == FrontierSpec => ExpandedBeforeDone
<1>1. FrontierInit => ExpandedIInv
  <2> SUFFICES ASSUME FrontierInit PROVE ExpandedIInv
    OBVIOUS
  <2>1. \A r \in Runs : run[r].at = "idle"
    BY DEF FrontierInit, IdleRun
  <2> QED
    BY <2>1, FrontierInitOK DEF ExpandedIInv
<1>2. ExpandedIInv /\ [FrontierNext]_frontierVars => ExpandedIInv'
  BY ExpandedNextOK
<1>3. ExpandedIInv => [ExpandedStep]_frontierVars
  BY DEF ExpandedIInv, Expanded, ExpandedStep
<1> QED
  BY <1>1, <1>2, <1>3, PTL DEF FrontierSpec, ExpandedBeforeDone

-----------------------------------------------------------------------------------
(* Runs of discover_store. That what a run has persisted stays in the catalogue       *)
(* rests on what a store's catalogue is for: no run of the store retires a product   *)
(* of its own market, neither by sorting out urls nor by cleaning up. A run has found *)
(* nothing when it enters the graph, so that there it has persisted all it found.    *)
CallerRow == [at : RunPhases, store : Stores, found : SUBSET Urls, left : SUBSET Urls,
              access : {"ok", "denied"}, age : 0 .. RunStale]

(* What holds of a run, given the active urls of its store. *)
RunOK(c, urls) ==
  /\ c \in CallerRow
  /\ c.at \in {"started", "crawling"} => c.found = {}
  /\ c.at = "graph" => c.found \cap OwnProducts(c.store) \subseteq urls
  /\ c.at \in {"saving", "reporting"} =>
       /\ c.found \subseteq OwnMarket(c.store)
       /\ (c.found \ c.left) \cap OwnProducts(c.store) \subseteq urls

RunsIInv ==
  /\ sync \in [Stores -> Row]
  /\ active \in [Stores -> SUBSET Urls]
  /\ stale \subseteq Stores \X (Callers \cup {NoCaller})
  /\ caller \in [Callers -> CallerRow]
  /\ \A a \in Callers : RunOK(caller[a], active[caller[a].store])

\* The inductive invariant implies the one the runs check.
LEMMA RunsIInvImplies == RunsIInv => RunsInv
<1> SUFFICES ASSUME RunsIInv PROVE RunsInv
  OBVIOUS
<1>1. RunsType
  BY DEF RunsIInv, RunsType, CallerRow
<1>2. ASSUME NEW a \in Callers
      PROVE  /\ Persisted(a) \cap OwnProducts(caller[a].store) \subseteq active[caller[a].store]
             /\ caller[a].at \in {"saving", "reporting"} => caller[a].found \subseteq OwnMarket(caller[a].store)
  <2>1. RunOK(caller[a], active[caller[a].store])
    BY DEF RunsIInv
  <2> QED
    BY <2>1 DEF RunOK, Persisted
<1> QED
  BY <1>1, <1>2 DEF RunsInv, PersistedStays

LEMMA OwnUrls == \A s : OwnMarket(s) \subseteq Urls /\ OwnProducts(s) \subseteq OwnMarket(s)
  BY DEF OwnMarket, OwnProducts

LEMMA StaleAge == RunStale \in Nat /\ 0 \in 0 .. RunStale
  BY RunsAssumption

\* A run at rest satisfies whatever is asked of a run.
LEMMA IdleOK == \A s \in Stores : \A urls : Idle(s) \in CallerRow /\ RunOK(Idle(s), urls)
  BY StaleAge DEF Idle, CallerRow, RunOK, RunPhases

LEMMA RunsInitOK == RunsInit => RunsIInv
<1> SUFFICES ASSUME RunsInit PROVE RunsIInv
  OBVIOUS
<1>1. sync \in [Stores -> Row]
  BY StaleAge DEF RunsInit, Row, Status, Final
<1>2. active \in [Stores -> SUBSET Urls]
  BY RunsAssumption DEF RunsInit, ForeignTo, ListingsOf
<1>3. PICK s \in Stores : caller = [a \in Callers |-> Idle(s)]
  BY DEF RunsInit
<1>4. caller \in [Callers -> CallerRow] /\ \A a \in Callers : RunOK(caller[a], active[caller[a].store])
  BY <1>3, IdleOK
<1> QED
  BY <1>1, <1>2, <1>4 DEF RunsIInv, RunsInit

\* A state of sync_state that a run writes is a row.
LEMMA SetRow ==
  ASSUME RunsIInv, NEW a \in Callers, NEW status \in Status, SetSyncState(a, status)
  PROVE  sync' \in [Stores -> Row]
<1>1. caller[a] \in CallerRow
  BY DEF RunsIInv
<1>2. [status |-> status, by |-> a, age |-> caller[a].age] \in Row
  BY <1>1 DEF CallerRow, Row
<1> QED
  BY <1>2 DEF SetSyncState, RunsIInv

\* One run moves on; of a store's own products none is retired.
LEMMA OneRun ==
  ASSUME RunsIInv, NEW a \in Callers, NEW c,
         caller' = [caller EXCEPT ![a] = c],
         active' \in [Stores -> SUBSET Urls],
         \A s \in Stores : active[s] \cap OwnProducts(s) \subseteq active'[s],
         sync' \in [Stores -> Row], stale' = stale,
         c \in CallerRow, RunOK(c, active'[c.store])
  PROVE  RunsIInv'
<1>1. caller' \in [Callers -> CallerRow]
  BY DEF RunsIInv
<1>2. ASSUME NEW b \in Callers PROVE RunOK(caller'[b], active'[caller'[b].store])
  <2>1. CASE b = a
    BY <2>1 DEF RunsIInv
  <2>2. CASE b # a
    <3>1. caller'[b] = caller[b] /\ caller[b] \in CallerRow /\ caller[b].store \in Stores
      BY <2>2 DEF RunsIInv, CallerRow
    <3>2. RunOK(caller[b], active[caller[b].store])
      BY DEF RunsIInv
    <3> QED
      BY <3>1, <3>2 DEF RunOK
  <2> QED
    BY <2>1, <2>2
<1> QED
  BY <1>1, <1>2 DEF RunsIInv

\* A run goes to a phase of which nothing is asked.
LEMMA Moves ==
  ASSUME RunsIInv, NEW a \in Callers, NEW phase \in {"idle", "annotating", "raised"},
         Enter(a, phase), active' = active, sync' \in [Stores -> Row], stale' = stale
  PROVE  RunsIInv'
<1> DEFINE c == [caller[a] EXCEPT !.at = phase]
<1>1. caller[a] \in CallerRow
  BY DEF RunsIInv
<1>2. c \in CallerRow /\ c.at = phase
  BY <1>1 DEF CallerRow, RunPhases
<1>3. RunOK(c, active'[c.store])
  BY <1>2 DEF RunOK
<1>4. caller' = [caller EXCEPT ![a] = c]
  BY DEF Enter, RunsIInv
<1>5. active' \in [Stores -> SUBSET Urls] /\ \A s \in Stores : active[s] \cap OwnProducts(s) \subseteq active'[s]
  BY DEF RunsIInv
<1> HIDE DEF c
<1> QED
  BY <1>2, <1>3, <1>4, <1>5, OneRun

\* A run ends.
LEMMA Ends ==
  ASSUME RunsIInv, NEW a \in Callers, caller' = [caller EXCEPT ![a] = Idle(caller[a].store)],
         active' = active, sync' \in [Stores -> Row], stale' = stale
  PROVE  RunsIInv'
<1> DEFINE c == Idle(caller[a].store)
<1>1. caller[a].store \in Stores
  BY DEF RunsIInv, CallerRow
<1>2. c \in CallerRow /\ RunOK(c, active'[c.store])
  BY <1>1, IdleOK
<1>3. active' \in [Stores -> SUBSET Urls] /\ \A s \in Stores : active[s] \cap OwnProducts(s) \subseteq active'[s]
  BY DEF RunsIInv
<1> HIDE DEF c
<1>4. caller' = [caller EXCEPT ![a] = c]
  BY DEF c
<1> QED
  BY <1>2, <1>3, <1>4, OneRun

LEMMA BeginOK == ASSUME RunsIInv, NEW a \in Callers, NEW s \in Stores, Begin(a, s) PROVE RunsIInv'
<1> DEFINE c == [Idle(s) EXCEPT !.at = "started"]
<1>0. c \in CallerRow /\ c.at = "started" /\ c.found = {}
  BY StaleAge DEF Idle, CallerRow, RunPhases
<1>1. c \in CallerRow /\ RunOK(c, active'[c.store])
  BY <1>0 DEF RunOK
<1>2. /\ active' \in [Stores -> SUBSET Urls] /\ sync' \in [Stores -> Row] /\ stale' = stale
      /\ \A t \in Stores : active[t] \cap OwnProducts(t) \subseteq active'[t]
  BY DEF RunsIInv, Begin
<1>3. caller' = [caller EXCEPT ![a] = c]
  BY DEF Begin
<1> HIDE DEF c
<1> QED
  BY <1>1, <1>2, <1>3, OneRun

\* A run that writes a state and moves on, or only moves on.
LEMMA SimpleStepsOK ==
  ASSUME RunsIInv, NEW a \in Callers,
         \/ FeedImported(a) \/ AccessFailed(a) \/ Reject(a) \/ SaveFails(a)
         \/ SaveDone(a) \/ Raises(a) \/ Annotate(a) \/ ReportError(a) \/ GiveUp(a)
  PROVE  RunsIInv'
<1>1. sync \in [Stores -> Row]
  BY DEF RunsIInv
<1>2. CASE FeedImported(a)
  BY <1>2, SetRow, Moves DEF FeedImported, Status, Final, RunPhases
<1>4. CASE AccessFailed(a)
  BY <1>4, SetRow, Moves DEF AccessFailed, Status, Final, RunPhases
<1>5. CASE Reject(a)
  <2>1. PICK status \in Status : SetSyncState(a, status)
    BY <1>5 DEF Reject, Status, Final
  <2> QED
    BY <1>5, <2>1, SetRow, Moves DEF Reject, RunPhases
<1>6. CASE SaveFails(a)
  BY <1>6, SetRow, Moves DEF SaveFails, Status, Final, RunPhases
<1>7. CASE SaveDone(a)
  BY <1>7, SetRow, Moves DEF SaveDone, Status, Final, RunPhases
<1>8. CASE Raises(a)
  BY <1>1, <1>8, Moves DEF Raises, RunPhases
<1>9. CASE Annotate(a)
  BY <1>1, <1>9, Ends DEF Annotate
<1>10. CASE ReportError(a)
  BY <1>10, SetRow, Ends DEF ReportError, Status, Final
<1>11. CASE GiveUp(a)
  BY <1>1, <1>11, Ends DEF GiveUp
<1> QED
  BY <1>2, <1>4, <1>5, <1>6, <1>7, <1>8, <1>9, <1>10, <1>11

LEMMA MarkRunningOK == ASSUME RunsIInv, NEW a \in Callers, MarkRunning(a) PROVE RunsIInv'
<1> DEFINE c == [caller[a] EXCEPT !.at = "crawling"]
<1>1. caller[a] \in CallerRow /\ caller[a].found = {}
  BY DEF RunsIInv, RunOK, MarkRunning
<1>2. c \in CallerRow /\ RunOK(c, active'[c.store])
  BY <1>1 DEF CallerRow, RunOK, RunPhases
<1>3. /\ active' \in [Stores -> SUBSET Urls] /\ sync' \in [Stores -> Row] /\ stale' = stale
      /\ \A s \in Stores : active[s] \cap OwnProducts(s) \subseteq active'[s]
  BY SetRow DEF RunsIInv, MarkRunning, Status, Final
<1>4. caller' = [caller EXCEPT ![a] = c]
  BY DEF MarkRunning, Enter, RunsIInv
<1> HIDE DEF c
<1> QED
  BY <1>2, <1>3, <1>4, OneRun

\* What the clean-up retires is no product.
LEMMA CleanUpOK == ASSUME RunsIInv, NEW a \in Callers, CleanUp(a) PROVE RunsIInv'
<1> DEFINE s == caller[a].store
           c == [caller[a] EXCEPT !.at = "graph"]
<1>1. caller[a] \in CallerRow /\ s \in Stores /\ caller[a].found = {}
  BY DEF RunsIInv, RunOK, CallerRow, CleanUp
<1>2. c \in CallerRow /\ RunOK(c, active'[c.store])
  BY <1>1 DEF CallerRow, RunOK, RunPhases
<1>3. PICK retired \in SUBSET (active[s] \cap Listings) : active' = [active EXCEPT ![s] = @ \ retired]
  BY DEF CleanUp
<1>4. s \in Crawlers
  BY DEF CleanUp
<1>5. /\ active' \in [Stores -> SUBSET Urls] /\ sync' \in [Stores -> Row] /\ stale' = stale
      /\ \A t \in Stores : active[t] \cap OwnProducts(t) \subseteq active'[t]
  BY <1>1, <1>3, <1>4 DEF RunsIInv, CleanUp, OwnProducts, ListingsOf
<1>6. caller' = [caller EXCEPT ![a] = c]
  BY DEF CleanUp, Enter, RunsIInv
<1> HIDE DEF c
<1> QED
  BY <1>2, <1>5, <1>6, OneRun

LEMMA PersistFoundOK == ASSUME RunsIInv, NEW a \in Callers, PersistFound(a) PROVE RunsIInv'
<1> DEFINE s == caller[a].store
<1>1. PICK chunk \in SUBSET Urls :
        /\ active' = [active EXCEPT ![s] = @ \cup chunk]
        /\ caller' = [caller EXCEPT ![a].found = @ \cup chunk]
  BY DEF PersistFound
<1> DEFINE c == [caller[a] EXCEPT !.found = caller[a].found \cup chunk]
<1>2. /\ caller[a] \in CallerRow /\ s \in Stores /\ caller[a].at = "graph"
      /\ caller[a].found \cap OwnProducts(s) \subseteq active[s]
  BY DEF RunsIInv, CallerRow, RunOK, PersistFound
<1>3. /\ active' \in [Stores -> SUBSET Urls] /\ sync' \in [Stores -> Row] /\ stale' = stale
      /\ \A t \in Stores : active[t] \cap OwnProducts(t) \subseteq active'[t]
      /\ active'[s] = active[s] \cup chunk
  BY <1>1, <1>2 DEF RunsIInv, PersistFound
<1>4. c \in CallerRow /\ c.at = "graph" /\ c.store = s /\ c.found = caller[a].found \cup chunk
  BY <1>2 DEF CallerRow
<1>5. RunOK(c, active'[c.store])
  BY <1>2, <1>3, <1>4 DEF RunOK
<1>6. caller' = [caller EXCEPT ![a] = c]
  BY <1>1 DEF RunsIInv
<1> HIDE DEF c
<1> QED
  BY <1>3, <1>4, <1>5, <1>6, OneRun

LEMMA CrawlOK == ASSUME RunsIInv, NEW a \in Callers, Crawl(a) PROVE RunsIInv'
<1>1. PICK found \in SUBSET Urls, access \in {"ok", "denied"} :
        /\ caller[a].found \subseteq found
        /\ access = "denied" => found = {}
        /\ caller' = [caller EXCEPT ![a].at = "crawled", ![a].found = found, ![a].access = access]
  BY Zenon DEF Crawl
<1> DEFINE c == [caller[a] EXCEPT !.at = "crawled", !.found = found, !.access = access]
<1>2. caller[a] \in CallerRow
  BY DEF RunsIInv
<1>3. c \in CallerRow /\ RunOK(c, active'[c.store])
  BY <1>2 DEF CallerRow, RunOK, RunPhases
<1>4. /\ active' \in [Stores -> SUBSET Urls] /\ sync' \in [Stores -> Row] /\ stale' = stale
      /\ \A s \in Stores : active[s] \cap OwnProducts(s) \subseteq active'[s]
  BY DEF RunsIInv, Crawl
<1>5. caller' = [caller EXCEPT ![a] = c]
  BY <1>1 DEF RunsIInv
<1> HIDE DEF c
<1> QED
  BY <1>3, <1>4, <1>5, OneRun

\* What is retired is of another market.
LEMMA SortOutForeignOK ==
  ASSUME RunsIInv, NEW a \in Callers, SortOutForeign(a) PROVE RunsIInv'
<1> DEFINE s == caller[a].store
           found == caller[a].found \cap OwnMarket(s)
           c == [caller[a] EXCEPT !.at = "saving", !.found = found, !.left = found]
<1>1. caller[a] \in CallerRow /\ s \in Stores /\ found \subseteq Urls
  BY OwnUrls DEF RunsIInv, CallerRow
<1>2. c \in CallerRow /\ RunOK(c, active'[c.store])
  BY <1>1 DEF CallerRow, RunOK, RunPhases
<1>3. /\ active' \in [Stores -> SUBSET Urls] /\ sync' \in [Stores -> Row] /\ stale' = stale
      /\ \A t \in Stores : active[t] \cap OwnProducts(t) \subseteq active'[t]
  BY <1>1, OwnUrls DEF RunsIInv, SortOutForeign
<1>4. caller' = [caller EXCEPT ![a] = c]
  BY DEF SortOutForeign, RunsIInv
<1> HIDE DEF c
<1> QED
  BY <1>2, <1>3, <1>4, OneRun

LEMMA SaveChunkOK == ASSUME RunsIInv, NEW a \in Callers, SaveChunk(a) PROVE RunsIInv'
<1> DEFINE s == caller[a].store
<1>1. PICK chunk \in SUBSET caller[a].left :
        /\ active' = [active EXCEPT ![s] = @ \cup chunk]
        /\ caller' = [caller EXCEPT ![a].at = "reporting", ![a].left = @ \ chunk]
  BY DEF SaveChunk
<1> DEFINE c == [caller[a] EXCEPT !.at = "reporting", !.left = caller[a].left \ chunk]
<1>2. /\ caller[a] \in CallerRow /\ s \in Stores /\ chunk \subseteq Urls
      /\ caller[a].found \subseteq OwnMarket(s)
      /\ (caller[a].found \ caller[a].left) \cap OwnProducts(s) \subseteq active[s]
  BY DEF RunsIInv, CallerRow, RunOK, SaveChunk
<1>3. /\ active' \in [Stores -> SUBSET Urls] /\ sync' \in [Stores -> Row] /\ stale' = stale
      /\ \A t \in Stores : active[t] \cap OwnProducts(t) \subseteq active'[t]
      /\ active'[s] = active[s] \cup chunk
  BY <1>1, <1>2 DEF RunsIInv, SaveChunk
<1>4. /\ c \in CallerRow /\ c.at = "reporting" /\ c.store = s
      /\ c.found = caller[a].found /\ c.left = caller[a].left \ chunk
  BY <1>2 DEF CallerRow, RunPhases
<1>5. RunOK(c, active'[c.store])
  BY <1>2, <1>3, <1>4 DEF RunOK
<1>6. caller' = [caller EXCEPT ![a] = c]
  BY <1>1 DEF RunsIInv
<1> HIDE DEF c
<1> QED
  BY <1>3, <1>4, <1>5, <1>6, OneRun

LEMMA ReportChunkOK == ASSUME RunsIInv, NEW a \in Callers, ReportChunk(a) PROVE RunsIInv'
<1> DEFINE c == [caller[a] EXCEPT !.at = "saving"]
<1>1. caller[a] \in CallerRow /\ RunOK(caller[a], active[caller[a].store])
  BY DEF RunsIInv
<1>2. /\ c \in CallerRow /\ c.at = "saving" /\ c.store = caller[a].store
      /\ c.found = caller[a].found /\ c.left = caller[a].left
  BY <1>1 DEF CallerRow, RunPhases
<1>3. RunOK(c, active'[c.store])
  BY <1>1, <1>2 DEF RunOK, ReportChunk
<1>4. sync' \in [Stores -> Row]
  BY SetRow DEF ReportChunk, Status, Final
<1>5. /\ active' \in [Stores -> SUBSET Urls] /\ stale' = stale
      /\ \A s \in Stores : active[s] \cap OwnProducts(s) \subseteq active'[s]
  BY DEF RunsIInv, ReportChunk
<1>6. caller' = [caller EXCEPT ![a] = c]
  BY DEF ReportChunk, Enter, RunsIInv
<1> HIDE DEF c
<1> QED
  BY <1>2, <1>3, <1>4, <1>5, <1>6, OneRun

LEMMA ProgressOK == ASSUME RunsIInv, NEW a \in Callers, Progress(a) PROVE RunsIInv'
<1>1. sync' \in [Stores -> Row]
  BY SetRow DEF Progress, Status, Final
<1> QED
  BY <1>1 DEF Progress, RunsIInv

\* A run that only crawls writes no row.
LEMMA CrawlWritesNothing ==
  ASSUME NEW a \in Callers, Crawl(a) PROVE sync' = sync /\ active' = active /\ stale' = stale
  BY DEF Crawl

LEMMA CallerStepOK == ASSUME RunsIInv, NEW a \in Callers, CallerStep(a) PROVE RunsIInv'
  BY SimpleStepsOK, MarkRunningOK, CleanUpOK, PersistFoundOK, CrawlOK, SortOutForeignOK, SaveChunkOK, ReportChunkOK, ProgressOK DEF CallerStep

LEMMA RecoveryOK == ASSUME RunsIInv, QueueStores \/ RecoverRead \/ RecoverWrite PROVE RunsIInv'
<1>1. CASE QueueStores
  <2>1. [status |-> "DISCOVERY_QUEUED", by |-> NoCaller, age |-> 0] \in Row
    BY StaleAge DEF Row, Status
  <2> QED
    BY <1>1, <2>1 DEF QueueStores, RunsIInv
<1>2. CASE RecoverRead
  <2>1. \A s \in Stores : sync[s].by \in Callers \cup {NoCaller}
    BY DEF RunsIInv, Row
  <2>2. stale' \subseteq Stores \X (Callers \cup {NoCaller})
    BY <1>2, <2>1 DEF RecoverRead
  <2> QED
    BY <1>2, <2>2 DEF RecoverRead, RunsIInv
<1>3. CASE RecoverWrite
  <2>1. \A s \in Stores : sync[s] \in Row /\ [sync[s] EXCEPT !.status = "DISCOVERY_ERROR"] \in Row
    BY DEF RunsIInv, Row, Status, Final
  <2>2. sync' \in [Stores -> Row]
    BY <1>3, <2>1 DEF RecoverWrite
  <2> QED
    BY <1>3, <2>2 DEF RecoverWrite, RunsIInv
<1> QED
  BY <1>1, <1>2, <1>3

LEMMA RunsCrashOK == ASSUME RunsIInv, RunsCrash PROVE RunsIInv'
<1>1. \A a \in Callers : caller[a].store \in Stores
  BY DEF RunsIInv, CallerRow
<1>2. \A a \in Callers : caller'[a] = Idle(caller[a].store)
  BY DEF RunsCrash
<1>3. caller' \in [Callers -> CallerRow] /\ \A a \in Callers : RunOK(caller'[a], active'[caller'[a].store])
  BY <1>1, <1>2, IdleOK DEF RunsCrash
<1> QED
  BY <1>3 DEF RunsCrash, RunsIInv

LEMMA RunsTickOK == ASSUME RunsIInv, RunsTick PROVE RunsIInv'
<1>1. \A age \in 0 .. RunStale : OlderRun(age) \in 0 .. RunStale
  BY StaleAge DEF OlderRun
<1>2. sync' \in [Stores -> Row]
  <2>1. \A s \in Stores : sync[s] \in Row /\ [sync[s] EXCEPT !.age = OlderRun(@)] \in Row
    BY <1>1 DEF RunsIInv, Row
  <2> QED
    BY <2>1 DEF RunsTick
<1>3. ASSUME NEW a \in Callers
      PROVE caller'[a] \in CallerRow /\ RunOK(caller'[a], active'[caller'[a].store])
  <2>1. caller[a] \in CallerRow /\ RunOK(caller[a], active[caller[a].store]) /\ active' = active
    BY DEF RunsIInv, RunsTick
  <2>2. CASE caller[a].at = "idle"
    BY <2>1, <2>2 DEF RunsTick
  <2>3. CASE caller[a].at # "idle"
    <3> DEFINE c == [caller[a] EXCEPT !.age = OlderRun(@)]
    <3>1. /\ c \in CallerRow /\ c.at = caller[a].at /\ c.store = caller[a].store
          /\ c.found = caller[a].found /\ c.left = caller[a].left
      BY <1>1, <2>1 DEF CallerRow
    <3>2. RunOK(c, active[c.store])
      BY <2>1, <3>1 DEF RunOK
    <3>3. caller'[a] = c
      BY <2>3 DEF RunsTick
    <3> HIDE DEF c
    <3> QED
      BY <2>1, <3>1, <3>2, <3>3
  <2> QED
    BY <2>2, <2>3
<1>4. caller' \in [Callers -> CallerRow]
  <2>1. caller' = [a \in Callers |-> IF caller[a].at = "idle" THEN caller[a]
                                     ELSE [caller[a] EXCEPT !.age = OlderRun(@)]]
    BY DEF RunsTick
  <2> QED
    BY <1>3, <2>1
<1> QED
  BY <1>2, <1>3, <1>4 DEF RunsTick, RunsIInv

LEMMA RunsNextOK == RunsIInv /\ [RunsNext]_runsVars => RunsIInv'
<1> SUFFICES ASSUME RunsIInv, [RunsNext]_runsVars PROVE RunsIInv'
  OBVIOUS
<1>1. CASE UNCHANGED runsVars
  BY <1>1 DEF runsVars, RunsIInv
<1>2. CASE RunsNext
  BY <1>2, CallerStepOK, BeginOK, RecoveryOK, RunsCrashOK, RunsTickOK DEF RunsNext
<1> QED
  BY <1>1, <1>2

(* What a run has persisted of a store's own products stays active until the run has   *)
(* ended, whatever the other callers of the store do: reject a crawl, sort out urls,   *)
(* clean up, recover states.                                                           *)
THEOREM RunsInvariant == RunsSpec => []RunsInv
<1>1. RunsSpec => []RunsIInv
  BY RunsInitOK, RunsNextOK, PTL DEF RunsSpec
<1> QED
  BY <1>1, RunsIInvImplies, PTL

(* No step of any run retires a product url of the store's own market, although a run  *)
(* may have found a part of the catalogue only and Deloox's retires urls itself.       *)
THEOREM OmittedStay == RunsSpec => OmittedUrlsStay
<1> DEFINE Stay == \A s \in Stores : active[s] \cap OwnProducts(s) \subseteq active'[s]
<1>1. RunsIInv /\ [RunsNext]_runsVars => [Stay]_runsVars
  <2> SUFFICES ASSUME RunsIInv, RunsNext PROVE Stay
    OBVIOUS
  <2>1. CASE active' = active
    BY <2>1
  <2>2. ASSUME NEW a \in Callers, SortOutForeign(a) PROVE Stay
    BY <2>2, OwnUrls DEF SortOutForeign, RunsIInv
  <2>3. ASSUME NEW a \in Callers, SaveChunk(a) PROVE Stay
    BY <2>3 DEF SaveChunk, RunsIInv
  <2>4. ASSUME NEW a \in Callers, CleanUp(a) PROVE Stay
    BY <2>4 DEF CleanUp, RunsIInv, OwnProducts, ListingsOf
  <2>5. ASSUME NEW a \in Callers, PersistFound(a) PROVE Stay
    BY <2>5 DEF PersistFound, RunsIInv
  <2>6. ASSUME NEW a \in Callers, CallerStep(a) PROVE Stay
    BY <2>1, <2>2, <2>3, <2>4, <2>5, <2>6, CrawlWritesNothing DEF CallerStep, FeedImported, MarkRunning, Progress,
         AccessFailed, Reject, ReportChunk, SaveFails, SaveDone, Annotate, Raises, ReportError, GiveUp
  <2> QED
    BY <2>1, <2>6 DEF RunsNext, Begin, QueueStores, RecoverRead, RecoverWrite, RunsCrash, RunsTick
<1>2. RunsSpec => []RunsIInv
  BY RunsInitOK, RunsNextOK, PTL DEF RunsSpec
<1> QED
  BY <1>1, <1>2, PTL DEF RunsSpec, OmittedUrlsStay

(* The recovery of stale states asks again before it writes: a result that a run wrote *)
(* between its read and its update is kept.                                           *)
THEOREM RecoveryKeeps == RunsSpec => RecoveryKeepsResults
<1> DEFINE Keeps == stale # {} /\ stale' = {} /\ caller' = caller =>
                      \A s \in Stores : sync[s].status \in Final => sync'[s] = sync[s]
<1>1. RunsIInv /\ [RunsNext]_runsVars => [Keeps]_runsVars
  <2> SUFFICES ASSUME RunsIInv, RunsNext PROVE Keeps
    OBVIOUS
  <2>1. CASE stale' = stale
    BY <2>1
  <2>2. CASE sync' = sync
    BY <2>2
  <2>3. CASE RecoverWrite
    <3>1. "DISCOVERY_RUNNING" \notin Final
      BY DEF Final
    <3> QED
      BY <2>3, <3>1 DEF RecoverWrite, IsStale, RunsIInv
  <2>4. ASSUME NEW a \in Callers, CallerStep(a) PROVE Keeps
    BY <2>1, <2>4, CrawlWritesNothing DEF CallerStep, FeedImported, MarkRunning, Progress, CleanUp, PersistFound, AccessFailed, SortOutForeign,
         SaveChunk, Reject, ReportChunk, SaveFails, SaveDone, Annotate, Raises, ReportError, GiveUp
  <2> QED
    BY <2>1, <2>2, <2>3, <2>4 DEF RunsNext, Begin, QueueStores, RecoverRead, RunsCrash, RunsTick
<1>2. RunsSpec => []RunsIInv
  BY RunsInitOK, RunsNextOK, PTL DEF RunsSpec
<1> QED
  BY <1>1, <1>2, PTL DEF RunsSpec, RecoveryKeepsResults
===================================================================================
