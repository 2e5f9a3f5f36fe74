-------------------------- MODULE DiscoveryFrontier --------------------------
(* The durable Deloox frontier of backend/catalog_engine.py: the rows of       *)
(* catalog_discovery_queue and the runs of _discover_deloox_catalog that crawl *)
(* them. A run belongs to the discovery loop or to an operator's resync; two   *)
(* may overlap. A transaction is one step; a run's batch is fetched by threads *)
(* and processed page by page.                                                *)
(*                                                                            *)
(* leased_until and available_at are counted down; `rest` is the time since    *)
(* last_finished_at, up to the day after which a DONE page is visited again.   *)
(* The uuid of a claim is represented by its run: a run presents a token only  *)
(* for a page of the batch it claimed with it.                                *)
EXTENDS Naturals, FiniteSets, FiniteSetsExt

CONSTANTS
  Nodes,        \* listing pages _deloox_queue_allowed and _html_listing_url admit
  Seeds,        \* configured seeds
  Links,        \* Links[u]: listing pages u may show
  Paging,       \* pairs <<u, v>>: v is the next page of the search result u
  NodeRank,     \* NodeRank[u]: _html_discovery_priority, a function of the url
  Runs,         \* callers of _discover_deloox_catalog
  BatchSize,    \* HTML_WORKERS
  MaxDepth,     \* HTML_MAX_DEPTH
  Fanout,       \* 60: the listings of one page that are enqueued
  MaxTries,     \* 8: attempts after which a failure is final
  NodeLease,    \* lease_seconds, in ticks
  Revisit,      \* revisit_seconds, in ticks
  NodeBackoff,  \* the delay after a failure, in ticks (its growth is left out)
  NQueries,     \* Len(DELOOX_GENERIC_CATALOG_QUERIES)
  NoRun

ASSUME FrontierAssumption ==
  /\ IsFiniteSet(Nodes)
  /\ Seeds \subseteq Nodes
  /\ Links \in [Nodes -> SUBSET Nodes] /\ Paging \subseteq Nodes \X Nodes
  /\ NodeRank \in [Nodes -> Nat]
  /\ BatchSize \in Nat \ {0} /\ MaxDepth \in Nat /\ Fanout \in Nat \ {0}
  /\ MaxTries \in Nat \ {0, 1} /\ NodeLease \in Nat \ {0}
  /\ Revisit \in Nat \ {0} /\ NodeBackoff \in Nat \ {0} /\ NQueries \in Nat \ {0}
  /\ NoRun \notin Runs

VARIABLES
  node,    \* catalog_discovery_queue
  run,     \* what each run is doing
  offset,  \* catalog_discovery_meta: deloox_search_query_offset
  misses   \* history: failed visits of a page since its last successful one

frontierVars == <<node, run, offset, misses>>

NodeStates == {"ABSENT", "PENDING", "PROCESSING", "DONE", "ERROR", "DEAD"}
Node == [state : NodeStates, depth : 0 .. MaxDepth, attempts : 0 .. MaxTries,
         wait : 0 .. NodeBackoff, lease : 0 .. NodeLease,
         token : Runs \cup {NoRun}, rest : 0 .. Revisit]
NewNode(state, depth) ==
  [state |-> state, depth |-> depth, attempts |-> 0, wait |-> 0, lease |-> 0,
   token |-> NoRun, rest |-> 0]

(* batch: the claimed pages not processed yet, with the depth they had then;    *)
(* page: the one being processed; shown: the listings kept of it; query: the    *)
(* generic search query of this run.                                            *)
Stages == {"idle", "seeding", "recovering", "revisiting", "rotating", "searching",
           "claiming", "fetched", "queued", "persisted", "failed"}
Visits == Nodes \X (0 .. MaxDepth)
IdleRun == [at |-> "idle", batch |-> {}, page |-> <<>>, shown |-> {}, query |-> 0]

CrawlRun == [at : Stages, batch : SUBSET Visits, page : Visits \cup {<<>>},
             shown : SUBSET Nodes, query : 0 .. NQueries - 1]

FrontierType ==
  /\ node \in [Nodes -> Node]
  /\ run \in [Runs -> CrawlRun]
  /\ offset \in 0 .. NQueries - 1
  /\ misses \in [Nodes -> 0 .. MaxTries]

FrontierInit ==
  /\ node = [u \in Nodes |-> NewNode("ABSENT", 0)]
  /\ run = [r \in Runs |-> IdleRun]
  /\ offset = 0
  /\ misses = [u \in Nodes |-> 0]

--------------------------------------------------------------------------------
Least(a, b) == IF a < b THEN a ELSE b
Minus1(n) == IF n = 0 THEN 0 ELSE n - 1
NodeLeased(u) == node[u].state = "PROCESSING" /\ node[u].lease > 0
\* Mutation of Ended: lease_token=NULL is forgotten.
EndedWithToken(row, state, wait) == [row EXCEPT !.state = state, !.wait = wait, !.lease = 0]

Ended(row, state, wait) ==
  [row EXCEPT !.state = state, !.wait = wait, !.lease = 0, !.token = NoRun]

(* The UPSERT of _deloox_queue_enqueue: a known page keeps its state, unless it *)
(* is a configured seed that was DONE or DEAD; its attempts are never reset.    *)
Enqueued(row, depth, seed) ==
  IF row.state = "ABSENT" THEN NewNode("PENDING", depth)
  ELSE LET closer == [row EXCEPT !.depth = Least(@, depth)] IN
       IF seed /\ row.state \in {"DONE", "DEAD"}
       THEN Ended(closer, "PENDING", 0) ELSE closer

\* Mutation of SweptNodes: the sweep takes rows without a token only.
SweptUntoken ==
  [u \in Nodes |-> IF node[u].state = "PROCESSING" /\ node[u].token = NoRun
                   THEN Ended(node[u], "PENDING", 0) ELSE node[u]]

(* _deloox_queue_recover_stale. *)
SweptNodes ==
  [u \in Nodes |-> IF node[u].state = "PROCESSING" /\ node[u].lease = 0
                   THEN Ended(node[u], "PENDING", 0) ELSE node[u]]

\* Mutation of OwnsNode: the statement forgets AND lease_token=?.
OwnsAnyNode(r, u) == node[u].state = "PROCESSING"

(* The row a visit still owns: WHERE url=? AND lease_token=?. There is no test  *)
(* of the state.                                                                *)
OwnsNode(r, u) == node[u].token = r

Goto(r, stage) == run' = [run EXCEPT ![r].at = stage]

--------------------------------------------------------------------------------
StartRun(r) ==
  /\ run[r].at = "idle"
  /\ Goto(r, "seeding")
  /\ UNCHANGED <<node, offset, misses>>

SeedFrontier(r) ==
  /\ run[r].at = "seeding"
  /\ node' = [u \in Nodes |-> IF u \in Seeds THEN Enqueued(node[u], 0, TRUE)
                              ELSE node[u]]
  /\ Goto(r, "recovering")
  /\ UNCHANGED <<offset, misses>>

RecoverStale(r) ==
  /\ run[r].at = "recovering"
  /\ node' = SweptNodes
  /\ Goto(r, "revisiting")
  /\ UNCHANGED <<offset, misses>>

(* _deloox_queue_requeue_stale_done; its limit of 100 rows is not reached. *)
RequeueStaleDone(r) ==
  /\ run[r].at = "revisiting"
  /\ node' = [u \in Nodes |-> IF node[u].state = "DONE" /\ node[u].rest = Revisit
                              THEN Ended(node[u], "PENDING", 0) ELSE node[u]]
  /\ run' = [run EXCEPT ![r].at = "rotating", ![r].query = offset]
  /\ UNCHANGED <<offset, misses>>

\* Mutation of RotateQuery: the offset is stored as it was read.
RotateNowhere(r) ==
  /\ run[r].at = "rotating"
  /\ offset' = run[r].query
  /\ Goto(r, "searching")
  /\ UNCHANGED <<node, misses>>

(* _discover_deloox_search_catalog takes one query per run. The offset was read   *)
(* outside a transaction (with the step above); it is advanced before the query   *)
(* is sent, whatever becomes of it.                                               *)
RotateQuery(r) ==
  /\ run[r].at = "rotating"
  /\ offset' = (run[r].query + 1) % NQueries
  /\ Goto(r, "searching")
  /\ UNCHANGED <<node, misses>>

(* The query fails, runs out of time or yields products, which are persisted like *)
(* those of a page.                                                               *)
SearchCatalog(r) ==
  /\ run[r].at = "searching"
  /\ run' = [run EXCEPT ![r].at = "claiming", ![r].query = 0]
  /\ UNCHANGED <<node, offset, misses>>

Ready(u) == node[u].state \in {"PENDING", "ERROR"} /\ node[u].wait = 0

(* ORDER BY priority, depth, url LIMIT: the order of equal pages is left open.  *)
Before(u, v) ==
  \/ NodeRank[u] < NodeRank[v]
  \/ NodeRank[u] = NodeRank[v] /\ node[u].depth < node[v].depth
ClaimOrder(picked) ==
  LET ready == {u \in Nodes : Ready(u)} IN
  /\ picked \subseteq ready
  /\ Cardinality(picked) = Least(BatchSize, Cardinality(ready))
  /\ \A u \in picked, v \in ready \ picked : ~Before(v, u)

ClaimNodes(r) ==
  /\ run[r].at = "claiming" /\ run[r].batch = {}
  /\ \E picked \in SUBSET Nodes \ {{}} :
       /\ ClaimOrder(picked)
       /\ node' = [u \in Nodes |-> IF u \in picked
            THEN [node[u] EXCEPT !.state = "PROCESSING", !.lease = NodeLease,
                                 !.token = r, !.attempts = Least(@ + 1, MaxTries)]
            ELSE node[u]]
       /\ run' = [run EXCEPT ![r].batch = {<<u, node[u].depth>> : u \in picked}]
  /\ UNCHANGED <<offset, misses>>

(* Nothing is ready, the run's time is over, or an SQLite error ends it before or *)
(* between two batches.                                                          *)
EndRun(r) ==
  /\ run[r].at \in {"seeding", "recovering", "revisiting", "rotating", "searching",
                   "claiming"}
  /\ run[r].batch = {}
  /\ run' = [run EXCEPT ![r] = IdleRun]
  /\ UNCHANGED <<node, offset, misses>>

(* as_completed yields a page that was read: the links kept for the frontier are *)
(* at most Fanout of the listings it shows.                                      *)
ShowPage(r) ==
  /\ run[r].at = "claiming"
  /\ \E visit \in run[r].batch : \E shown \in SUBSET Links[visit[1]] :
       /\ Cardinality(shown) <= Fanout
       /\ run' = [run EXCEPT ![r].at = "fetched", ![r].page = visit,
                             ![r].batch = @ \ {visit}, ![r].shown = shown]
  /\ UNCHANGED <<node, offset, misses>>

FetchPageFails(r) ==
  /\ run[r].at = "claiming"
  /\ \E visit \in run[r].batch :
       run' = [run EXCEPT ![r].at = "failed", ![r].page = visit,
                          ![r].batch = @ \ {visit}]
  /\ UNCHANGED <<node, offset, misses>>

LinkDepth(visit, v) ==
  IF <<visit[1], v>> \in Paging THEN visit[2] ELSE visit[2] + 1

(* The links of the page just shown that the depth limit admits. *)
Admitted(r) == {v \in run[r].shown : LinkDepth(run[r].page, v) <= MaxDepth}

EnqueueLinks(r) ==
  /\ run[r].at = "fetched"
  /\ node' = [v \in Nodes |-> IF v \in Admitted(r)
                THEN Enqueued(node[v], LinkDepth(run[r].page, v), FALSE) ELSE node[v]]
  /\ Goto(r, "queued")
  /\ UNCHANGED <<offset, misses>>

(* _deloox_persist_products: what it does to store_urls is PersistFound of        *)
(* DiscoveryRuns, what it does to the hydration queue is DiscoverDeloox of        *)
(* HydrationQueue.                                                                *)
PersistPage(r) ==
  /\ run[r].at = "queued"
  /\ Goto(r, "persisted")
  /\ UNCHANGED <<node, offset, misses>>

\* Mutation of ProcessPageRaises: the exception is logged and the page goes on as read.
ProcessPageSwallows(r) ==
  /\ run[r].at \in {"fetched", "queued", "persisted"}
  /\ Goto(r, "persisted")
  /\ UNCHANGED <<node, offset, misses>>

(* Any of the three transactions raises: the page is reported as failed. *)
ProcessPageRaises(r) ==
  /\ run[r].at \in {"fetched", "queued", "persisted"}
  /\ Goto(r, "failed")
  /\ UNCHANGED <<node, offset, misses>>

Leave(r) == run' = [run EXCEPT ![r].at = "claiming", ![r].page = <<>>, ![r].shown = {}]

(* _deloox_queue_finish(url, token, True): the attempts are kept. *)
FinishOk(r) ==
  LET u == run[r].page[1] IN
  /\ run[r].at = "persisted"
  /\ IF OwnsNode(r, u)
     THEN /\ node' = [node EXCEPT ![u] = [Ended(@, "DONE", 0) EXCEPT !.rest = 0]]
          /\ misses' = [misses EXCEPT ![u] = 0]
     ELSE UNCHANGED <<node, misses>>
  /\ Leave(r) /\ UNCHANGED offset

(* _deloox_queue_finish(url, token, False). *)
FinishError(r) ==
  LET u == run[r].page[1] IN
  /\ run[r].at = "failed"
  /\ IF OwnsNode(r, u)
     THEN /\ node' = [node EXCEPT ![u] =
               [Ended(@, IF node[u].attempts >= MaxTries THEN "DEAD" ELSE "ERROR",
                      NodeBackoff) EXCEPT !.rest = 0]]
          /\ misses' = [misses EXCEPT ![u] = Least(@ + 1, MaxTries)]
     ELSE UNCHANGED <<node, misses>>
  /\ Leave(r) /\ UNCHANGED offset

(* The report of a failure raises: the exception leaves the run, whose other     *)
(* pages keep their leases.                                                      *)
FinishRaises(r) ==
  /\ run[r].at = "failed"
  /\ run' = [run EXCEPT ![r] = IdleRun]
  /\ UNCHANGED <<node, offset, misses>>

(* phase0_admin_resume_deloox_queue: the oldest DEAD pages get one more attempt, *)
(* expired leases are swept. Its limit of 25 rows is not reached.                *)
ResumeDeadNodes ==
  /\ node' = [u \in Nodes |-> IF node[u].state = "DEAD"
                THEN [Ended(node[u], "ERROR", 0) EXCEPT !.attempts = MaxTries - 1]
                ELSE SweptNodes[u]]
  /\ node' # node
  /\ UNCHANGED <<run, offset, misses>>

FrontierCrash ==
  /\ run' = [r \in Runs |-> IdleRun]
  /\ UNCHANGED <<node, offset, misses>>

FrontierTick ==
  /\ node' = [u \in Nodes |-> [node[u] EXCEPT !.lease = Minus1(@), !.wait = Minus1(@),
                 !.rest = IF node[u].state = "DONE" /\ @ < Revisit THEN @ + 1 ELSE @]]
  /\ node' # node
  /\ UNCHANGED <<run, offset, misses>>

RunStep(r) ==
  \/ SeedFrontier(r) \/ RecoverStale(r) \/ RequeueStaleDone(r)
  \/ RotateQuery(r) \/ SearchCatalog(r) \/ ClaimNodes(r)
  \/ EndRun(r) \/ ShowPage(r) \/ FetchPageFails(r) \/ EnqueueLinks(r)
  \/ PersistPage(r) \/ ProcessPageRaises(r) \/ FinishOk(r) \/ FinishError(r)
  \/ FinishRaises(r)

FrontierNext ==
  \/ \E r \in Runs : StartRun(r) \/ RunStep(r)
  \/ ResumeDeadNodes \/ FrontierCrash \/ FrontierTick

FrontierSpec == FrontierInit /\ [][FrontierNext]_frontierVars

(* The loop starts a run every five minutes, a run's steps have bounded time-outs *)
(* and a deadline, and time passes. Strong fairness of three transactions of the   *)
(* prelude: SQLite does not refuse them, and the process is not killed in front of  *)
(* them, every single time; and of the run's end, which its deadline brings.        *)
FrontierFairness ==
  /\ WF_frontierVars(FrontierTick)
  /\ \A r \in Runs : /\ WF_frontierVars(StartRun(r)) /\ WF_frontierVars(RunStep(r))
                     /\ SF_frontierVars(SeedFrontier(r))
                     /\ SF_frontierVars(RecoverStale(r))
                     /\ SF_frontierVars(RequeueStaleDone(r))
                     /\ SF_frontierVars(RotateQuery(r))
                     /\ SF_frontierVars(EndRun(r))
FrontierFairSpec == FrontierSpec /\ FrontierFairness

--------------------------------------------------------------------------------
(* A page carries a token exactly while it is PROCESSING, the token of a run that  *)
(* is up or of one that was lost: this, and not a test of the state, is what keeps *)
(* a late _deloox_queue_finish from undoing a sweep, a re-seed or a revisit.       *)
TokenMeansProcessing ==
  \A u \in Nodes : node[u].state = "PROCESSING" <=> node[u].token # NoRun

FrontierInv == FrontierType /\ TokenMeansProcessing

(* Every page of the frontier is leased as PageLease says: a live lease is ended   *)
(* by its run alone, and a run that comes late changes nothing.                    *)
Visiting(u) ==
  {r \in Runs : \E visit \in run[r].batch \cup ({run[r].page} \ {<<>>}) : visit[1] = u}
Leases == INSTANCE PageLease WITH
  Items <- Nodes, Holders <- Runs, Nobody <- NoRun,
  holder <- [u \in Nodes |-> IF node[u].state = "PROCESSING" THEN node[u].token ELSE NoRun],
  live <- [u \in Nodes |-> NodeLeased(u)],
  working <- [u \in Nodes |-> Visiting(u)]
FrontierIsLeased == Leases!LeaseSpec

(* "leaves the remaining frontier for the next run": a page becomes DONE only when  *)
(* every link its run kept of it is in the frontier, at the depth it was seen or    *)
(* less: a crash or an error in between leaves it to be crawled again.              *)
ExpandedStep ==
  \A r \in Runs : run[r].at = "persisted" /\ run'[r].at = "claiming" =>
    \A v \in Admitted(r) :
      /\ node[v].state # "ABSENT"
      /\ node[v].depth <= LinkDepth(run[r].page, v)
ExpandedBeforeDone == [][ExpandedStep]_frontierVars

(* A page whose run was killed or lost is returned to the frontier.                 *)
FrontierRecovers ==
  \A u \in Nodes : node[u].state = "PROCESSING" /\ ~NodeLeased(u)
                     ~> node[u].state # "PROCESSING" \/ NodeLeased(u)

(* "The query sequence rotates between runs": no generic query is left out for ever. *)
QueriesRotate ==
  \A q \in 0 .. NQueries - 1 : []<>(\E r \in Runs : run[r].at = "searching" /\ run[r].query = q)

(* Violated: "bounded retry/backoff" (_deloox_queue_finish). The attempts count      *)
(* every claim and are never reset by a success, so a page that was crawled often    *)
(* enough is dead at its first failure.                                              *)
DeadWasRetried == \A u \in Nodes : node[u].state = "DEAD" => misses[u] > 1
================================================================================
