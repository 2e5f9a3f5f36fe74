----------------------------- MODULE MCCatalogue -----------------------------
(* Instances of the catalogue's tables and of what surrounds them: the writer *)
(* lock, the Deloox frontier, the discovery runs, the search jobs, the        *)
(* hydration queue and its refreshes. A behaviour is one of one part, chosen  *)
(* at the start, so that their state spaces add up and do not multiply.       *)
EXTENDS WriterLock, DiscoveryFrontier, DiscoveryRuns, SearchJobs, HydrationQueue, TLC

CONSTANTS Parts, home, list, c1, c2, c3, web, fam, scheduler, pg

VARIABLE part

MCProcessOf == [c \in Conns |-> IF c = c3 THEN fam ELSE web]
MCLinks == [u \in Nodes |-> IF u = home THEN Nodes ELSE {home}]
MCPaging == {<<home, home>>}
MCRank == [u \in Nodes |-> IF u = home THEN 0 ELSE 1]
MCStoreOf == pg :> 0
MCBackoff == <<1>>
MCSymmetry == Permutations(Runs) \cup Permutations({c1, c2}) \cup Permutations(Jobs)
                \cup Permutations(Refreshers)

tableVars == <<lockVars, frontierVars, runsVars, jobsVars>>
catalogueVars == <<part, tableVars, vars>>

CatalogueInit ==
  /\ part \in Parts
  /\ LockInit /\ FrontierInit /\ RunsInit /\ JobsInit /\ Init
  /\ storeUrl[pg] = "active" => part \in {"refresh", "hydration"}

TablesNext ==
  \/ part = "lock" /\ LockNext /\ UNCHANGED <<frontierVars, runsVars, jobsVars>>
  \/ part = "frontier" /\ FrontierNext /\ UNCHANGED <<lockVars, runsVars, jobsVars>>
  \/ part = "runs" /\ RunsNext /\ UNCHANGED <<lockVars, frontierVars, jobsVars>>
  \/ part = "search" /\ JobsNext /\ UNCHANGED <<lockVars, frontierVars, runsVars>>

(* "refresh" is ProductRefresh alone: pages that no queue refreshes. *)
CatalogueNext ==
  /\ \/ TablesNext /\ UNCHANGED vars
     \/ part = "refresh" /\ NextRefresh /\ UNCHANGED <<tableVars, queueVars, cursor, loop, searching>>
     \/ part = "hydration" /\ Next /\ UNCHANGED tableVars
  /\ UNCHANGED part

CatalogueSpec == CatalogueInit /\ [][CatalogueNext]_catalogueVars

(* The part that runs is scheduled fairly. *)
CatalogueFairSpec ==
  /\ CatalogueSpec
  /\ \/ part = "lock" /\ LockFairness
     \/ part = "frontier" /\ FrontierFairness
     \/ part = "runs" /\ RunsFairness(scheduler)
     \/ part = "hydration" /\ QueueFairness

(* "The query sequence rotates between runs", of behaviours that have runs. *)
QueriesAreRotated == part = "frontier" => QueriesRotate
==============================================================================
