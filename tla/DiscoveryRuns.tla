---------------------------- MODULE DiscoveryRuns ----------------------------
(* discover_store and _save_discovery of backend/catalog_engine.py, run by     *)
(* several callers at once: the discovery loop, the pool of sync_all at        *)
(* bootstrap and the resync workers of backend/main.py. They share the rows of *)
(* sync_state and of store_urls; nothing keeps two of them from running on the *)
(* same store. A step is one transaction or what happens between two.          *)
EXTENDS Naturals, FiniteSets

CONSTANTS
  Stores, Callers,
  Reporters,    \* callers whose `except` writes DISCOVERY_ERROR: loop, sync_all
  FeedStores,   \* stores with an authorised feed: notino
  Urls,         \* urls a store's pages may link to
  Foreign,      \* those of another market: only easycosmetic sorts them out
  Filtered,     \* easycosmetic
  Crawlers,     \* deloox: its crawl writes store_urls before it has ended
  Listings,     \* urls _html_product_url rejects: a sitemap may bring them in
  Chunk,        \* 25: urls per transaction of _save_discovery
  MinOld,       \* MIN_REPLACEMENT_ABSOLUTE
  Ratio,        \* 1 / MIN_REPLACEMENT_RATIO
  RunStale,     \* DISCOVERY_HARD_TIMEOUT + 60 s, in ticks
  NoCaller

ASSUME RunsAssumption ==
  /\ Reporters \subseteq Callers /\ NoCaller \notin Callers
  /\ FeedStores \subseteq Stores /\ Filtered \subseteq Stores /\ Crawlers \subseteq Stores
  /\ Foreign \subseteq Urls /\ Listings \subseteq Urls
  /\ IsFiniteSet(Urls) /\ Chunk \in Nat \ {0}
  /\ MinOld \in Nat /\ Ratio \in Nat \ {0} /\ RunStale \in Nat \ {0}

VARIABLES
  sync,     \* sync_state: status, and started_at as its caller and age
  active,   \* store_urls with active=1
  caller,   \* what each caller is doing
  stale     \* rows _recover_stale_discovery_states has read and not updated yet

runsVars == <<sync, active, caller, stale>>

Final == {"NOT_SYNCED", "DISCOVERY_OK", "DISCOVERY_PARTIAL", "DISCOVERY_EMPTY",
          "DISCOVERY_UNAVAILABLE", "DISCOVERY_ERROR", "FEED_IMPORTED"}
Status == Final \cup {"DISCOVERY_QUEUED", "DISCOVERY_RUNNING"}
Row == [status : Status, by : Callers \cup {NoCaller}, age : 0 .. RunStale]

(* found: product_urls; left: those _save_discovery has not persisted yet; access: *)
(* what the crawl can say of an empty result ("ok", or "denied": no page was read  *)
(* and there were errors); age: the time since its started_at; "graph": inside     *)
(* _discover_deloox_catalog.                                                       *)
RunPhases == {"idle", "started", "crawling", "graph", "crawled", "saving",
           "reporting", "annotating", "raised"}
Idle(s) == [at |-> "idle", store |-> s, found |-> {}, left |-> {},
            access |-> "ok", age |-> 0]

RunsType ==
  /\ sync \in [Stores -> Row]
  /\ active \in [Stores -> SUBSET Urls]
  /\ caller \in [Callers -> [at : RunPhases, store : Stores, found : SUBSET Urls,
                             left : SUBSET Urls, access : {"ok", "denied"},
                             age : 0 .. RunStale]]
  /\ stale \subseteq Stores \X (Callers \cup {NoCaller})

(* Easycosmetic sorts out urls of other markets, Deloox those that are no product. *)
ForeignTo(s) == IF s \in Filtered THEN Foreign ELSE {}
ListingsOf(s) == IF s \in Crawlers THEN Listings ELSE {}
OwnMarket(s) == Urls \ ForeignTo(s)

(* Either may hold such urls from before its rule was there. *)
RunsInit ==
  /\ sync = [s \in Stores |-> [status |-> "NOT_SYNCED", by |-> NoCaller, age |-> 0]]
  /\ active = [s \in Stores |-> ForeignTo(s) \cup ListingsOf(s)]
  /\ \E s \in Stores : caller = [a \in Callers |-> Idle(s)]
  /\ stale = {}

--------------------------------------------------------------------------------
(* _set_sync_state with this run's started_at. *)
SetSyncState(a, status) ==
  sync' = [sync EXCEPT ![caller[a].store] =
             [status |-> status, by |-> a, age |-> caller[a].age]]

Enter(a, phase) == caller' = [caller EXCEPT ![a].at = phase]

(* The rows sync_all writes before its workers start, whoever is at work. *)
QueueStores ==
  /\ sync' = [s \in Stores |-> [status |-> "DISCOVERY_QUEUED", by |-> NoCaller, age |-> 0]]
  /\ UNCHANGED <<active, caller, stale>>

Begin(a, s) ==
  /\ caller[a].at = "idle"
  /\ caller' = [caller EXCEPT ![a] = [Idle(s) EXCEPT !.at = "started"]]
  /\ UNCHANGED <<sync, active, stale>>

(* Notino's feed: when it holds offers the run ends here. *)
FeedImported(a) ==
  /\ caller[a].at = "started" /\ caller[a].store \in FeedStores
  /\ SetSyncState(a, "FEED_IMPORTED")
  /\ Enter(a, "idle")
  /\ UNCHANGED <<active, stale>>

(* "Persist state BEFORE network work". *)
MarkRunning(a) ==
  /\ caller[a].at = "started"
  /\ SetSyncState(a, "DISCOVERY_RUNNING")
  /\ Enter(a, "crawling")
  /\ UNCHANGED <<active, stale>>

(* The progress of seeds, sitemaps and the Deloox frontier. *)
Progress(a) ==
  /\ caller[a].at \in {"crawling", "graph"}
  /\ SetSyncState(a, "DISCOVERY_RUNNING")
  /\ UNCHANGED <<active, caller, stale>>

(* _deloox_retire_invalid_active_urls, first thing of the graph: the active rows   *)
(* that are no product, all of them at the first pass, later those whose path      *)
(* looks like navigation, and none when it fails (it returns its error).           *)
CleanUp(a) ==
  LET s == caller[a].store IN
  /\ caller[a].at = "crawling" /\ s \in Crawlers
  /\ \E retired \in SUBSET (active[s] \cap Listings) :
       active' = [active EXCEPT ![s] = @ \ retired]
  /\ Enter(a, "graph")
  /\ UNCHANGED <<sync, stale>>

(* _deloox_persist_products, for the search's urls and then page by page: one      *)
(* transaction of what the crawl has just found and _html_product_url accepted.    *)
PersistFound(a) ==
  LET s == caller[a].store IN
  /\ caller[a].at = "graph"
  /\ \E chunk \in SUBSET (Urls \ Listings) :
       /\ chunk # {} /\ Cardinality(chunk) <= Chunk
       /\ active' = [active EXCEPT ![s] = @ \cup chunk]
       /\ caller' = [caller EXCEPT ![a].found = @ \cup chunk]
  /\ UNCHANGED <<sync, stale>>

(* Sitemaps, html fallback and the Deloox graph together: any urls may be found,   *)
(* those of the graph's own transactions among them.                               *)
Crawl(a) ==
  /\ caller[a].at = IF caller[a].store \in Crawlers THEN "graph" ELSE "crawling"
  /\ \E found \in SUBSET Urls, access \in {"ok", "denied"} :
       /\ caller[a].found \subseteq found
       /\ access = "denied" => found = {}
       /\ caller' = [caller EXCEPT ![a].at = "crawled", ![a].found = found,
                                   ![a].access = access]
  /\ UNCHANGED <<sync, active, stale>>

(* `if not product_urls and fallback is not None and fallback['successes'] == 0`:  *)
(* the graph of Deloox is no fallback.                                             *)
AccessFailed(a) ==
  /\ caller[a].at = "crawled" /\ caller[a].access = "denied"
  /\ caller[a].store \notin Crawlers
  /\ SetSyncState(a, "DISCOVERY_ERROR")
  /\ Enter(a, "annotating")
  /\ UNCHANGED <<active, stale>>

\* Mutation of SortOutForeign: what the run has not found is retired as well.
SortOutOmitted(a) ==
  LET s == caller[a].store IN
  /\ caller[a].at = "crawled"
  /\ active' = [active EXCEPT ![s] = @ \cap caller[a].found]
  /\ caller' = [caller EXCEPT ![a].at = "saving", ![a].found = @ \cap OwnMarket(s),
                              ![a].left = caller[a].found \cap OwnMarket(s)]
  /\ UNCHANGED <<sync, stale>>

(* Easycosmetic keeps the urls of its own market and retires the others. *)
SortOutForeign(a) ==
  LET s == caller[a].store IN
  /\ caller[a].at = "crawled"
  /\ active' = [active EXCEPT ![s] = @ \cap OwnMarket(s)]
  /\ caller' = [caller EXCEPT ![a].at = "saving", ![a].found = @ \cap OwnMarket(s),
                              ![a].left = caller[a].found \cap OwnMarket(s)]
  /\ UNCHANGED <<sync, stale>>

(* The guard compares with the rows that are active now; only a run that has      *)
(* persisted nothing yet looks at it.                                             *)
FirstLook(a) == caller[a].at = "saving" /\ caller[a].left = caller[a].found
TooFew(a) ==
  LET old == Cardinality(active[caller[a].store]) IN
  old >= MinOld /\ Cardinality(caller[a].found) * Ratio < old

Reject(a) ==
  /\ FirstLook(a)
  /\ \/ TooFew(a) /\ SetSyncState(a, "DISCOVERY_PARTIAL")
     \/ /\ ~TooFew(a) /\ caller[a].found = {}
        /\ SetSyncState(a, IF caller[a].access = "denied" THEN "DISCOVERY_UNAVAILABLE"
                           ELSE "DISCOVERY_EMPTY")
  /\ Enter(a, "annotating")
  /\ UNCHANGED <<active, stale>>

(* One transaction; "reporting" is the progress write that follows it. *)
SaveChunk(a) ==
  LET s == caller[a].store IN
  /\ caller[a].at = "saving" /\ caller[a].left # {}
  /\ FirstLook(a) => ~TooFew(a)
  /\ \E chunk \in SUBSET caller[a].left :
       /\ Cardinality(chunk) = Chunk \/ (chunk = caller[a].left /\ Cardinality(chunk) < Chunk)
       /\ active' = [active EXCEPT ![s] = @ \cup chunk]
       /\ caller' = [caller EXCEPT ![a].at = "reporting", ![a].left = @ \ chunk]
  /\ UNCHANGED <<sync, stale>>

ReportChunk(a) ==
  /\ caller[a].at = "reporting"
  /\ SetSyncState(a, "DISCOVERY_RUNNING")
  /\ Enter(a, "saving")
  /\ UNCHANGED <<active, stale>>

\* Mutation of SaveFails: the chunk that raised is skipped.
SaveSkips(a) ==
  /\ caller[a].at = "saving" /\ caller[a].left # {}
  /\ caller' = [caller EXCEPT ![a].left = {}]
  /\ UNCHANGED <<sync, active, stale>>

(* A chunk or its report raises: the run ends as partial. *)
SaveFails(a) ==
  /\ \/ caller[a].at = "saving" /\ caller[a].left # {} /\ (FirstLook(a) => ~TooFew(a))
     \/ caller[a].at = "reporting"
  /\ SetSyncState(a, "DISCOVERY_PARTIAL")
  /\ Enter(a, "annotating")
  /\ UNCHANGED <<active, stale>>

SaveDone(a) ==
  /\ caller[a].at = "saving" /\ caller[a].left = {} /\ caller[a].found # {}
  /\ SetSyncState(a, "DISCOVERY_OK")
  /\ Enter(a, "annotating")
  /\ UNCHANGED <<active, stale>>

(* The last update writes the error text only. *)
Annotate(a) ==
  /\ caller[a].at = "annotating"
  /\ caller' = [caller EXCEPT ![a] = Idle(caller[a].store)]
  /\ UNCHANGED <<sync, active, stale>>

(* An exception leaves discover_store. The loop and sync_all write a final state *)
(* (if that does not raise as well); a resync worker keeps it to itself.          *)
Raises(a) ==
  /\ caller[a].at \notin {"idle", "raised"}
  /\ Enter(a, "raised")
  /\ UNCHANGED <<sync, active, stale>>

\* Mutation of ReportError: the loop logs the exception and writes no state.
ReportNothing(a) ==
  /\ caller[a].at = "raised" /\ a \in Reporters
  /\ caller' = [caller EXCEPT ![a] = Idle(caller[a].store)]
  /\ UNCHANGED <<sync, active, stale>>

ReportError(a) ==
  /\ caller[a].at = "raised" /\ a \in Reporters
  /\ SetSyncState(a, "DISCOVERY_ERROR")
  /\ caller' = [caller EXCEPT ![a] = Idle(caller[a].store)]
  /\ UNCHANGED <<active, stale>>

GiveUp(a) ==
  /\ caller[a].at = "raised"
  /\ caller' = [caller EXCEPT ![a] = Idle(caller[a].store)]
  /\ UNCHANGED <<sync, active, stale>>

(* _recover_stale_discovery_states at the start of the loop: a read, and an       *)
(* update per row that checks what was read.                                      *)
IsStale(s) == sync[s].status = "DISCOVERY_RUNNING" /\ sync[s].age = RunStale

RecoverRead ==
  /\ stale = {}
  /\ stale' = {<<s, sync[s].by>> : s \in {t \in Stores : IsStale(t)}}
  /\ stale' # {}
  /\ UNCHANGED <<sync, active, caller>>

\* Mutation of RecoverWrite: the update does not ask for DISCOVERY_RUNNING again.
RecoverUnchecked ==
  /\ stale # {}
  /\ sync' = [s \in Stores |-> IF <<s, sync[s].by>> \in stale
                               THEN [sync[s] EXCEPT !.status = "DISCOVERY_ERROR"] ELSE sync[s]]
  /\ stale' = {}
  /\ UNCHANGED <<active, caller>>

RecoverWrite ==
  /\ stale # {}
  /\ sync' = [s \in Stores |->
       IF <<s, sync[s].by>> \in stale /\ IsStale(s)
       THEN [sync[s] EXCEPT !.status = "DISCOVERY_ERROR"] ELSE sync[s]]
  /\ stale' = {}
  /\ UNCHANGED <<active, caller>>

RunsCrash ==
  /\ caller' = [a \in Callers |-> Idle(caller[a].store)]
  /\ stale' = {}
  /\ UNCHANGED <<sync, active>>

OlderRun(age) == IF age < RunStale THEN age + 1 ELSE age
RunsTick ==
  /\ sync' = [s \in Stores |-> [sync[s] EXCEPT !.age = OlderRun(@)]]
  /\ caller' = [a \in Callers |-> IF caller[a].at = "idle" THEN caller[a]
                                  ELSE [caller[a] EXCEPT !.age = OlderRun(@)]]
  /\ <<sync', caller'>> # <<sync, caller>>
  /\ UNCHANGED <<active, stale>>

CallerStep(a) ==
  \/ FeedImported(a) \/ MarkRunning(a) \/ Progress(a) \/ CleanUp(a) \/ PersistFound(a)
  \/ Crawl(a) \/ AccessFailed(a)
  \/ SortOutForeign(a) \/ Reject(a) \/ SaveChunk(a) \/ ReportChunk(a) \/ SaveFails(a)
  \/ SaveDone(a) \/ Annotate(a) \/ Raises(a) \/ ReportError(a) \/ GiveUp(a)

RunsNext ==
  \/ \E a \in Callers : CallerStep(a) \/ \E s \in Stores : Begin(a, s)
  \/ QueueStores \/ RecoverRead \/ RecoverWrite \/ RunsCrash \/ RunsTick

RunsSpec == RunsInit /\ [][RunsNext]_runsVars

(* The loop visits every store again and again, a crawl has a time-out, the report *)
(* of an error is not refused every time, and at some point the process stops      *)
(* being killed. Nothing is assumed of the other callers.                          *)
RunsFairness(loop) ==
  /\ \A s \in Stores : SF_runsVars(Begin(loop, s))
  /\ WF_runsVars(CallerStep(loop)) /\ WF_runsVars(Crawl(loop))
  /\ SF_runsVars(ReportError(loop))
  /\ <>[][~RunsCrash]_runsVars

--------------------------------------------------------------------------------
(* What a store's catalogue is for: urls of its own market that name a product. *)
OwnProducts(s) == OwnMarket(s) \ ListingsOf(s)

(* DISCOVERY_OK says that the products the run found are in the catalogue: what a    *)
(* run has persisted so far, Deloox's graph while it still crawls or _save_discovery *)
(* after it, stays active, also when another run of the store rejects its crawl,     *)
(* sorts out urls or cleans up in between, and nothing found is skipped. What is     *)
(* saved is of the store's own market.                                               *)
Persisted(a) == IF caller[a].at = "graph" THEN caller[a].found
                ELSE IF caller[a].at \in {"saving", "reporting"}
                THEN caller[a].found \ caller[a].left ELSE {}
PersistedStays ==
  \A a \in Callers :
    /\ Persisted(a) \cap OwnProducts(caller[a].store) \subseteq active[caller[a].store]
    /\ caller[a].at \in {"saving", "reporting"} => caller[a].found \subseteq OwnMarket(caller[a].store)

RunsInv == RunsType /\ PersistedStays

(* "valid German URLs omitted by a partial discovery run must remain active": no   *)
(* run, complete or not, retires a product url of the store's own market; Deloox's *)
(* clean-up retires what its url contract rejects and nothing else.                *)
OmittedUrlsStay ==
  [][\A s \in Stores : active[s] \cap OwnProducts(s) \subseteq active'[s]]_runsVars

(* The recovery closes rows that still say RUNNING: a run that ended between its   *)
(* read and its update keeps its result.                                           *)
RecoveryKeepsResults ==
  [][stale # {} /\ stale' = {} /\ caller' = caller =>
       \A s \in Stores : sync[s].status \in Final => sync'[s] = sync[s]]_runsVars

(* "so the public status cannot remain RUNNING forever". *)
StatusSettles == \A s \in Stores : []<>(sync[s].status # "DISCOVERY_RUNNING")

(* Violated: "cannot represent a live run in this process". The crawl is bounded   *)
(* by DISCOVERY_HARD_TIMEOUT, the transactions of _save_discovery are not.         *)
OnlyDeadRunsAreClosed ==
  [][\A s \in Stores : sync[s].status = "DISCOVERY_RUNNING" /\ RecoverWrite
       /\ sync'[s].status = "DISCOVERY_ERROR" => caller[sync[s].by].at = "idle"]_runsVars
==============================================================================
