# ScentHunter: a verification project

ScentHunter keeps a catalogue of perfume offers of nine retailers in one SQLite
file, refreshes it in the background from several threads and two processes, and
searches it in the foreground. This directory holds TLA+ modules of that system, TLC
runs on small instances, and TLAPS proofs for any number of pages, threads,
connections, jobs and stores. Paths below are relative to `src/`.

1. [Inventory](#1-inventory) - the system's parts and how they interact
2. [Modules](#2-modules) - which module models which part, and how
3. [Runs](#3-runs) - what each run checks, its bounds, the fairness assumed
4. [Where the code departs from what it says](#4-where-the-code-departs-from-what-it-says)
5. [Proofs](#5-proofs)
6. [Not modelled, and the plan](#6-not-modelled-and-the-plan)

## 1. Inventory

| Component | State | Operations | What is hard | What makes it correct | Module |
|---|---|---|---|---|---|
| Product refresh, `refresh_url` (`backend/catalog_engine.py:4166`) | `store_urls`, `store_products`, `_LAST_REFRESH_ERRORS` | fetch, parse, success transaction, error branch | called by hydration workers, foreground refreshes, repairs and operator endpoints at once; nothing serialises two refreshes of a page | a served price is as old as its row says; only an observation changes a price; an error does not replace an offer | `ProductRefresh` |
| Hydration queue and loop (`5627-6191`, `7018-7233`) | `hydration_queue`, `hydration_scheduler`, the loop's batch, its pool | backfill, sweep, stale requeue, claim, release, hydrate, mark done or error | leases that run out under a live worker, abandoned batches, restart, other writers of the same rows | tokens protect the holder, the store cap holds, DEAD is left by hand only, DONE has an item, no row is stranded | `HydrationQueue` |
| Writer lock (`backend/catalog_writer_lock.py`) | lock file, connections | acquire, execute, commit, rollback, close | failed commit, nested connections, lost descriptors, deadline | one writer; never an open transaction without the lock, unless its end raised | `WriterLock` |
| Deloox frontier (`2023-2916`) | `catalog_discovery_queue`, `catalog_discovery_meta` | seed, enqueue, sweep, revisit, rotate, claim, expand, finish | overlapping runs; a finish that tests the token and not the state; a crash between two transactions of a page | as for a leased queue; a page is done only when its links are in the frontier | `DiscoveryFrontier` |
| Discovery of a store (`1203-1471`, `3297-3540`) | `store_urls`, `sync_state` | crawl, save in chunks, retire, report, recover stale states | two callers on one store; partial crawls; rows left `RUNNING` | no run retires a product of its store's market; a result is not lost to the recovery; a status settles | `DiscoveryRuns` |
| Discovery loop (`6194-6393`) | turn, thread name | choose a store, wait for searches, visit | starvation between stores and by searches | Deloox after every two others, every store again and again | `DiscoveryLoop` |
| Family coverage (`backend/catalog_family_coverage.py`) | a second process | discover, persist with retry, wait | sees the web process only through `/proc` | does not write into a search; every family is searched again | `FamilyCoverage` |
| Coverage queue (`6451-6988`) | `catalog_coverage`, pool, scraper processes | seed, claim, search, finish, cancel | `PROCESSING` without a lease; cancelled by a search | nothing is stranded but by a fault; FOUND is saved | `CoverageQueue` |
| Search jobs (`backend/main.py`) | `JOBS`, threads | start, cancel, publish, watchdog, final status | publication after cancellation; two requests at once | a result that was cut is not shown as complete; polling ends | `SearchJobs` |
| Store lanes (`backend/main.py`) | permits, worker processes, reports | run a store, retry, time out, cancel, publish | pipes that are read late, deadlines, permits | a failure is never absence; every permit is returned | `StoreLanes` |
| Bootstrap and resync (`backend/main.py`) | flags, threads | start, sync, start the loops, resync | exceptions, restarts, two requests | the loops get started; one resync of a kind | `ControlledJobs` |
| Local search and its index (`369-615`, `4850-5440`) | FTS table, triggers, repair threads | open, rebuild, write, find, repair | a rebuild in several transactions with writers in between | an active page is found by its slug and its name | `SearchIndex` |
| Offers of a search (`backend/main.py`) | the job's offers | clean, filter, identify, deduplicate, group, link | rows that share a page, a price or a name | different offers stay apart; a link opens its size | `OfferMerge` |
| Product matcher (`backend/product_matcher.py`) | registry, indexes | resolve a query, match an offer | names that contain each other, concentrations, indexes that must lose nothing | an offer goes to its own perfume | `FamilyMatcher`, `ProductMatcher` |
| Retailer modules (`backend/scrapers/*`) | caches | ask the shop's sources in turn, fetch pages, parse a price | partial outages; pages that show several prices | absence is heard, never assumed; a row has the price of its own variant | five modules, `StoreSearch` |
| Phase-0 jobs (`backend/scenthunter_next_engine/phase0_baseline_jobs.py`, `backend/phase0_baseline_worker.py`) | job table, files | create, claim, heartbeat, export, publish, fail stale | a worker taken for dead completes the job; beats that come late | completed means whole; a job has one worker | `Phase0Jobs` |
| Offer refresh worker, ingestion (`backend/offer_engine`, `backend/app`) | scheduler row, PostgreSQL | rotate, stage, match, promote | retried ingestion | exactly one current offer | none |
| Next engine, scripts, tools, frontend | none shared | pure functions, I/O | text | out of scope | none |

How they interact. Discovery, coverage and a successful refresh insert pages into
`store_urls` and `hydration_queue`; the hydration loop leases pages to workers, which
call `refresh_url`; the search index follows both tables by triggers. A search reads
the tables, asks for priority (`prioritize_hydration_candidates`) and makes all
background work yield; without a catalogue it runs the retailer modules in worker
processes. Their rows go through the matcher and the merge into the job that a
client polls. All writers share one SQLite file in WAL mode behind the writer lock,
so a transaction is atomic and the interleaving happens between transactions; that is
the grain of all modules.

The hazards are listed, each at its line, in `PROJECT.json`, with the properties
that would catch them and a note where none does.

## 2. Modules

`ProductRefresh` is extended by `HydrationQueue`, `DiscoveryLoop` by `FamilyCoverage`,
`FamilyMatcher` by `ProductMatcher`, the five retailer modules by `Retailers`; the others
stand alone. Where one component
acts on another, its action is part of the module that has the state: `Discover`,
`CoverageFind`, `Prioritize` of `HydrationQueue` are the queue writes of discovery,
coverage and a search; `searching` and the like are what a component sees of a search.
Three small modules say what components promise: `WriterMutex` (one turn), `PageLease`
(leased items) and `StoreSearch` (verified answers).

| Module | What it is |
|---|---|
| `ProductRefresh` | `refresh_url`, one action per section between two transactions, for any number of threads |
| `HydrationQueue` | queue, loop, workers, other writers, crash, restart |
| `WriterLock`, `WriterMutex` | connections, statement kinds, lock file; the turn it implements |
| `DiscoveryFrontier`, `PageLease` | the Deloox frontier and its runs; the leases it implements |
| `DiscoveryRuns` | `discover_store` and `_save_discovery`, several callers |
| `DiscoveryLoop`, `FamilyCoverage` | the loop over stores; the process beside it |
| `CoverageQueue` | `catalog_coverage` and its pool of killable processes |
| `ControlledJobs` | bootstrap and resync of the web process |
| `SearchJobs` | `JOBS`, requests, the watchdog |
| `StoreLanes` | one search over all stores |
| `SearchIndex` | `catalog_search_fts`, rows shown by a search, repair threads |
| `ParfumzentrumSearch`, `DelooxSearch`, `SabinaSearch`, `EasycosmeticSearch`, `ShopifySearch` | eight retailer modules (the last: four shops) |
| `Retailers`, `StoreSearch` | the retailer modules together; what each of them promises |
| `FamilyMatcher`, `ProductMatcher` | `ProductMatcher.match` for queries of a registered family, and for any other |
| `OfferMerge` | from raw rows to what a poll shows |
| `Listing` | list comprehensions: some elements of a list in their order, for the two above |
| `Phase0Jobs` | the baseline jobs and the worker process |
| `MCProductRefresh`, `MCHydrationQueue`, `MCCatalogue`, `MCWeb`, `MCOffers` | constants, symmetry and composition of the TLC instances |
| `HydrationQueueProofs` (with refresh), `WriterLockProofs`, `SearchJobsProofs`, `LocalSearchProofs` (lanes, index), `RetailerProofs`, `DiscoveryProofs` (frontier, runs), `BackgroundProofs` (coverage, control, loop, family, baselines), `OfferProofs` (merge, matcher) | inductive invariants and theorems |

### ProductRefresh

A page is a (store, url) pair. `storeUrl[p]` is the `active` flag of its
`store_urls` row, `product[p]` its `store_products` row, `lastError[p]` its entry in
`_LAST_REFRESH_ERRORS`, `task[t]` the refresh that thread `t` is in.

* Time is counted in ticks. `fetched_at` is represented by its age, capped at
  `PricedFresh`: every reader compares it with the 24 h or 6 h window and nothing else.
* A stored price is represented by the age of the observation it came from. The
  code keeps no such column; it is what makes "the price is as old as its row
  says" a statement about two columns written by separate `CASE` expressions.
  `price <= 0` and `NULL` are one value, as every reader treats them.
* What a page yields is one of five parses (priced, sold out with or without a
  price, a name only, a price of zero) or one of three failures (transient,
  404/410, ParfumZentrum's placeholder price). `Yields` says which ones occur in an
  instance.
* `Parse`, `Persist`, `FinishRefresh` are the success path; `FetchFails` and
  `PersistFails` enter the except branch, which notes the error, reads
  `fetch_status` (`ReadOffer`) and writes (`WriteError`), or fails there
  (`ErrorWriteFails`). `ReadOffer` and `WriteError` are two steps because the
  `SELECT` opens no write transaction.
* `hidden` is a history field that no step reads: the error row has replaced a
  successful offer (the race of `error_race`).

### HydrationQueue

`queue[p]` is the row of `hydration_queue`; `cursor` is
`hydration_scheduler.last_store_index`; `loop` is the place of
`catalog_hydration_loop`; `searching` is `_foreground_search_running()` together
with the grace period after a search.

* `lease` and `wait` count down what the code compares with a clock: `lease = 0` is
  an expired or NULL `leased_until`, `wait = 0` an `available_at` that has come.
* The token of a claim is the worker slot that carries it. A slot takes a claim only
  when it is idle, so a live task holds the row exactly when the row still carries
  its slot. `SetOwned` is the guard `lease_token=? AND state='PROCESSING'`.
* `attempts` stops at `Len(Backoff)`: the index into the delays saturates there, and
  the branch for `HYDRATION_MAX_ATTEMPTS` chooses the same last delay.
* `Backfill` takes the scan one page at a time, in any order and up to any budget.
  `Requeue` takes the oldest stale page of every store; the limit of 16 does not bind
  with nine stores. `Claim` sweeps, picks the next store in turn, the lowest priority
  and the untried pages first; FIFO among equals is left open. The check for a
  running search and the claim after it are one step.
* `AbandonBatch` is an exception in the claim or release phase; `EndBatch` covers a
  finished batch, its deadline and a search. Tasks nobody started are dropped and
  their rows keep the lease; running ones go on.
* `Discover` is `_save_discovery`'s upsert. Its callers filter with
  `_looks_product`, so it takes pages outside `NonProduct`; `CoverageFind` does not
  filter, and may come from another process while this one is down.
* Deloox has writers of its own. `DiscoverDeloox` is the upsert of its frontier, with
  another condition for DONE; `RetireNavigation` is the clean-up at the start of its
  runs, which closes rows of pages that are no product (`Navigation`) unless a lease is
  live; `RequeueIncomplete` is the repair of a process's first connection
  (`catalog_engine.py:790`). `ResumeDead` and `RecoverParserError` are what operators do:
  the endpoint of `main.py:5435` and the scripts for parser errors.
* Left out: Notino's authorised feed (`scrapers/notino/affiliate_feed.py:431`), which
  closes rows with the offer it has just stored, also under a live lease, and the
  operator's tool for one reviewed url of Deloox (`deloox_targeted_refresh.py`).
* `Crash` loses threads, notes and the batch; the tables stay. `BootFails` is an
  SQLite error before the loop's `try`.

### WriterLock

A connection is `conn[c]`, the lock file `flock`, the deadline of a wait `waited[c]`.
`execute` is two steps for a statement that may write: the wait for the flock
(`Acquire`, `AcquireTimesOut`) and the execution under it; a read is one. SQLite's
own transaction is `tx`: none, begun, or holding SQLite's write lock. Statements,
commits and rollbacks may raise at every place where the code lets them. A descriptor
that its connection object forgets (callers that close outside a `finally`) stays with
the process: `flock` is then that process, until it ends.

### DiscoveryFrontier

`node[u]` is a row of `catalog_discovery_queue`, `run[r]` one call of
`_discover_deloox_catalog`, `offset` the stored query offset. The prelude's transactions
(seed, recover, revisit, rotate) are a step each; so are the claim of a batch and the
three transactions of a page (enqueue the links, persist the products, finish). What a
page shows is any subset of `Links`, cut to `Fanout`. Leases and delays are counted
down as in `HydrationQueue`; the growth of the delay with the attempts is left out. A
crash ends a run at any step, and an operator's resume is another run. `PageLease` is
the abstract queue: `FrontierIsLeased` maps the row's token and lease to it, and the
pages of a run's batch to "at work".

### DiscoveryRuns, DiscoveryLoop, FamilyCoverage

A caller of `discover_store` goes through its phases: started, crawling, crawled, saving
in chunks, reporting, annotating, raised. What a crawl finds is any set of urls. The
crawl of Deloox is a phase of its own, `graph`: it begins with the retirement of what
the url contract rejects (`CleanUp`) and writes what it finds while it goes on
(`PersistFound`). The
market filter of Easycosmetic, the guard that rejects a crawl that shrank too much, and
the recovery of stale states (a read, later an update) are in full. The loop visits a
store per turn; here a visit is one step, and what counts is the turn: Notino and Deloox
first after a start, Deloox after two others, and the gate that searches close. The
family process sees nothing but the thread names in `/proc`, of which only the discovery
thread has one.

### CoverageQueue, ControlledJobs

A task is a (store, product) pair with its row `coverage[t]`; the batch of the loop's
thread and the pool's work are `batch`. The event that cancels and the search that
sets it are separate, so a search may come between the reset and the look at it. The
persistence of a result is a transaction that may fail. `ControlledJobs` keeps the
flags of `backend/main.py` as they are, each with its thread.

### SearchJobs, StoreLanes

A request of a client waits for the jobs it cancelled, creates its job and starts the
thread, and two requests may be between any two of these steps. A job's thread
collects, finalises and closes; publication tests the cancel event and the status
under the lock, as the code does. `StoreLanes` opens the collection: with a catalogue,
one search over the stored pages, whose store threads a cancel may stop between two
rows, with a live attempt for Notino; without one, a thread
per store with its permit, its worker process, the pipe in between, a second attempt,
the deadline and the cancel event. The pipe is what is in it and unread: how many rows,
how many of them the reader will keep, and the status line behind them, which is the
order in which they are read. What `search()` returns is every shape
that `WORKER_CODE` distinguishes.

### SearchIndex, OfferMerge

A page of the index is its url row, product row and variants, by what a search tells
apart; its text in the index is the set of the words' sources (slug, name). The rebuild
is one step per statement or commit, and each trigger is the SQL it runs; a statement that
fails leaves the process writing with what there is. Two history fields say what
went wrong: a statement was refused, a rebuild was overtaken by another process's. What
`search_local` shows of a page follows the rules of its store. `OfferMerge` takes raw
rows, as records of what the code compares, through `clean_result`, the filters, the
matcher's answer, dedupe and grouping to the answer of a poll. The grouping judges the
row by its own title (`sameLine`), the poll by the catalogue's name under which the offer
is shown (`sameShown`): the two may differ, and a poll may hide what was grouped.

### The retailer modules

A module asks its sources in the code's order. A request is an answer or a failure, a
page is what its parts say (the price nodes with their verdicts, the JSON-LD offers with
size and variant, the stock texts), and the extraction functions are evaluated over all
such pages. What a shop lists is a constant; the choice of its form, the pagination, the
fallbacks (categories, browser, sitemap, Sellboost) and the verdict "verified" are the
code's. Each runs in a process of its own, so `RetailSpec` is the conjunction of the five
specifications. `ShopifySearch` has the four shops that ask the same channels, with their
differences in what a failure means and how a product becomes rows. An offer's price may
be missing or unreadable; perfumemarket then takes the price of the product or of the page,
beside the stock of the first offer. A reply that cannot be read is neither an answer nor
a failure (`heard`).

### FamilyMatcher, ProductMatcher

A text is a sequence of words, and normalisation removes words, which is what it does to
the words that matter (labels, concentrations, brands, noise of URLs). The registry and
the catalogue are constants; the answers are compared with what a search over the whole
catalogue would give. What Python computes by going through a list or a set is stated by
what comes out: the first of the sibling families with the longest alias, the best of an
order. Only the two searches that keep a best so far (`UrlBest`, `BestOf`) are functions
on positions, since "higher, or nearly as high and more specific" depends on the order.
The definitions were compared with the Python class on the 690 pairs of offers and
queries of the MC instance, rebuilt as a registry and a catalogue of its format, with the
same answer in every case, once with the code's threshold for selective words and once
with the instance's.

### Phase0Jobs

A call of the job table is one step and may find the database locked. The heartbeat is a
thread: a beat is read from the worker's counter, and written later. `beat` is the age
of `heartbeat_at`; a job whose beat is too old is failed by the next worker that polls,
also when its worker is only slow.

## 3. Runs

| Run | Instance | Checks |
|---|---|---|
| `lease` | 1 page, 2 slots, lease 1, delays 1 and 2 | `LiveLeaseIsKept`, `LateWorkerChangesNothing` |
| `unleased` | 1 page of Deloox, 1 slot, 1 unleased thread | `QueueInv`, `DoneHasOffer`, `DeadIsRevivedByHand` |
| `store` | 2 pages of one store with cap 1, one a navigation page | `StoreCapInv` |
| `catalogue` | parts lock, frontier, runs, search, refresh | `RefreshInv`, `PriceIsAsOldAsItsRow`, `PriceChangesByObservation`, `LockInv`, `LockIsATurn`, `FrontierInv`, `FrontierIsLeased`, `ExpandedBeforeDone`, `RunsInv`, `OmittedUrlsStay`, `RecoveryKeepsResults`, `JobsInv`, `CompletedStoresFrozen` |
| `catalogue_live` | parts lock, frontier, runs, hydration, fair | `NeverStranded`, `WaitEnds`, `FrontierRecovers`, `QueriesAreRotated`, `StatusSettles` |
| `web` | parts search, control, coverage, family, phase0, fair | `ControlInv`, `CoverageInv`, `FamilyInv`, `Phase0Inv`, `PollingEnds`, `LoopsGetStarted`, `SearchEndsScrapers`, `StoresAreVisited`, `FamiliesAreSearched`, `BaselinesEnd` |
| `offers` | parts lanes, index, five of retailers, merge, matcher | `LanesInv`, `IndexInv`, `RetailInv`, `MergeInv`, `MatcherInv`, `StoresKeepPromise` |
| `boot` | 1 page, 1 slot, fair | `NeverStrandedAfterRestart`, violated |
| `error_race` | 2 threads, 1 page | `ErrorNeverReplacesOffer`, violated |
| `zero_price` | 1 thread, 1 page | `VerifiedPriceIsKept`, violated |
| `write_in_search` | as `web` | `NoWriteStartsInSearch`, violated |
| `registered_names` | as `offers` | `RegisteredNamesResolve`, violated |

`MCCatalogue`, `MCWeb` and `MCOffers` hold several components that share no variable.
A behaviour is one of a single part, chosen at the start by the variable `part`; the
others keep their initial state, so the state spaces add up. A property that would be
false of a part at rest (that something happens again and again, say) is stated for the
behaviours of its part.

### What the instances are, and why they are enough

* *Refresh and queue.* Every property but the cap speaks of one page, and pages interact
  only through the claim and the loop: one page with two threads has every interleaving
  of a late writer and a holder. A lease of one tick already runs out at every point of
  a fetch, a delay of two ticks leaves a row waiting across a sweep, and
  `PricedFresh = 3`, `MissingFresh = 1` separate fresh, stale without a price and
  stale. The cap needs two pages of one store and, with cap 1, is exceeded by one claim
  too many. `lease`, `unleased` and `store` leave out outcomes that the queue does not
  tell apart; the refresh part of `catalogue` has all eight. `unleased` has a page that all
  writers of the queue reach, and a refresh that overlaps the worker's: the race below
  hides the item of a DONE page behind an error row, which `DoneHasOffer` admits, and a
  DONE page that never had one it does not.
* *Lock.* Three connections, two of the web process and one of the family process: two
  that compete inside a process, one outside, and a third that waits while the others
  hand over. Patience of one tick: a deadline that passes at any moment of a wait.
* *Frontier.* Two overlapping runs on two pages that link to each other and one of which
  is a seed: a late finish, a sweep, a re-seed, a revisit and a takeover, at depths 0
  and 1, with a lease of one tick and two tries, so that DEAD is reached.
* *Discovery runs.* Two callers on one store, one reporting its errors and one not, two
  urls, one url per chunk: a run is interrupted by the other between its chunks. The
  store has the peculiarities of three: Notino's feed, Easycosmetic's market and Deloox's
  graph, and the second url is what both of the latter sort out. In `catalogue_live` it
  has none of them.
* *Search jobs.* Two jobs, which is the handshake of one request with another's job; a
  client's requests follow each other, `HandshakeInv` for any clients is a theorem.
* *Coverage.* Three tasks - preferred, without scraper, orphan - with batches of two and
  a pool of one, so that one task waits in the pool while another runs.
* *Loop and family.* Four stores (Notino, Deloox and two others): the smallest number
  with a rotation between two visits of Deloox. Two families, one with two queries.
* *Baselines.* A job of the older scope, queued or running, a smoke job, and two workers,
  each stopped and started at any point: both peek at one job, and one takes the other's
  job for dead while it is only slow and completes it later.
* *Lanes.* Two stores in a lane with one permit: one waits for the other.
* *Index.* One page of each kind of store; one of them changes in a behaviour, because
  nothing relates two pages but the rebuild, which takes them all in one statement. The
  page without special rules changes under two processes whose every statement may be
  refused, without searches; the others under the web process, with them.
* *Retailers.* Two product pages (one of which holds every word of the query), two
  endpoints, three search surfaces of which two have one rank, three result pages, two
  sitemaps; every page the extraction distinguishes.
* *Merge.* Lists of up to three of 22 rows: two that may be taken for each other and a third.
* *Matcher.* A registry of four families and a catalogue of nine products, cut from
  the backend's own, with names that hold each other, siblings, exclusions and
  concentrations; 46 offers and 15 queries. A word is selective in up to two products, so
  that "dark" is not, and offers with and without such a word occur.

The counters that have no bound in the code and one here are `MaxJobs` (resyncs of a
kind), `MaxRows` (rows of a worker), `MaxOffers`, `ShVariants`, `DxSearchPages` and
the saturating ages and attempts.

### Fairness

Nothing is assumed of users, retailers or workers. Each formula names what the code or
its host schedules:

* `QueueFairness`: the loop thread is scheduled (bounded SQLite timeouts, and every
  exception inside the loop is caught), a search ends (it has a deadline), a killed
  process is restarted, time passes. A page may hang for ever.
* `LockFairness`: the clock, and a waiting connection's poll. Nothing of the holder, so
  `WaitEnds` holds because of the deadline.
* `FrontierFairness`: a run's steps have time-outs; the three transactions of its prelude
  are not refused, nor the process killed in front of them, every single time.
* `RunsFairness(scheduler)`: the discovery loop alone comes back to every store, and at
  some point nobody kills it any more.
* `JobsFairness`: the client of a job polls, time passes. Nothing of the job's thread:
  `PollingEnds` is the watchdog's work.
* `ControlFairness`: the bootstrap thread is scheduled, and `sync_all` does not raise
  every time. `LoopsGetStarted` excepts the process in which it raised: nothing tries
  again there.
* `CoverageFairness`: a scraper's process is polled.
* `LoopFairness`, `FamilyFairness`: users do not search without a pause for ever, and a
  poll falls into a pause, strongly fair; at some point there is no stop or crash.
* `Phase0Fairness`: a container that ends is started again and is not stopped for ever,
  an export has its time-out, and the polls are not refused every time.

Every property of a passing run has a mutant (`PROJECT.json`; the operators that stand
before their originals, `...OverCap`, `...AnyToken` and the like): a plausible slip in
that code which TLC finds under the same configuration. They belong to no
specification.

## 4. Where the code departs from what it says

Checked by a run:

* `boot`: `catalog_hydration_loop` runs its boot calls outside its `try`
  (`backend/catalog_engine.py:7130-7132`), and `_start_catalog_hydration` never
  resets its started flag (`backend/main.py:444-449`). One busy database at boot ends
  the only thread that sweeps, against line 5766: "A worker crash/restart must never
  strand a URL forever."
* `error_race`: the except branch decides from a `SELECT` that may be stale when its
  upsert runs (`4567-4579`), against line 4563: "Do not replace a previously
  successful offer with a transient timeout/parser/SQLite error." A DONE page hidden
  this way is not requeued as stale either, because the requeue wants
  `fetch_status='OK'`.
* `zero_price`: `WHEN excluded.price IS NOT NULL` (`4521`) lets a parsed 0.0 erase a
  verified price, against line 4516: "A transient/incomplete parse must not erase a
  previously verified product price."
* `write_in_search`: `_active_catalog_writer` looks for names in `/proc` that search
  threads do not have on Python 3.12, so the family process starts its write during a
  search (`backend/catalog_family_coverage.py:122`), against its line 140.
* `registered_names`: the name of an offer is looked up without its concentration among
  aliases that keep theirs (`backend/product_matcher.py:1107`), against lines 1148 and
  1045. In the repository's registry it concerns nine names of Versace Eros.

Stated in the modules, each with the sentence it contradicts and found by TLC in the same
instances, but not kept as runs:

* `LockHasAHolder` (`WriterLock`): a caller that closes outside a `finally`
  (`backend/catalog_engine.py:3283-3294`, `7282-7320`) leaves the lock to a descriptor
  nobody refers to.
* `DeadWasRetried` (`DiscoveryFrontier`): attempts are counted at every claim and never
  reset (`2225`), so a page crawled often enough is DEAD at its first failure.
* `OnlyDeadRunsAreClosed` (`DiscoveryRuns`): the time-out bounds the crawl and not the
  transactions after it; the recovery may close a live run.
* `SlotIsReleased`, `OneSearchAtATime` (`SearchJobs`): a job whose thread could not be
  started is known to nobody and blocks the slot; two requests that pass the handshake
  together each start a search. The second needs a second client, which the instance of
  `catalogue` does not have.
* `FailedSearchIsNotAbsence`, `CancelIsNotAbsence` (`StoreLanes`): a catalogue search that
  raised is a verified `no_match` of every indexed store, and so is a store whose thread the
  cancel event stopped before its match (`backend/main.py:2338-2340`, `2359-2364`), against
  lines 1902-1903: "technical failures can never become absence".
* `IndexesAreLossless` (`ProductMatcher`): once an offer has a word of at most
  `max(64, n // 50)` products, the products of its more frequent words are no candidates
  (`backend/product_matcher.py:2855-2864`, `2933-2940`), against line 2755: "Candidate
  generation is indexed and lossless for the acceptance rules". TLC's offer is "dark wood
  oud" of a brand that has a perfume "dark": a comparison with every product says "dark",
  which is a phrase of the name, and the index says "dark wood". The class does the same
  on a catalogue with 71 names that begin with one word. In the repository's catalogue no
  such word of four letters or more is the whole name of a product, and `IndexesLoseNothing`, the same statement for
  offers without a too frequent word, is a theorem.
* `PerfumesStay` (`OfferMerge`): offers are deduplicated before they are grouped
  (`backend/main.py:2984`, `4837`), so two perfumes of Easycosmetic at one price and name
  are one.
* `ZeroIsFinal` (`ParfumzentrumSearch`), `FailedPagesAreNotAbsence` (`DelooxSearch`),
  `OutageIsNotAbsence` (`ShopifySearch`): absence reported after the shop said something
  else, or nothing, against `backend/main.py:1902-1903`. Bplatz may verify it when every
  channel failed, ParfumCity (`scraper.py:206-209`, `263`, `340`) when all it got are
  responses that are no JSON, which it records as errors.
* `PollHidesNothing` (`OfferMerge`): an offer in a published group may be missing from every
  poll, because its URL states another concentration than the catalogue's name
  (`backend/main.py:2702-2716`) and its own title (`1643`) none.
* Deloox's search surface is "selected deterministically instead of depending on which
  HTTP request happens to finish first" (`scraper.py:988-990`), but three surfaces have rank
  2 and eight rank 3, and a stable sort of the answers leaves those in the order of their
  completion (`AskSurfaces`). No property depends on which one is taken.
* `IndexIsSynchronised` (`SearchIndex`): a database that is busy between the fill and the
  triggers (`backend/catalog_engine.py:527-528`, `Impatient`) leaves a process that writes
  pages past the index, and of two processes that open the catalogue together the later
  one may empty the index of the other and be killed, against line 532: "Keep the FTS
  candidate index synchronized with catalog mutations". The version is recorded by then, so no
  later opening fills the index again.

Seen while modelling, and visible in the definitions: a partial-crawl guard rejects a
catalogue that really shrank for as long as it is smaller (`1259`); an exception in a
resync leaves `DISCOVERY_RUNNING` until the recovery; `PROCESSING`, `ERROR` and `FOUND` rows
of the coverage are never claimed again, and orphaned tasks block the head of its queue
(`6895-6950`); `_CATALOG_BOOTSTRAP_ERROR` is never cleared; stale price repairs never
start from a search job; the matcher's index by identity is keyed without the
concentration it is asked with (`backend/product_matcher.py:579`, `1561`), and its prefilter
may drop the right product of a row without brand (`2797`); Sabina's weak candidates are
dropped when the sitemap is used; Bplatz shows the first price with the last stock.

## 5. Proofs

The theorems, by module, and what they assume:

| Module | Theorems | For any |
|---|---|---|
| `HydrationQueueProofs` | `RefreshTypeCorrect`, `ServedPriceHasItsAge`, `PriceOnlyByObservation` | threads, pages, outcomes, positive and ordered windows |
| | `QueueInvariant`, `StoreCapHolds`, `LeaseOfOwnerOnly`, `DeadOnlyByHand`, `LateWorkerIsHarmless`, `DoneMeansOffer` | finite `Pages`, stores, workers, positive cap and lease, delays in `Nat` |
| `WriterLockProofs` | `LockInvariant`, `LockImplementsMutex` | connections and processes |
| `SearchJobsProofs` | `JobsInvariant`, `StoresFreeze` | clients, jobs, shops |
| `LocalSearchProofs` | `LanesInvariant` | finite stores, lanes, positive permits, rows of a worker |
| | `OneRepairPerPage`, `IndexInvariant`, `IndexWholeAlone` | pages, kinds of stores, processes, those whose statements fail; `IndexWholeAlone` one process |
| `RetailerProofs` | `PzInvariant`, `DxInvariant`, `SbInvariant`, `EcInvariant`, `ShInvariant`, `RetailersSafe`, `RetailersKeepPromise` | pages, what the shops list and their sitemaps hold, surfaces, endpoints, result pages, variants of a product |
| `DiscoveryProofs` | `FrontierInvariant`, `FrontierImplementsLease`, `DoneWasExpanded` | finite `Nodes`, runs, links, depths, leases |
| | `RunsInvariant`, `OmittedStay`, `RecoveryKeeps` | callers, stores, finite `Urls`, markets, chunk size, thresholds of the guard |
| `BackgroundProofs` | `CoverageInvariant`, `ControlInvariant`, `FamilyInvariant` | finite `Tasks`, batch and pool sizes; job bound; number of stores, families, aliases, retries |
| | `Phase0Invariant` | workers, jobs, stores |
| `OfferProofs` | `MergeInvariant` | rows, length of the list |
| | `MatcherInvariant` | registry, catalogue, offers, queries, threshold; finitely many aliases of a variant and a product |

The assumptions are the named `ASSUME`s of the modules, which TLC evaluates in every run.

**Refresh.** `RefreshInv` is types, `TaskOK` (a thread about to write knows what it saw), "a
missing row has no price", and `PriceIsAsOldAsItsRow`. The price statement is not
inductive by itself: `Merged` keeps an old price under an old timestamp only because a
row that is not there has no price to keep, and because the parse about to be committed
has a known outcome. There is one lemma per action.

**Queue.** `QueueInv` adds the types of the queue, `StoreCapInv`, and "a row in flight was
due" (`wait = 0`), which `LiveLeaseIsKept` needs: a tick must change nothing of a leased
row but its lease. For the cap: every action other than `Claim` only lets rows leave
PROCESSING (`QueueKept`), so the rows in flight of a store are a subset of what they
were; `Claim` adds one to a set it has just counted below the cap, after a sweep that can
only make it smaller.

`LateWorkerIsHarmless` needs only the type of the queue: a row that is not PROCESSING
with the worker's token is kept by every one of its writes (one lemma per action).
`DoneMeansOffer` needs what the threads know (`Truthful`): what a thread that is about to
report success has committed is still there. No other thread can take it back: the
success of another refresh stores an item again, and its error replaces the row only with
`hidden` set. So "OK or hidden" is monotone, and the theorem needs no hypothesis on how
many threads refresh a page. Pages of `Navigation` are excepted: the clean-up closes them.
`DeadOnlyByHand` goes through the writers one by one; of those that reach a dead row
only the two for operators revive it, and they set its attempts to zero.

**Lock.** `LockInv` is inductive once it says what each connection believes (`LockBelief`): the
descriptor is there exactly when the lock is, a waiting connection has none, one under
execution has one. The refinement maps a lock held by a process to the lost turn of
`WriterMutex`; each action is a turn's step or leaves `flock` alone.

**Frontier.** The finishing statements test the token and not the state, so that they are
harmless rests on `TokenMeansProcessing`: all four ways out of PROCESSING forget the token.
`FrontierImplementsLease` also needs that a run keeps each listing in one place, its
batch or its page, or a late finish could give back a page twice; that is
part of the inductive `FrontierIInv`. `DoneWasExpanded` strengthens it once more: a run
whose page is persisted has already put every link it kept of it into the frontier, and
no other step removes a row or makes it deeper.

**Search jobs.** The inductive invariant relates a job's flags to the place of its thread:
`done` is set after `completed` in every order of cancel, watchdog and finalisation; a
status that says complete was chosen by a thread that saw no cancel after its collection.

**Lanes.** `PermitsAddUp` is inductive with the place of each holder: a permit is held from
the first attempt to the report, and nowhere else. The count changes by one store that
takes or gives (a lemma on cardinalities). That `no_match` is a verified success without
a kept row goes back to the worker: a status line "success, verified", in the pipe or
read, is that of a process that printed it and was not killed (`WorkerOK`). That every store
is reported, and that a store is not reported absent over a page that waits for its
refresh, or over a match unless the search is cancelled, rests on where the threads are
at each stage of the search (`StageOK`, `ReturnedOK`).

**Index.** The rebuild leaves the index without triggers, without rows and without a
version between its statements, and a process may be killed or refused at each.
`WholeIInv` says that until the version is recorded nobody installs triggers, so that
the table a rebuild has dropped stays empty until its fill, and that from then on a row is
lost only by a rebuild that began before: a page is findable or was last written while a
trigger was missing. A process that got through its opening has both triggers unless it
was overtaken, so such a write needs a process that went on after a failure. Nothing is
assumed of the processes or the host. What remains is what the code does not prevent
(`IndexIsSynchronised`, section 4); `IndexWholeAlone` shows that overtaking needs a second process.
`OneRepairPerPage` (no two repair threads of a kind for a page) does not rest on the index.

**Retailers.** One predicate per module (`PzOK`, `DxOK`, `SbOK`, `EcOK`, `ShOK`) says what a
search knows at each of its places: while it asks, no answer is out and no blank query was
heard; rows imply that a source has answered; a row is of a page that was fetched.
For each action one lemma proves both that the predicate is kept and that the action is a
step of `StoreSearch`, which is the refinement. The extraction functions have lemmas of
their own (`PublicPriceOK`, `SelectOfferOK`, `EcRowOK`, `ShopRowsOK`), so that what a row
shows holds for every page the functions can be given. Easycosmetic: a failed fetch leaves an
error behind that nothing removes, so an empty answer without errors heard no failure.
Deloox: a discovery without candidates is technical exactly if no surface answered, so an
empty result is verified after the answer of a surface or after asking for each candidate.
Shopify: perfumemarket lists a URL once because only its last channel brings candidates,
and those it adds have no row; `bplatz` is excepted from rows of one variant and from
the promise, and parfumcity's promise counts every response as an answer (section 4): the
statements say so.

**Baselines.** `Phase0Inv` is not inductive. What a worker may conclude from the row it has
read rests on the row's history: a job it holds was claimed by it and is never queued
again, a beat is in flight only while its job is exporting or ending, `ok` of an
export implies the file and all the stores, and once a worker is up no job of the older
scope is queued (`EnsureSchema` closed them).

**Discovery runs.** That what a run has persisted stays active is not inductive without what
a store's catalogue is for: a run that is saving has only urls of its store's own market
left, and neither the rejection of a crawl nor the sorting out of foreign urls nor
Deloox's clean-up, by whichever run, retires a product of it (`OwnProducts`). In the graph
a run has persisted all it has found, because it enters it with nothing found.
`OmittedStay` is that fact for every step, `RecoveryKeeps` rests on the state that the
recovery's update tests again.

**Background.** Coverage: the state of a row follows its job. A row in flight is in the
batch or was lost by a fault, a job that says FOUND has saved its urls, and when a batch
has failed every row of it is lost. Control: a kind either has no worker, or exactly that of the job it shows
as running, so the start of another finds it. Loop and family: `since` is the true number
of visits since Deloox once the two first visits are done, so the choice for Deloox comes at two
and not before; a family process that is at work is at one of its families.

**Lists and recursion.** What `OfferProofs` says of recursive definitions is proved without an
induction scheme: the numbers that are an exception to a claim have a least one
(`SmallestOf`, from the well-foundedness of the naturals), which gives `Climb`, the step from
each number to the next as a statement about a set. `RecursionExists` and `KernelExists`
show that the functions the modules define by recursion exist, so their equations may be
used; `NthExists` and `PickedFacts` that a list comprehension has exactly the chosen elements,
in their order.

**Merge.** `MergeIInv` says that every part of the job's merge is computed from the offers
collected: `kept` is `Deduped(offers)`, `groups` the groups of `kept`, `shown` what the
poll's filter leaves of each, in its order (`SafeFacts`). `MergeInv` follows from the
operators: `DedupedFacts` (what is dropped is the same as something kept; what is kept is
pairwise not the same, so that a second dedupe keeps it all), `ByPriceFacts` (the sort is a
permutation in ascending order), `PublicTyped` (the link of a Sabina offer), and `SameStays`,
which says what two equal keys or fingerprints have in common.

**Matcher.** A row is matched in one step, so `MatcherIInv` only says that the answer is one of
`Answers`; the proof is about the operators. The variant of a family comes from one of seven
readings or from the URL, and each takes it from the eligible ones (`ReadNameFacts`,
`UrlBestFacts`), hence `AudienceIsKept`. For `SiblingsStayApart` the family that
answers is the queried one only if no sibling knows the offer (`FamilyChosen`). For
`IndexesLoseNothing` a product outside the postings shares no word with the row, so its
score is at most 450 by name and 0 by URL (`TextScoreFacts`, `UrlScoreFacts`); such products
may lead for a while in the search for the best, and whatever order they come in, the
result is the same or below all thresholds with and without them (`PickAmongMore`,
`DecideAmongMore`). That argument needs the gap between the thresholds (860 and 720) and
what two scores may differ by to count as equal (30).

Only model-checked is liveness, which this prover cannot do under fairness: `NeverStranded`,
`WaitEnds`, `FrontierRecovers`, `QueriesAreRotated`, `StatusSettles`, `PollingEnds`,
`LoopsGetStarted`, `SearchEndsScrapers`, `StoresAreVisited`, `FamiliesAreSearched` and
`BaselinesEnd`. Every invariant, action property and refinement of a passing run is a theorem.

## 6. Not modelled, and the plan

Left, in the order of importance:

1. Sabina's variant rows as a second source of price and staleness in `ProductRefresh`.
2. The Notino retailer module: a browser session with retries; `StoreLanes` has its
   live attempt as one more worker.
3. `OfferRefreshScheduler`: the rotation of the offer refresh worker
   (`backend/offer_engine`).
4. The ingestion (`backend/app`): staging, matching and promotion under PostgreSQL's
   constraints.
5. Starvation between the stores of the hydration queue, whose claim and requeue share
   one rotation cursor.

Left out for good: the ranking of candidates and the wording of texts; `match_offer` and
the query scope of the matcher, which a search of `backend/main.py` does not use; the
next engine (stateless transformation of names and sizes); a database in memory, which
takes no lock; `_LOCAL_SEARCH_INDEX_CACHE`, which nothing fills; the family process's
status file, which nothing reads back; operator scripts, migrations, workflows and the
frontend; the jitter of retries, diagnostics, and the Bplatz phase-2 branch that skips the
SQLite tables altogether.
