--------------------------- MODULE ProductRefresh ---------------------------
(***************************************************************************)
(* refresh_url(store, url) of backend/catalog_engine.py: one thread fetches *)
(* a retailer's product page, parses it, and writes what it saw into        *)
(* store_urls and store_products.  Nothing serialises two refreshes of the  *)
(* same page: a hydration worker, a late worker whose lease has run out, a  *)
(* foreground refresh_candidates thread, a background repair and an         *)
(* operator endpoint may all be inside refresh_url for one url.             *)
(*                                                                          *)
(* The SQLite writer is serialised, so a `with conn:` block is one step;    *)
(* everything between two transactions is a step boundary.                  *)
(*                                                                          *)
(* Time is counted in ticks of an abstract unit.  A fetched_at timestamp is *)
(* represented by its age, capped at PricedFresh: every reader of the       *)
(* column only compares the age with the 24 h and 6 h freshness windows.    *)
(***************************************************************************)
EXTENDS Integers

CONSTANTS
  Pages,        \* the (store, url) pairs: primary keys of both tables
  Workers,      \* hydration threads: they report the outcome to the queue
  Refreshers,   \* threads that call refresh_url directly, without a lease
  PricedFresh,  \* 24 h: how long a priced offer is fresh
  MissingFresh, \* 6 h (_MISSING_PRICE_RETRY_SECONDS): same, without a price
  Yields,       \* what fetching a page can end in, in this instance
  NoPage,       \* the page of an idle thread
  NoPrice       \* price IS NULL OR price <= 0

\* What a page can yield: an item with a name ...
Offers == {"priced", "soldout", "soldout_priced"}
Parses == Offers \cup {"nameonly", "zero"}
\* ... or an exception: a timeout, 5xx or parser miss; HTTP 404/410;
\* ParfumZentrum's placeholder price.
Failures == {"transient", "gone", "placeholder"}

ASSUME YieldsAssumption == Yields \subseteq Parses \cup Failures

ASSUME WindowsAssumption ==
  /\ PricedFresh \in Nat \ {0}
  /\ MissingFresh \in 1 .. PricedFresh

ASSUME NamesAssumption ==
  /\ Workers \cap Refreshers = {}
  /\ NoPage \notin Pages
  /\ NoPrice \notin Nat

Threads == Workers \cup Refreshers
Ages == 0 .. PricedFresh

VARIABLES
  storeUrl,  \* store_urls: "none", or the active flag of the page's row
  product,   \* store_products, one row per page
  lastError, \* _LAST_REFRESH_ERRORS, shared by every thread of the process
  task       \* the refresh each thread is carrying out

refreshVars == <<storeUrl, product, lastError, task>>

(***************************************************************************)
(* A stored price is represented by the age of the observation it was read  *)
(* from, so that "the price is as old as the row says" can be stated.       *)
(***************************************************************************)
UrlStates == {"none", "active", "retired"}
\* fetch_status is NONE without a row, OK, or the text of the recorded failure.
\* hidden is a history field: the failure on record has replaced an OK row.
ProductRow == [status : {"NONE", "OK"} \cup Failures,
               price  : Ages \cup {NoPrice},
               age    : Ages,
               hidden : BOOLEAN]
NoProduct == [status |-> "NONE", price |-> NoPrice, age |-> 0, hidden |-> FALSE]

\* "escaped": an SQLite error that left refresh_url itself.
Outcomes == Parses \cup Failures \cup {"escaped"}

Phases == {"idle", "held", "fetching", "parsed", "committed",
           "raised", "writing", "returned", "reporting"}
Task == [phase : Phases,
         page  : Pages \cup {NoPage},
         seen  : Outcomes \cup {"nothing"},
         age   : Ages,       \* age of the parsed item (its fetched_at)
         good  : BOOLEAN]    \* has_good_offer, once it has been read
IdleTask == [phase |-> "idle", page |-> NoPage, seen |-> "nothing",
             age |-> 0, good |-> FALSE]
TaskAt(phase, p) == [IdleTask EXCEPT !.phase = phase, !.page = p]

TypeOKRefresh ==
  /\ storeUrl \in [Pages -> UrlStates]
  /\ product \in [Pages -> ProductRow]
  /\ lastError \in [Pages -> Failures \cup {"none"}]
  /\ task \in [Threads -> Task]

InitRefresh ==
  /\ storeUrl \in [Pages -> {"none", "active"}]
  /\ product = [p \in Pages |-> NoProduct]
  /\ lastError = [p \in Pages |-> "none"]
  /\ task = [t \in Threads |-> IdleTask]

-----------------------------------------------------------------------------
FreshFor(row) == IF row.price = NoPrice THEN MissingFresh ELSE PricedFresh

\* Mutation of Fresh: fetch_status is not looked at.
FreshAnyStatus(row) == row.age < FreshFor(row)

\* The freshness test repeated in every queue statement: fetch_status='OK' and
\* fetched_at inside the window that applies to the row.
Fresh(row) == row.status = "OK" /\ row.age < FreshFor(row)
Stale(row) == row.status = "OK" /\ row.age >= FreshFor(row)

Older(age) == IF age < PricedFresh THEN age + 1 ELSE age
AgedRow(row) ==
  [status |-> row.status,
   price  |-> IF row.price = NoPrice THEN NoPrice ELSE Older(row.price),
   age    |-> IF row.status = "NONE" THEN 0 ELSE Older(row.age),
   hidden |-> row.hidden]
AgedTask(k) == IF k.phase = "parsed" THEN [k EXCEPT !.age = Older(k.age)] ELSE k

\* One unit of wall-clock time passes.
AgeEverything ==
  /\ product' = [p \in Pages |-> AgedRow(product[p])]
  /\ task' = [t \in Threads |-> AgedTask(task[t])]
  /\ UNCHANGED <<storeUrl, lastError>>

\* A worker still has to report the outcome to the queue; another caller of
\* refresh_url just gets the value back.
Returned(t, k) == IF t \in Workers THEN [k EXCEPT !.phase = "returned"] ELSE IdleTask

-----------------------------------------------------------------------------
\* A thread without a lease enters refresh_url for any page.
StartRefresh(r, p) ==
  /\ task[r].phase = "idle"
  /\ task' = [task EXCEPT ![r] = TaskAt("fetching", p)]
  /\ UNCHANGED <<storeUrl, product, lastError>>

\* http_get and the parsers produced an item with a name, stamped fetched_at.
Parse(t) ==
  /\ task[t].phase = "fetching"
  /\ \E seen \in Parses \cap Yields :
       task' = [task EXCEPT ![t].phase = "parsed", ![t].seen = seen]
  /\ UNCHANGED <<storeUrl, product, lastError>>

\* Mutation of Merged: every item renews fetched_at.
MergedFreshens(row, seen, age) ==
  [status |-> "OK",
   price  |-> CASE seen \in {"priced", "soldout_priced"} -> age
                [] seen = "nameonly" -> row.price
                [] OTHER -> NoPrice,
   age    |-> age,
   hidden |-> FALSE]

\* The item replaces the stored row; the CASE expressions of the UPSERT decide
\* which columns survive.  A page without a row takes the item as it is.
Merged(row, seen, age) ==
  [status |-> IF seen # "nameonly" \/ row.status = "NONE" THEN "OK" ELSE row.status,
   price  |-> CASE seen = "priced" -> age
                [] seen = "soldout_priced" -> IF row.status = "NONE" THEN age ELSE NoPrice
                [] seen = "nameonly" -> row.price
                [] OTHER -> NoPrice,
   age    |-> IF seen # "nameonly" \/ row.status = "NONE" THEN age ELSE row.age,
   hidden |-> row.hidden /\ seen = "nameonly"]

\* The success transaction: the page becomes active and its row is merged.
Persist(t) ==
  LET k == task[t] IN
  /\ k.phase = "parsed"
  /\ storeUrl' = [storeUrl EXCEPT ![k.page] = "active"]
  /\ product' = [product EXCEPT ![k.page] = Merged(product[k.page], k.seen, k.age)]
  /\ task' = [task EXCEPT ![t].phase = "committed", ![t].age = 0]
  /\ UNCHANGED lastError

\* After the commit: the error note of the page is dropped and the item returned.
FinishRefresh(t) ==
  /\ task[t].phase = "committed"
  /\ lastError' = [lastError EXCEPT ![task[t].page] = "none"]
  /\ task' = [task EXCEPT ![t] = Returned(t, task[t])]
  /\ UNCHANGED <<storeUrl, product>>

\* The except branch is entered: the failure is noted for the page.  SQLite can
\* also refuse the success transaction, which rolls back and lands here.
RaiseWith(t, failure) ==
  /\ task' = [task EXCEPT ![t].phase = "raised", ![t].seen = failure, ![t].age = 0]
  /\ lastError' = [lastError EXCEPT ![task[t].page] = failure]
  /\ UNCHANGED <<storeUrl, product>>

FetchFails(t) ==
  /\ task[t].phase = "fetching"
  /\ \E failure \in Failures \cap Yields : RaiseWith(t, failure)

PersistFails(t) ==
  /\ task[t].phase = "parsed"
  /\ RaiseWith(t, "transient")

\* SELECT fetch_status: no transaction is open, so what is read may be stale by
\* the time it is used.
ReadOffer(t) ==
  /\ task[t].phase = "raised"
  /\ task' = [task EXCEPT ![t].phase = "writing",
                          ![t].good = (product[task[t].page].status = "OK")]
  /\ UNCHANGED <<storeUrl, product, lastError>>

\* Mutation of WriteError: INSERT OR REPLACE drops the columns it does not name.
WriteErrorClears(t) ==
  LET k == task[t] IN
  /\ k.phase = "writing"
  /\ product' = IF k.good THEN product
                ELSE [product EXCEPT ![k.page] = [NoProduct EXCEPT !.status = k.seen]]
  /\ storeUrl' = IF k.seen = "placeholder" /\ storeUrl[k.page] # "none"
                 THEN [storeUrl EXCEPT ![k.page] = "retired"] ELSE storeUrl
  /\ task' = [task EXCEPT ![t] = Returned(t, [k EXCEPT !.good = FALSE])]
  /\ UNCHANGED lastError

\* The error transaction: an ERROR row unless a good offer was read, and a
\* placeholder page is retired.
WriteError(t) ==
  LET k == task[t] IN
  /\ k.phase = "writing"
  /\ product' = IF k.good THEN product
                ELSE [product EXCEPT ![k.page].status = k.seen, ![k.page].age = 0,
                                     ![k.page].hidden = @ \/ product[k.page].status = "OK"]
  /\ storeUrl' = IF k.seen = "placeholder" /\ storeUrl[k.page] # "none"
                 THEN [storeUrl EXCEPT ![k.page] = "retired"] ELSE storeUrl
  /\ task' = [task EXCEPT ![t] = Returned(t, [k EXCEPT !.good = FALSE])]
  /\ UNCHANGED lastError

\* Mutation of ErrorWriteFails: the escaping error is noted as if it were the page's.
ErrorWriteFailsNoted(t) ==
  /\ task[t].phase \in {"raised", "writing"}
  /\ task' = [task EXCEPT ![t] =
       Returned(t, [task[t] EXCEPT !.seen = "escaped", !.good = FALSE])]
  /\ lastError' = [lastError EXCEPT ![task[t].page] = "escaped"]
  /\ UNCHANGED <<storeUrl, product>>

\* The connection or the write of the except branch fails: the exception leaves
\* refresh_url.
ErrorWriteFails(t) ==
  /\ task[t].phase \in {"raised", "writing"}
  /\ task' = [task EXCEPT ![t] =
       Returned(t, [task[t] EXCEPT !.seen = "escaped", !.good = FALSE])]
  /\ UNCHANGED <<storeUrl, product, lastError>>

RefreshStep(t) ==
  \/ Parse(t) \/ Persist(t) \/ FinishRefresh(t)
  \/ FetchFails(t) \/ PersistFails(t)
  \/ ReadOffer(t) \/ WriteError(t) \/ ErrorWriteFails(t)

-----------------------------------------------------------------------------
(***************************************************************************)
(* refresh_url on its own: any number of unleased callers.                  *)
(***************************************************************************)
NextRefresh ==
  \/ AgeEverything
  \/ \E r \in Refreshers : \/ \E p \in Pages : StartRefresh(r, p)
                           \/ RefreshStep(r)

SpecRefresh == InitRefresh /\ [][NextRefresh]_refreshVars

\* A thread inside refresh_url works on a page, with an outcome that fits where it is.
TaskOK(k) ==
  /\ k.phase # "idle" => k.page \in Pages
  /\ k.phase \in {"parsed", "committed"} => k.seen \in Parses
  /\ k.phase \in {"raised", "writing"} => k.seen \in Failures
  /\ k.phase \in {"returned", "reporting"} => k.seen \in Outcomes

\* No price wears a timestamp newer than the observation it came from: as long
\* as the row is served (fetch_status OK), fetched_at is the time the stored
\* price was seen.  (refresh_url's CASE on fetched_at, and the docstring of
\* _hydrate_one_task: a retained price must not receive a fresh fetched_at.)
PriceIsAsOldAsItsRow ==
  \A p \in Pages :
    product[p].status = "OK" /\ product[p].price # NoPrice
      => product[p].price = product[p].age

\* The inductive invariant behind PriceIsAsOldAsItsRow: a missing row has no price,
\* and a thread that is about to write knows what it saw (types, and TaskOK).
RefreshInv ==
  /\ TypeOKRefresh
  /\ \A t \in Threads : TaskOK(task[t])
  /\ \A p \in Pages : product[p].status = "NONE" => product[p].price = NoPrice
  /\ PriceIsAsOldAsItsRow

\* A failed refresh never touches the stored price, and only an observation of
\* the page (a positive price, a zero price or a sold-out page) replaces it:
\* every change of a price is the commit of some thread's parse of that page.
PriceStep ==
  \A p \in Pages :
    product'[p].price # product[p].price =>
      \/ product'[p] = AgedRow(product[p])
      \/ \E t \in Threads :
           /\ task[t].page = p /\ task'[t].phase = "committed"
           /\ task[t].seen \in Offers \cup {"zero"}
PriceChangesByObservation == [][PriceStep]_refreshVars

\* "Do not replace a previously successful offer with a transient
\* timeout/parser/SQLite error": an OK row never turns into an error row.
ErrorNeverReplacesOffer ==
  [][\A p \in Pages : product[p].status = "OK" => product'[p].status = "OK"]_refreshVars

\* "A transient/incomplete parse must not erase a previously verified product
\* price": a positive price only gives way to a positive price or a sold-out page.
VerifiedPriceIsKept ==
  [][\A p \in Pages :
       product[p].price # NoPrice /\ product'[p].price = NoPrice =>
         \E t \in Threads : task[t].page = p /\ task[t].phase = "parsed"
                            /\ task[t].seen \in {"soldout", "soldout_priced"}]_refreshVars
=============================================================================
