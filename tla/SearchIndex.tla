----------------------------- MODULE SearchIndex -----------------------------
(* The persistent search index of backend/catalog_engine.py and the local      *)
(* search that reads it. catalog_search_fts has one row per active page, kept   *)
(* by triggers on store_urls and store_products; _ensure_search_fts creates it, *)
(* and rebuilds it when its schema version has changed, in statements that      *)
(* commit one by one up to the fill. Each process does so on its first          *)
(* connection, and goes on without the rest when a statement fails.             *)
(* search_local reads page and variant rows with two statements, and starts     *)
(* repairs of the rows it finds in threads of their own.                        *)
EXTENDS Naturals, FiniteSets

CONSTANTS
  IndexPages,
  Kind,        \* Kind[p]: "deloox", "parfumzentrum", "notino", "sabina",
               \* "easycosmetic" or "other": the store's rules for its rows
  Procs,       \* processes that open the catalogue: the web, family coverage
  Web,         \* the one that answers searches
  Impatient    \* those whose statements may fail for want of the lock

ASSUME IndexAssumption ==
  /\ Web \in Procs
  /\ \A p \in IndexPages :
       Kind[p] \in {"deloox", "parfumzentrum", "notino", "sabina", "easycosmetic", "other"}

VARIABLES
  stored,    \* store_urls, store_products and store_product_variants
  fts,       \* catalog_search_fts, its triggers and its recorded version
  opener,    \* how far each process is with _ensure_search_fts
  finder,    \* a search_local: the page it has read and how it shows it
  repairs,   \* the repair threads, and the two IN_FLIGHT sets
  lapses     \* history, read by no step: what has gone wrong with the index

indexVars == <<stored, fts, opener, finder, repairs, lapses>>

Avails == {"in_stock", "sold_out", "discontinued", "unknown", "variant_catalog"}
Prices == {"none", "placeholder", "implausible", "real"}
(* status: of the store_products row, "none" without one; due: its price is missing *)
(* or older than its refresh interval; variants: "fresh" and "stale" offers.        *)
PageRow == [url : {"none", "active", "inactive"}, status : {"none", "OK", "ERROR"},
            named : BOOLEAN, avail : Avails, price : Prices, due : BOOLEAN,
            sized : BOOLEAN, variants : SUBSET {"fresh", "stale"}]
NewPage == [url |-> "none", status |-> "none", named |-> FALSE, avail |-> "unknown",
            price |-> "none", due |-> TRUE, sized |-> FALSE, variants |-> {}]
NoSearch == [at |-> "idle", of |-> {}, shown |-> "none"]
NoRow == {}    \* the text of a page without a row
NoRepairs == [size |-> {}, stale |-> {},
              threads |-> [k \in {"size", "stale"} |-> [p \in IndexPages |-> 0]]]

IndexType ==
  /\ stored \in [IndexPages -> PageRow]
  /\ fts.row \in [IndexPages -> SUBSET {"slug", "name"}]
  /\ fts.table \in BOOLEAN /\ fts.current \in BOOLEAN
  /\ fts.triggers \subseteq {"urls", "products"}
  /\ opener \in [Procs -> {"down", "reading", "old", "untied", "bare", "gone", "empty",
                          "filled", "half", "ready"}]
  /\ finder.at \in {"idle", "page", "rows", "grace"} /\ finder.of \subseteq IndexPages
  /\ finder.shown \in {"none", "hidden", "refresh", "offer", "variants"}
  /\ repairs.size \subseteq IndexPages /\ repairs.stale \subseteq IndexPages
  /\ repairs.threads \in [{"size", "stale"} -> [IndexPages -> 0 .. 2]]
  /\ lapses.missed \subseteq IndexPages
  /\ lapses.refused \in BOOLEAN /\ lapses.overtaken \in BOOLEAN

(* A catalogue without an index, or with one of an earlier schema version. *)
IndexInit ==
  /\ stored = [p \in IndexPages |-> NewPage]
  /\ \E older \in BOOLEAN :
       fts = [row |-> [p \in IndexPages |-> NoRow], table |-> older, current |-> FALSE,
              triggers |-> IF older THEN {"urls", "products"} ELSE {}]
  /\ opener = [q \in Procs |-> "down"]
  /\ finder = NoSearch
  /\ repairs = NoRepairs
  /\ lapses = [missed |-> {}, refused |-> FALSE, overtaken |-> FALSE]

--------------------------------------------------------------------------------
(* The trigger of store_urls forgets the product. *)
TextOfSlug(r) == IF r.url = "active" THEN {"slug"} ELSE NoRow

(* The text of a row: slug, and name and brand of the product. The fill and the     *)
(* store_urls triggers take them of OK rows, the store_products triggers of any.     *)
TextOfUrl(r) ==
  IF r.url # "active" THEN NoRow
  ELSE {"slug"} \cup (IF r.status = "OK" /\ r.named THEN {"name"} ELSE {})
TextOfProduct(r) ==
  IF r.url # "active" THEN NoRow
  ELSE {"slug"} \cup (IF r.status # "none" /\ r.named THEN {"name"} ELSE {})

(* A write of one row of page p fires the trigger of its table, if it is there, and  *)
(* fails with it if the index table is not. missed: pages whose last write was not   *)
(* mirrored in an index of the current version.                                      *)
Write(p, r, table) ==
  /\ table \in fts.triggers => fts.table
  /\ stored' = [stored EXCEPT ![p] = r]
  /\ \/ /\ table \in fts.triggers
        /\ fts' = [fts EXCEPT !.row[p] = IF table = "urls" THEN TextOfUrl(r) ELSE TextOfProduct(r)]
        /\ lapses' = [lapses EXCEPT !.missed = @ \ {p}]
     \/ /\ table \notin fts.triggers
        /\ lapses' = [lapses EXCEPT !.missed = IF fts.current THEN @ \cup {p} ELSE @]
        /\ UNCHANGED fts

Writing == \E q \in Procs : opener[q] = "ready"

(* Discovery finds a page, or a page is retired, by store_urls. *)
WriteUrl(p) ==
  /\ Writing
  /\ \E url \in {"active", "inactive"} : Write(p, [stored[p] EXCEPT !.url = url], "urls")
  /\ UNCHANGED <<opener, finder, repairs>>

OfferRows(url) ==
  [url : {url}, status : {"OK"}, named : BOOLEAN, avail : Avails, price : Prices,
   due : BOOLEAN, sized : BOOLEAN, variants : SUBSET {"fresh", "stale"}]

(* A refresh: an offer, or an ERROR row, which replaces nothing but the status and  *)
(* is only written over a row that is not OK.                                        *)
WriteProduct(p) ==
  /\ Writing /\ stored[p].url # "none"
  /\ \/ \E r \in OfferRows(stored[p].url) :
          /\ r.avail = "variant_catalog" => Kind[p] = "notino"
          /\ r.variants # {} => Kind[p] \in {"notino", "sabina"}
          /\ r.sized => Kind[p] = "easycosmetic"
          /\ r.price \in {"placeholder", "implausible"} => Kind[p] = "parfumzentrum"
          /\ r.avail \in {"sold_out", "discontinued"} => Kind[p] = "deloox"
          /\ Write(p, r, "products")
     \/ stored[p].status # "OK" /\ Write(p, [stored[p] EXCEPT !.status = "ERROR"], "products")
  /\ UNCHANGED <<opener, finder, repairs>>

(* Time passes: the offer of p must be refreshed. *)
GrowsOld(p) ==
  /\ ~stored[p].due
  /\ stored' = [stored EXCEPT ![p].due = TRUE, ![p].variants = IF @ = {} THEN {} ELSE {"stale"}]
  /\ UNCHANGED <<fts, opener, finder, repairs, lapses>>

--------------------------------------------------------------------------------
(* _ensure_search_fts, on the first connection of a process. *)
Go(q, to) == opener' = [opener EXCEPT ![q] = to]

OpenCatalogue(q) ==
  /\ opener[q] = "down"
  /\ fts' = [fts EXCEPT !.table = TRUE]
  /\ Go(q, "reading")
  /\ UNCHANGED <<stored, finder, repairs, lapses>>

ReadVersion(q) ==
  /\ opener[q] = "reading"
  /\ Go(q, IF fts.current THEN "filled" ELSE "old")
  /\ UNCHANGED <<stored, fts, finder, repairs, lapses>>

(* The version was read before: another process may have rebuilt the index since. *)
Overtaken == lapses' = [lapses EXCEPT !.overtaken = @ \/ fts.current]

(* Those of store_urls, then those of store_products. *)
DropTriggers(q) ==
  /\ \/ /\ opener[q] = "old" /\ Go(q, "untied")
        /\ fts' = [fts EXCEPT !.triggers = @ \ {"urls"}]
     \/ /\ opener[q] = "untied" /\ Go(q, "bare")
        /\ fts' = [fts EXCEPT !.triggers = @ \ {"products"}]
  /\ Overtaken
  /\ UNCHANGED <<stored, finder, repairs>>

DropTable(q) ==
  /\ opener[q] = "bare"
  /\ fts' = [fts EXCEPT !.table = FALSE, !.row = [p \in IndexPages |-> NoRow]]
  /\ Go(q, "gone")
  /\ Overtaken
  /\ UNCHANGED <<stored, finder, repairs>>

(* Without IF NOT EXISTS: it fails if another process has created the table. *)
CreateTable(q) ==
  /\ opener[q] = "gone" /\ ~fts.table
  /\ fts' = [fts EXCEPT !.table = TRUE]
  /\ Go(q, "empty")
  /\ UNCHANGED <<stored, finder, repairs, lapses>>

(* INSERT ... SELECT and the version, in one transaction. What is in the table stays. *)
Fill(q) ==
  /\ opener[q] = "empty" /\ fts.table
  /\ fts' = [fts EXCEPT !.row = [p \in IndexPages |-> @[p] \cup TextOfUrl(stored[p])],
                        !.current = TRUE]
  /\ Go(q, "filled")
  /\ UNCHANGED <<stored, finder, repairs, lapses>>

(* _ensure_search_fts_triggers: those of store_urls, then those of store_products. *)
InstallTriggers(q) ==
  /\ \/ /\ opener[q] = "filled" /\ Go(q, "half")
        /\ fts' = [fts EXCEPT !.triggers = @ \cup {"urls"}]
     \/ /\ opener[q] = "half" /\ Go(q, "ready")
        /\ fts' = [fts EXCEPT !.triggers = @ \cup {"products"}]
  /\ UNCHANGED <<stored, finder, repairs, lapses>>

(* "except sqlite3.OperationalError: return False": a statement that cannot have the *)
(* lock, or finds another table than it expects, leaves the process with what there   *)
(* is. Nothing reads the FALSE.                                                       *)
GivesUp(q) ==
  /\ \/ q \in Impatient /\ opener[q] # "ready"
     \/ opener[q] = "gone" /\ fts.table
     \/ opener[q] = "empty" /\ ~fts.table
  /\ Go(q, "ready")
  /\ lapses' = [lapses EXCEPT !.refused = TRUE]
  /\ UNCHANGED <<stored, fts, finder, repairs>>

Killed(q) ==
  /\ opener[q] # "down"
  /\ Go(q, "down")
  /\ finder' = IF q = Web THEN NoSearch ELSE finder
  /\ repairs' = IF q = Web THEN NoRepairs ELSE repairs
  /\ UNCHANGED <<stored, fts, lapses>>

--------------------------------------------------------------------------------
(* search_local. A page is a candidate by the text of its index row, and stays one  *)
(* if the slug and the name of its OK product still hold the token; then the rules   *)
(* of its store say how it is shown.                                                 *)
Joined(p) ==
  /\ stored[p].status = "OK" /\ stored[p].named
  /\ Kind[p] = "parfumzentrum" => stored[p].price \in {"implausible", "real"}

Candidate(p, token) ==
  /\ token \in fts.row[p]
  /\ stored[p].url = "active"
  /\ token = "slug" \/ Joined(p)

Hidden(p) ==
  \/ /\ Kind[p] = "deloox" /\ stored[p].avail # "sold_out"
     /\ stored[p].avail = "discontinued" \/ stored[p].price = "none"
  \/ Kind[p] = "parfumzentrum" /\ stored[p].price = "implausible"

HasVariants(p) ==
  Kind[p] = "sabina" \/ (Kind[p] = "notino" /\ stored[p].avail = "variant_catalog")

FindPage(p) ==
  /\ opener[Web] = "ready" /\ finder.at \in {"idle", "grace"}
  /\ \E token \in {"slug", "name"} : Candidate(p, token)
  /\ finder' = [at |-> IF Joined(p) /\ HasVariants(p) THEN "page" ELSE "rows", of |-> {p},
                shown |-> IF ~Joined(p) THEN "refresh" ELSE IF Hidden(p) THEN "hidden" ELSE "offer"]
  /\ UNCHANGED <<stored, fts, opener, repairs, lapses>>

(* Notino sells only fresh variants; Sabina shows the page itself without any. *)
ReadVariants(p) ==
  /\ finder.at = "page" /\ finder.of = {p}
  /\ finder' = [finder EXCEPT !.at = "rows",
       !.shown = IF Kind[p] = "notino"
                 THEN IF "fresh" \in stored[p].variants THEN "variants" ELSE "hidden"
                 ELSE IF stored[p].variants # {} THEN "variants" ELSE "offer"]
  /\ UNCHANGED <<stored, fts, opener, repairs, lapses>>

(* _schedule_easycosmetic_missing_size_repairs. *)
RepairSize(p) ==
  /\ finder.at = "rows" /\ finder.of = {p} /\ finder.shown = "offer"
  /\ Kind[p] = "easycosmetic" /\ ~stored[p].sized /\ ~stored[p].due
  /\ p \notin repairs.size
  /\ repairs' = [repairs EXCEPT !.size = @ \cup {p}, !.threads["size"][p] = @ + 1]
  /\ UNCHANGED <<stored, fts, opener, finder, lapses>>

(* _schedule_stale_price_repairs: pages the search showed first, then the oldest of   *)
(* the database. It does nothing in the thread of a search job, nor for eight seconds *)
(* after a search ("grace"), so only the other callers of search_local start it.      *)
RepairStale(p) ==
  /\ finder.at = "rows" /\ stored[p].status # "none" /\ stored[p].due
  /\ p \notin repairs.stale
  /\ repairs' = [repairs EXCEPT !.stale = @ \cup {p}, !.threads["stale"][p] = @ + 1]
  /\ UNCHANGED <<stored, fts, opener, finder, lapses>>

(* _mark_foreground_search_finished. *)
SearchReturns ==
  /\ finder.at = "rows"
  /\ finder' = [NoSearch EXCEPT !.at = "grace"]
  /\ UNCHANGED <<stored, fts, opener, repairs, lapses>>

GraceEnds ==
  /\ finder.at = "grace"
  /\ finder' = NoSearch
  /\ UNCHANGED <<stored, fts, opener, repairs, lapses>>

(* The thread's refresh_url is over, whatever it did: its finally discards the key. *)
RepairEnds(k, p) ==
  /\ repairs.threads[k][p] > 0
  /\ repairs' = [repairs EXCEPT ![k] = @ \ {p}, !.threads[k][p] = @ - 1]
  /\ UNCHANGED <<stored, fts, opener, finder, lapses>>

IndexNext ==
  \/ \E q \in Procs : \/ OpenCatalogue(q) \/ ReadVersion(q) \/ DropTriggers(q) \/ DropTable(q)
                      \/ CreateTable(q) \/ Fill(q) \/ InstallTriggers(q)
                      \/ GivesUp(q) \/ Killed(q)
  \/ \E p \in IndexPages :
       \/ WriteUrl(p) \/ WriteProduct(p) \/ GrowsOld(p)
       \/ FindPage(p) \/ ReadVariants(p) \/ RepairSize(p) \/ RepairStale(p)
       \/ \E k \in {"size", "stale"} : RepairEnds(k, p)
  \/ SearchReturns \/ GraceEnds

IndexSpec == IndexInit /\ [][IndexNext]_indexVars

--------------------------------------------------------------------------------
(* "Keep the FTS candidate index synchronized with catalog mutations": an active page *)
(* can be found by its slug and by the name of its offer, and no other page.           *)
Findable(p) ==
  IF stored[p].url = "active"
  THEN /\ "slug" \in fts.row[p]
       /\ stored[p].status = "OK" /\ stored[p].named => "name" \in fts.row[p]
  ELSE fts.row[p] = NoRow

(* Once an index has the current version it is whole, whichever statement of however   *)
(* many rebuilds a kill or a refused lock falls between, but for the pages last written *)
(* while a trigger was missing, as long as no rebuild was overtaken by another's.       *)
IndexIsWhole ==
  fts.current /\ ~lapses.overtaken => \A p \in IndexPages : Findable(p) \/ p \in lapses.missed

(* And no page is written while a trigger is missing unless a process went on after a  *)
(* statement had failed.                                                               *)
OnlyRefusalsMiss == lapses.missed # {} => lapses.refused \/ lapses.overtaken

(* A page has one repair thread of a kind at most, and its key is in the set for as  *)
(* long as the thread is there: a key left behind would end its repairs for ever.    *)
OneRepair ==
  \A p \in IndexPages :
    /\ repairs.threads["size"][p] = IF p \in repairs.size THEN 1 ELSE 0
    /\ repairs.threads["stale"][p] = IF p \in repairs.stale THEN 1 ELSE 0

IndexInv == IndexType /\ IndexIsWhole /\ OnlyRefusalsMiss /\ OneRepair

(* Violated: a process that was refused the triggers writes pages the index does not    *)
(* learn of, and no later opening fills it again, since the version is recorded; of two *)
(* processes that read the old version, the later one empties the other's index, and is *)
(* killed.                                                                              *)
IndexIsSynchronised ==
  fts.current /\ (\A q \in Procs : opener[q] \in {"down", "ready"})
    => \A p \in IndexPages : Findable(p)
==============================================================================
