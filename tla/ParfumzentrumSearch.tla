------------------------- MODULE ParfumzentrumSearch -------------------------
(* search_stream of backend/scrapers/parfumzentrum/scraper.py: four forms of   *)
(* the shop's search URL, its own search form, then the sitemap kept in the     *)
(* process; the pages found are fetched in a pool and parsed one by one.        *)
EXTENDS Naturals, FiniteSets

CONSTANTS
  PzPages,     \* product URLs
  PzText,      \* PzText[u]: "all", "some" or "none" of the query's tokens are in it
  PzSite       \* what each sitemap lists: products and sitemaps; "root" is the first

ASSUME PzAssumption ==
  /\ \A u \in PzPages : PzText[u] \in {"all", "some", "none"}
  /\ "root" \in DOMAIN PzSite
  /\ \A m \in DOMAIN PzSite : PzSite[m] \subseteq PzPages \cup (DOMAIN PzSite \ {"root"})

VARIABLES
  pz,          \* the search
  pzIndex      \* _sitemap_cache with its age

pzVars == <<pz, pzIndex>>

PzQueries == {"blank", "stopwords", "named", "sized"}
Endpoints == 4
PzIdle == [at |-> "idle", query |-> "blank", asked |-> 0, zero |-> FALSE, found |-> {},
           from |-> "none", pages |-> {}, rows |-> {}, heard |-> {},
           answer |-> [verified |-> FALSE, rows |-> FALSE]]
PzMaps == DOMAIN PzSite \ {"root"}

--------------------------------------------------------------------------------
(* The price of a page. A node is a price of the purchase area around the title, or  *)
(* one in a place known to hold prices; struck and coupon are the verdicts of         *)
(* _is_struck and _bad_price_context, score is what its area and its markers add. ld  *)
(* is the JSON-LD price, code a mention of a coupon price.                           *)
PriceNodes ==
  {[price |-> 9, struck |-> TRUE, coupon |-> FALSE, score |-> 2],
   [price |-> 5, struck |-> FALSE, coupon |-> TRUE, score |-> 2],
   [price |-> 1, struck |-> FALSE, coupon |-> FALSE, score |-> 2],
   [price |-> 7, struck |-> FALSE, coupon |-> FALSE, score |-> 1],
   [price |-> 8, struck |-> FALSE, coupon |-> FALSE, score |-> 1]}
NoPrice == 0

(* Coupon prices are not told from public ones. *)
EligibleWithCoupons(nodes) == {n \in nodes : ~n.struck /\ n.price > 1}
Eligible(nodes) == {n \in nodes : ~n.struck /\ ~n.coupon /\ n.price > 1}

(* The best score wins, then the lower price; JSON-LD only without a visible price   *)
(* and without a coupon on the page.                                                *)
PublicPrice(nodes, ld, code) ==
  LET best == {n \in Eligible(nodes) : \A m \in Eligible(nodes) : m.score <= n.score}
  IN IF best # {}
     THEN (CHOOSE n \in best : \A m \in best : n.price <= m.price).price
     ELSE IF ~code /\ ld > 1 THEN ld ELSE NoPrice

(* kind: what the identity checks of a page conclude: a perfume, a marker of another *)
(* product in its name, a bundle in any of its titles, or a mini, which a search for  *)
(* a normal size rejects. words: the name holds all words of the query.               *)
PzPageKinds ==
  [named : BOOLEAN, words : BOOLEAN, kind : {"perfume", "marker", "bundle", "mini"},
   nodes : SUBSET PriceNodes, ld : {NoPrice, 1, 6}, code : BOOLEAN,
   state : {"in_stock", "out_of_stock", "unknown"}]

(* _extract_product: {} or the one row of the page. *)
PzRow(page, query) ==
  LET price == PublicPrice(page.nodes, page.ld, page.code)
  IN IF /\ page.named
        /\ page.words /\ query # "stopwords"
        /\ page.kind = "perfume" \/ (page.kind = "mini" /\ query # "sized")
        /\ price # NoPrice \/ page.state # "unknown"
     THEN {[price |-> price, state |-> page.state]} ELSE {}
PzOutcomes == [q \in PzQueries |-> {PzRow(page, q) : page \in PzPageKinds}]

--------------------------------------------------------------------------------
PzInit == pz = PzIdle /\ pzIndex = [urls |-> {}, fresh |-> FALSE]

PzBegin ==
  /\ pz.at \in {"idle", "done"}
  /\ \E q \in PzQueries :
       pz' = IF q = "blank"
             THEN [PzIdle EXCEPT !.at = "done", !.heard = {"blank"}, !.answer.verified = TRUE]
             ELSE [PzIdle EXCEPT !.at = "endpoints", !.query = q]
  /\ UNCHANGED pzIndex

(* _candidate_urls_from_html keeps a product URL with a token of the query, and any   *)
(* one if the query has only stopwords.                                              *)
Relevant(urls) ==
  {u \in urls : pz.query = "stopwords" \/ PzText[u] # "none"}

(* _search_page_state: a zero counts on a page that echoes the query. *)
SaysZero(page) == page.echoed /\ page.zero

(* One endpoint: it fails, or a page with product URLs which echoes the query or not *)
(* and says "0 products" or not .                                                     *)
AskEndpoint ==
  /\ pz.at = "endpoints"
  /\ LET next == IF pz.asked + 1 = Endpoints THEN "form" ELSE "endpoints"
     IN \/ pz' = [pz EXCEPT !.asked = @ + 1, !.at = next, !.heard = @ \cup {"failure"}]
        \/ \E page \in [urls : SUBSET PzPages, echoed : BOOLEAN, zero : BOOLEAN] :
             pz' = [pz EXCEPT !.asked = @ + 1, !.at = next, !.heard = @ \cup {"answer"},
                              !.found = @ \cup Relevant(page.urls), !.from = "search",
                              !.zero = @ \/ SaysZero(page)]
  /\ UNCHANGED pzIndex

(* The form is used only without candidates and without an authoritative zero. *)
AskForm ==
  /\ pz.at = "form"
  /\ IF pz.found = {} /\ ~pz.zero
     THEN \/ \E urls \in SUBSET PzPages :
               pz' = [pz EXCEPT !.at = "sitemap", !.found = Relevant(urls), !.from = "form",
                                !.heard = @ \cup {"answer"}]
          \/ pz' = [pz EXCEPT !.at = "sitemap", !.heard = @ \cup {"failure"}]
     ELSE pz' = [pz EXCEPT !.at = "sitemap", !.zero = @ /\ pz.found = {}]
  /\ UNCHANGED pzIndex

(* _get_sitemap_urls: the root's sitemaps, and once those that they list. A sitemap   *)
(* that fails lists nothing; an empty result is not kept.                            *)
SitemapUrls(failed) ==
  LET listed == UNION {PzSite[m] : m \in (PzSite["root"] \cap PzMaps) \ failed}
      nested == UNION {PzSite[m] : m \in (listed \cap PzMaps) \ failed}
  IN (PzSite["root"] \cup listed \cup nested) \cap PzPages

(* _sitemap_discovery: every token must be in the URL. *)
InSitemap(urls) == {u \in urls : pz.query = "stopwords" \/ PzText[u] = "all"}

UseSitemap ==
  /\ pz.at = "sitemap" /\ pz.found = {}
  /\ \/ /\ pzIndex.urls # {} /\ pzIndex.fresh
        /\ pz' = [pz EXCEPT !.at = "pages", !.from = "sitemap", !.found = InSitemap(pzIndex.urls),
                            !.heard = @ \cup {"answer"}]
        /\ UNCHANGED pzIndex
     \/ /\ pzIndex.urls = {} \/ ~pzIndex.fresh
        /\ \/ /\ pz' = [pz EXCEPT !.at = "pages", !.heard = @ \cup {"failure"}]
              /\ UNCHANGED pzIndex
           \/ \E failed \in SUBSET PzMaps :
                /\ pzIndex' = [urls |-> SitemapUrls(failed), fresh |-> TRUE]
                /\ pz' = [pz EXCEPT !.at = "pages", !.from = "sitemap",
                            !.found = InSitemap(SitemapUrls(failed)),
                            !.heard = @ \cup {"answer"} \cup (IF failed # {} THEN {"failure"} ELSE {})]

SkipSitemap ==
  /\ pz.at = "sitemap" /\ pz.found # {}
  /\ pz' = [pz EXCEPT !.at = "pages"]
  /\ UNCHANGED pzIndex

SitemapGrowsOld ==
  /\ pzIndex.fresh
  /\ pzIndex' = [pzIndex EXCEPT !.fresh = FALSE]
  /\ UNCHANGED pz

(* A page of the pool: a failed request and a page without an offer are alike. *)
FetchPage(u) ==
  /\ pz.at = "pages" /\ u \in pz.found \ pz.pages
  /\ \/ pz' = [pz EXCEPT !.pages = @ \cup {u}, !.heard = @ \cup {"failure"}]
     \/ \E row \in PzOutcomes[pz.query] :
          pz' = [pz EXCEPT !.pages = @ \cup {u}, !.heard = @ \cup {"answer"},
                           !.rows = @ \cup {[url |-> u, price |-> r.price, state |-> r.state] : r \in row}]
  /\ UNCHANGED pzIndex

(* search sorts and returns; without rows the report is partial and unverified. *)
PzReturn ==
  /\ pz.at = "pages" /\ pz.pages = pz.found
  /\ pz' = [pz EXCEPT !.at = "done", !.answer = [verified |-> pz.rows # {}, rows |-> pz.rows # {}]]
  /\ UNCHANGED pzIndex

(* What search does not catch is an error. *)
PzRaises ==
  /\ pz.at \notin {"idle", "done"}
  /\ pz' = [pz EXCEPT !.at = "done"]
  /\ UNCHANGED pzIndex

PzNext ==
  \/ PzBegin \/ AskEndpoint \/ AskForm \/ UseSitemap \/ SkipSitemap \/ SitemapGrowsOld
  \/ \E u \in PzPages : FetchPage(u)
  \/ PzReturn \/ PzRaises

PzSpec == PzInit /\ [][PzNext]_pzVars

--------------------------------------------------------------------------------
PzType ==
  /\ pz.at \in {"idle", "endpoints", "form", "sitemap", "pages", "done"}
  /\ pz.query \in PzQueries /\ pz.asked \in 0 .. Endpoints
  /\ pz.pages \subseteq pz.found /\ pz.found \subseteq PzPages
  /\ pzIndex.urls \subseteq PzPages

(* "The public selling price must win": no row carries a struck, a coupon or a       *)
(* placeholder price, whichever nodes surround the public one, and a row without a    *)
(* price says whether it can be bought.                                              *)
PriceIsPublic ==
  \A r \in pz.rows : r.price \in {6, 7, 8} \/ (r.price = NoPrice /\ r.state # "unknown")

(* A page is a row once, of a page that was fetched, and the sitemap is only asked    *)
(* for pages with every word of the query.                                           *)
RowsWereFetched ==
  /\ \A r \in pz.rows : r.url \in pz.pages
  /\ \A r, s \in pz.rows : r.url = s.url => r = s
  /\ pz.from = "sitemap" /\ pz.query # "stopwords" => \A u \in pz.found : PzText[u] = "all"

PzInv == PzType /\ PriceIsPublic /\ RowsWereFetched

(* Violated: after the shop has said "0 products" the sitemap is used all the same. *)
ZeroIsFinal == pz.zero => pz.found = {}

PzPromise == INSTANCE StoreSearch WITH
  phase <- IF pz.at \in {"idle", "done"} THEN pz.at ELSE "asking",
  heard <- pz.heard, answer <- pz.answer
==============================================================================
