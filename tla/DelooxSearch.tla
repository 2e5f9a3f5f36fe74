----------------------------- MODULE DelooxSearch -----------------------------
(* search_stream and extract_product_page of backend/scrapers/deloox/scraper.py: *)
(* the shop's search surfaces are asked in parallel and one of them is paged      *)
(* through; without candidates come the categories, then the sitemaps. A page is  *)
(* accepted by its name, size, URL and category, and priced by one of its offers. *)
EXTENDS Naturals, FiniteSets

CONSTANTS
  DxPages,        \* product URLs
  DxSurfaces,     \* search surfaces that may answer
  SurfaceRank,    \* surface_rank of a surface with candidates; several may have the same
  DxSearchPages   \* bound: MAX_SEARCH_PAGES

ASSUME DxAssumption ==
  /\ \A s \in DxSurfaces : SurfaceRank[s] \in Nat
  /\ DxSearchPages \in Nat \ {0}

VARIABLE dx      \* the search, with _LAST_DISCOVERY_STATE, and the page hydrated last

DxQueries == {"blank", "named", "sized"}
DxIdle == [at |-> "idle", query |-> "blank", page |-> 1, found |-> {}, pages |-> {},
           rows |-> {}, verified |-> {}, technical |-> FALSE, heard |-> {}, hydrated |-> {},
           answer |-> [verified |-> FALSE, rows |-> FALSE]]

--------------------------------------------------------------------------------
(* A product page. The sizes are asked for as 50; offers is the JSON-LD list with     *)
(* the sizes each entry states. A price of 0 is none. agrees: the URL's words are in   *)
(* the name. controls, says: the stock the visible controls and the text tell.        *)
Sizes == {50, 100}
Stocks == {"in_stock", "out_of_stock", "unknown"}
DxOffers == [sizes : {{}, {50}, {100}}, price : {0, 7}, stock : Stocks]
DxOfferLists ==
  {<<>>} \cup {<<o>> : o \in DxOffers}
  \cup {<<o, [sizes |-> t, price |-> 9, stock |-> "in_stock"]>> : o \in DxOffers, t \in {{}, {50}, {100}}}
DxPageKinds ==
  [words : BOOLEAN, agrees : BOOLEAN, fragrance : BOOLEAN, text : {{}, {50}, {100}},
   sizes : {{}, {50}, {100}}, offers : DxOfferLists,
   controls : Stocks, says : Stocks, visible : {0, 8}]

(* availability: the visible controls, then the offer, then the text. Without a       *)
(* document (the JSON-LD fast path) there is only the offer.                          *)
DxStock(page, offer, document) ==
  IF ~document THEN offer.stock
  ELSE IF page.controls # "unknown" THEN page.controls
  ELSE IF offer.stock # "unknown" THEN offer.stock ELSE page.says

NoOffer == [sizes |-> {}, price |-> 0, stock |-> "unknown"]

(* The offer of a page for a query: for a size among several offers the only one that *)
(* states it, else the first. {} when no choice is right.                             *)
ChosenOffer(page, sized) ==
  LET offers == page.offers
      stating == {i \in DOMAIN offers : 50 \in offers[i].sizes}
  IN IF offers = <<>> THEN {NoOffer}
     ELSE IF sized /\ Cardinality(DOMAIN offers) > 1
          THEN IF Cardinality(stating) = 1 THEN {offers[i] : i \in stating} ELSE {}
          ELSE {offers[1]}

(* The sizes the page states are not looked at. *)
SizeAcceptedByOffer(page, offer, sized) == sized => offer.sizes \cup page.text # {}

(* A requested size must be stated somewhere and contradicted nowhere. *)
SizeAccepted(page, offer, sized) == sized => page.sizes \cup offer.sizes \cup page.text = {50}

(* _product: {} or the one row. A page that is sold out has no price. *)
DxRow(page, sized, document) ==
  UNION {LET stock == DxStock(page, offer, document)
             price == IF stock = "out_of_stock" THEN 0
                      ELSE IF offer.price # 0 THEN offer.price ELSE page.visible
         IN IF /\ page.words /\ page.agrees /\ page.fragrance
               /\ SizeAccepted(page, offer, sized)
               /\ price # 0 \/ stock = "out_of_stock"
            THEN {[sized |-> sized, states |-> page.sizes \cup offer.sizes \cup page.text,
                   price |-> price, stock |-> stock,
                   seen |-> IF document THEN page.controls ELSE "unknown"]}
            ELSE {}
         : offer \in ChosenOffer(page, sized)}
DxNamedOutcomes == {DxRow(page, FALSE, TRUE) : page \in DxPageKinds}
DxSizedOutcomes == {DxRow(page, TRUE, TRUE) : page \in DxPageKinds}
DxOutcomes(query) == IF query = "sized" THEN DxSizedOutcomes ELSE DxNamedOutcomes

(* extract_product_page parses a known page by the query of its own name, which asks *)
(* for the size it states, if any: without a document if one of its offers is priced. *)
DxKnownRow(page, sized) ==
  DxRow([page EXCEPT !.words = TRUE], sized,
        ~\E i \in DOMAIN page.offers : page.offers[i].price # 0)
DxKnownOutcomes ==
  {DxKnownRow(page, FALSE) : page \in DxPageKinds}
  \cup {DxKnownRow(page, TRUE) : page \in {k \in DxPageKinds : k.text = {50}}}

--------------------------------------------------------------------------------
DxInit == dx = DxIdle

DxBegin ==
  /\ dx.at \in {"idle", "done"}
  /\ \E q \in DxQueries :
       dx' = IF q = "blank"
             THEN [DxIdle EXCEPT !.at = "done", !.heard = {"blank"}, !.answer.verified = TRUE]
             ELSE [DxIdle EXCEPT !.at = "surfaces", !.query = q]

(* _discover_from_search: every surface answers with relevant candidates, or fails;   *)
(* of those with candidates the best surface is paged through. Of several of the best   *)
(* rank it is the one that answered first: the order of completion decides.             *)
AskSurfaces ==
  /\ dx.at = "surfaces"
  /\ \E answering \in SUBSET DxSurfaces : \E lists \in [answering -> SUBSET DxPages] :
       LET finding == {s \in answering : lists[s] # {}}
           best == {s \in finding : \A t \in finding : SurfaceRank[s] <= SurfaceRank[t]}
       IN \E found \in IF finding = {} THEN {{}} ELSE {lists[s] : s \in best} :
            dx' = [dx EXCEPT !.at = IF finding # {} THEN "paging" ELSE "categories",
                             !.found = found,
                             !.verified = IF answering # {} THEN {"search"} ELSE {},
                             !.heard = (IF answering # {} THEN {"answer"} ELSE {})
                                  \cup (IF answering # DxSurfaces THEN {"failure"} ELSE {})]

(* The next page: it fails, or brings nothing new, or goes on. *)
NextPage ==
  /\ dx.at = "paging"
  /\ \/ dx.page = DxSearchPages /\ dx' = [dx EXCEPT !.at = "pages"]
     \/ /\ dx.page < DxSearchPages
        /\ \/ dx' = [dx EXCEPT !.at = "pages", !.heard = @ \cup {"failure"}]
           \/ \E urls \in SUBSET DxPages :
                dx' = [dx EXCEPT !.page = @ + 1, !.found = @ \cup urls,
                                 !.at = IF urls \subseteq dx.found THEN "pages" ELSE "paging"]

(* _discover_from_categories takes every product of the pages that answer. *)
AskCategories ==
  /\ dx.at = "categories"
  /\ \/ dx' = [dx EXCEPT !.at = "sitemaps", !.heard = @ \cup {"failure"}]
     \/ \E urls \in SUBSET DxPages :
          dx' = [dx EXCEPT !.at = "sitemaps", !.found = urls, !.heard = @ \cup {"answer"},
                           !.verified = @ \cup (IF urls # {} THEN {"category"} ELSE {})]

(* _sitemap_product_urls: a sitemap that fails lists nothing. *)
SitemapAnswers ==
  [urls : SUBSET DxPages, heard : {"answer"}] \cup [urls : {{}}, heard : {"failure"}]

(* The sitemaps are asked as well, up to the room that is left. What has not been      *)
(* verified by any of the three is a technical failure.                               *)
AskSitemaps ==
  /\ dx.at = "sitemaps"
  /\ \E found \in SitemapAnswers :
       LET urls == found.urls
           verified == dx.verified \cup (IF urls # {} THEN {"sitemap"} ELSE {})
       IN dx' = [dx EXCEPT !.at = "pages", !.found = @ \cup urls, !.verified = verified,
                           !.technical = dx.found \cup urls = {} /\ verified = {},
                           !.heard = @ \cup {found.heard}]

(* fetch swallows every exception: a page that fails is a page without a product. *)
FetchProduct(u) ==
  /\ dx.at = "pages" /\ u \in dx.found \ dx.pages
  /\ \/ dx' = [dx EXCEPT !.pages = @ \cup {u}, !.heard = @ \cup {"failure"}]
     \/ \E row \in DxOutcomes(dx.query) :
          dx' = [dx EXCEPT !.pages = @ \cup {u}, !.heard = @ \cup {"answer"},
                           !.rows = @ \cup {[url |-> u, row |-> r] : r \in row}]

DxReturn ==
  /\ dx.at = "pages" /\ dx.pages = dx.found
  /\ dx' = [dx EXCEPT !.at = "done", !.answer = [verified |-> ~dx.technical, rows |-> dx.rows # {}]]

DxRaises ==
  /\ dx.at \notin {"idle", "done"}
  /\ dx' = [dx EXCEPT !.at = "done"]

(* The catalogue hydrates a page, in a process of its own; the browser's copy of a    *)
(* page without a product is parsed the same way, and what raises leaves no row.       *)
HydrateDeloox ==
  /\ dx.at = "idle"
  /\ \E row \in DxKnownOutcomes : dx' = [dx EXCEPT !.hydrated = row]

DxNext ==
  \/ DxBegin \/ AskSurfaces \/ NextPage \/ AskCategories \/ AskSitemaps
  \/ \E u \in DxPages : FetchProduct(u)
  \/ DxReturn \/ DxRaises \/ HydrateDeloox

DxSpec == DxInit /\ [][DxNext]_dx

--------------------------------------------------------------------------------
DxType ==
  /\ dx.at \in {"idle", "surfaces", "paging", "categories", "sitemaps", "pages", "done"}
  /\ dx.query \in DxQueries /\ dx.page \in 1 .. DxSearchPages
  /\ dx.pages \subseteq dx.found /\ dx.found \subseteq DxPages
  /\ dx.verified \subseteq {"search", "category", "sitemap"}

(* A search for a size gets no row of a page that states another size, in its name,    *)
(* its own metadata or the offer that priced it; and no row that shows a product as    *)
(* sold out has a price.                                                              *)
RowIsOfTheSize ==
  \A r \in {s.row : s \in dx.rows} \cup dx.hydrated :
    /\ r.sized => r.states = {50}
    /\ r.stock = "out_of_stock" <=> r.price = 0
    /\ r.seen # "unknown" => r.stock = r.seen

(* A discovery without candidates is flagged as a technical failure if no search       *)
(* surface has answered, and only then: a category page or a sitemap that answers and    *)
(* lists nothing makes no difference. So an empty result is verified only if a search    *)
(* surface has answered, or if there were candidates and each was asked for.             *)
OutageIsTold ==
  /\ dx.at = "pages" => (dx.technical <=> dx.found = {} /\ "search" \notin dx.verified)
  /\ dx.at = "done" /\ dx.answer.verified /\ ~dx.answer.rows =>
       \/ dx.heard = {"blank"} \/ "search" \in dx.verified
       \/ dx.found # {} /\ dx.pages = dx.found

DxInv == DxType /\ RowIsOfTheSize /\ OutageIsTold

(* Violated: the pages of all candidates fail, and the empty result is verified. *)
FailedPagesAreNotAbsence ==
  dx.answer.verified /\ ~dx.answer.rows /\ dx.found # {} => "failure" \notin dx.heard

DxPromise == INSTANCE StoreSearch WITH
  phase <- IF dx.at \in {"idle", "done"} THEN dx.at ELSE "asking",
  heard <- dx.heard, answer <- dx.answer
==============================================================================
