----------------------------- MODULE SabinaSearch -----------------------------
(* search_stream of backend/scrapers/sabina/scraper.py: the Spanish shop's search *)
(* endpoints, a browser, the sitemaps and, last, the Italian Sellboost service,    *)
(* whose pages need not match the query; a page is priced by the one of its offers *)
(* that is its own, and has a variant for each size with a price of its own.       *)
EXTENDS Naturals, Sequences

CONSTANTS
  SbPages,       \* product URLs
  SbStrong,      \* those whose URL holds every word of the query
  SbProduct,     \* SbProduct[u]: the product id in the URL; locales share it
  SbEndpoints,   \* number of search endpoints
  SbMaps         \* product sitemaps that are read

ASSUME SbAssumption ==
  /\ SbStrong \subseteq SbPages /\ SbPages \subseteq DOMAIN SbProduct
  /\ SbEndpoints \in Nat \ {0}

VARIABLE sb

SbIdle == [at |-> "idle", asked |-> 0, found |-> {}, authoritative |-> FALSE, pages |-> {},
           rows |-> {}, hydrated |-> {}, heard |-> {}, answer |-> [verified |-> FALSE, rows |-> FALSE]]

--------------------------------------------------------------------------------
(* An offer: it names this page's URL or title ("own"), and the size it states. *)
SbOffers == [own : BOOLEAN, size : {0, 50, 100}, price : {0, 7}]
SbOfferLists == {<<>>} \cup {<<o>> : o \in SbOffers} \cup {<<o, n>> : o, n \in SbOffers}
NoSbOffer == [own |-> FALSE, size |-> 0, price |-> 0]

(* Any offer of several is as good as the first. *)
SelectFirstOffer(offers, size) == IF offers = <<>> THEN NoSbOffer ELSE offers[1]

(* _select_product_offer: own offers, or the only one; of those the offers with the   *)
(* page's size, none if the others state theirs; the first with a price.              *)
SelectOffer(offers, size) ==
  LET own == {i \in DOMAIN offers : offers[i].own}
      cands == IF own # {} THEN own ELSE IF Len(offers) = 1 THEN {1} ELSE {}
      sized == {i \in cands : offers[i].size = size}
      left == IF size = 0 THEN cands
              ELSE IF sized # {} THEN sized
              ELSE IF \E i \in cands : offers[i].size # 0 THEN {} ELSE cands
      priced == {i \in left : offers[i].price # 0}
      best == IF priced # {} THEN priced ELSE left
  IN IF best = {} THEN NoSbOffer ELSE offers[CHOOSE i \in best : \A j \in best : i <= j]

(* walk_variant_data on an object and one inside it: each price goes with the size of *)
(* its own object or, without one, of the object around it.                          *)
VariantsOf(outer, inner) ==
  {v \in {[size |-> outer.size, price |-> outer.price],
          [size |-> IF inner.size # 0 THEN inner.size ELSE outer.size, price |-> inner.price]} :
     v.size # 0 /\ v.price # 0}

SbObjects(price) == [size : {0, 50, 100}, price : {0, price}]

(* availability_from_product_page. An active purchase control is recognised by its    *)
(* words without accents and hyphens only; marks are the structured signals and the    *)
(* text ("notify": it offers to tell a date).                                         *)
SbStock(control, marks) ==
  IF control = "plain" \/ "in" \in marks THEN "in_stock"
  ELSE IF control = "disabled" \/ "out" \in marks THEN "out_of_stock"
  ELSE IF "pre" \in marks THEN "preorder"
  ELSE IF "notify" \in marks THEN "out_of_stock" ELSE "unknown"
SbStocks == {SbStock(control, marks) :
  control \in {"plain", "accented", "disabled", "none"}, marks \in SUBSET {"in", "out", "pre", "notify"}}

(* extract_product_page of a page that is accepted: whose offer prices it, whether that *)
(* offer states another size than the page has selected, and whether there is a price.  *)
PricedBy(offers, size, visible) ==
  LET offer == SelectOffer(offers, size)
  IN [offer |-> IF offer = NoSbOffer THEN "none" ELSE IF offer.own THEN "own"
                ELSE IF Len(offers) > 1 THEN "one of several" ELSE "only",
      othersize |-> size # 0 /\ offer.size \notin {0, size},
      priced |-> offer.price # 0 \/ visible]
SbPriced ==
  {PricedBy(offers, size, visible) :
     offers \in SbOfferLists, size \in {0, 50, 100}, visible \in BOOLEAN}

--------------------------------------------------------------------------------
SbInit == sb = SbIdle

SbBegin ==
  /\ sb.at \in {"idle", "done"}
  /\ \/ sb' = [SbIdle EXCEPT !.at = "endpoints"]
     \/ sb' = [SbIdle EXCEPT !.at = "done", !.heard = {"blank"}, !.answer.verified = TRUE]

(* _extract_search_candidates takes every product URL of a page; a strong one ends the *)
(* native search.                                                                     *)
Strong(urls) == urls \cap SbStrong # {}

AskSpanish ==
  /\ sb.at = "endpoints"
  /\ LET last == sb.asked + 1 = SbEndpoints
     IN \/ sb' = [sb EXCEPT !.asked = @ + 1, !.heard = @ \cup {"failure"},
                            !.at = IF last THEN "browser" ELSE @]
        \/ \E urls \in SUBSET SbPages :
             sb' = [sb EXCEPT !.asked = @ + 1, !.heard = @ \cup {"answer"}, !.found = @ \cup urls,
                              !.at = IF Strong(sb.found \cup urls) THEN "pages"
                                     ELSE IF last THEN "browser" ELSE @]

(* The browser fails without a word. *)
AskBrowser ==
  /\ sb.at = "browser"
  /\ \E urls \in SUBSET SbPages, heard \in {"answer", "failure"} :
       /\ heard = "failure" => urls = {}
       /\ sb' = [sb EXCEPT !.heard = @ \cup {heard}, !.found = @ \cup urls,
                           !.at = IF Strong(sb.found \cup urls) THEN "pages" ELSE "sitemap"]

(* What was found so far is dropped. The root lists strong products itself, or up to   *)
(* four product sitemaps, of which some fail.                                         *)
AskSitemap ==
  /\ sb.at = "sitemap"
  /\ \/ sb' = [sb EXCEPT !.at = "sellboost", !.found = {}, !.heard = @ \cup {"failure"}]
     \/ \E direct \in SUBSET SbStrong, failed \in SUBSET SbMaps, lists \in [SbMaps -> SUBSET SbStrong] :
          LET urls == IF direct # {} THEN direct ELSE UNION {lists[m] : m \in SbMaps \ failed}
          IN sb' = [sb EXCEPT !.found = urls, !.at = IF urls # {} THEN "pages" ELSE "sellboost",
                              !.heard = @ \cup {"answer"} \cup (IF failed # {} THEN {"failure"} ELSE {})]

(* A failure on any of Sellboost's pages loses those before it. *)
AskSellboost ==
  /\ sb.at = "sellboost"
  /\ \/ sb' = [sb EXCEPT !.at = "pages", !.heard = @ \cup {"failure"}]
     \/ \E urls \in SUBSET SbPages :
          sb' = [sb EXCEPT !.at = "pages", !.found = urls, !.authoritative = urls # {},
                           !.heard = @ \cup {"answer"}]

(* The row of product u replaces none of the same product. *)
AddRow(u, row) ==
  IF \E r \in sb.rows : SbProduct[r.url] = SbProduct[u] THEN sb.rows ELSE sb.rows \cup {row}

(* The rich parser: rejected or failed, or a row. *)
FetchSabina(u) ==
  /\ sb.at = "pages" /\ u \in sb.found \ sb.pages
  /\ \/ sb' = [sb EXCEPT !.pages = @ \cup {u}, !.heard = @ \cup {"failure"}]
     \/ \E matches \in BOOLEAN, by \in SbPriced :
          sb' = [sb EXCEPT !.pages = @ \cup {u}, !.heard = @ \cup {"answer"},
                   !.rows = IF matches \/ sb.authoritative
                            THEN AddRow(u, [url |-> u, matches |-> matches, by |-> by]) ELSE @]

(* It raises: the page is fetched again and read by the minimal parser, which fails,    *)
(* rejects, or takes the price and the stock of the visible text.                       *)
FetchAgain(u) ==
  /\ sb.at = "pages" /\ u \in sb.found \ sb.pages
  /\ \E matches, priced \in BOOLEAN :
       sb' = [sb EXCEPT !.pages = @ \cup {u}, !.heard = @ \cup {"answer"},
                !.rows = IF matches \/ sb.authoritative
                         THEN AddRow(u, [url |-> u, matches |-> matches,
                                by |-> [offer |-> "none", othersize |-> FALSE, priced |-> priced]])
                         ELSE @]

(* The catalogue hydrates a page, in a process of its own: its stock and its variants. *)
HydrateSabina ==
  /\ sb.at = "idle"
  /\ \E outer \in SbObjects(7), inner \in SbObjects(9), stock \in SbStocks :
       sb' = [sb EXCEPT !.hydrated = {[outer |-> outer, inner |-> inner, stock |-> stock,
                                       variants |-> VariantsOf(outer, inner)]}]

SbReturn ==
  /\ sb.at = "pages" /\ sb.pages = sb.found
  /\ sb' = [sb EXCEPT !.at = "done", !.answer = [verified |-> sb.rows # {}, rows |-> sb.rows # {}]]

SbRaises ==
  /\ sb.at \notin {"idle", "done"}
  /\ sb' = [sb EXCEPT !.at = "done"]

SbNext ==
  \/ SbBegin \/ AskSpanish \/ AskBrowser \/ AskSitemap \/ AskSellboost
  \/ \E u \in SbPages : FetchSabina(u) \/ FetchAgain(u)
  \/ SbReturn \/ SbRaises \/ HydrateSabina

SbSpec == SbInit /\ [][SbNext]_sb

--------------------------------------------------------------------------------
SbType ==
  /\ sb.at \in {"idle", "endpoints", "browser", "sitemap", "sellboost", "pages", "done"}
  /\ sb.asked \in 0 .. SbEndpoints /\ sb.authoritative \in BOOLEAN
  /\ sb.pages \subseteq sb.found /\ sb.found \subseteq SbPages

(* "Never guess between multiple unrelated offers", "never take an unrelated variant's *)
(* price": the offer that prices a page is its own or its only one, and states the      *)
(* size the page has selected or none.                                                *)
OfferIsThePages ==
  \A r \in sb.rows : r.by.offer # "one of several" /\ ~r.by.othersize

(* "Without mixing format prices": a price goes with the size of its own object, and    *)
(* one that states none with that of the object around it, never the other way round.   *)
VariantKeepsItsPrice ==
  \A h \in sb.hydrated : \A v \in h.variants :
    v.size = (IF v.price = h.outer.price \/ h.inner.size = 0 THEN h.outer.size ELSE h.inner.size)

(* One row for a product, however many of its locales were found; and a page that does *)
(* not match the query comes from Sellboost alone.                                    *)
OneRowPerProduct ==
  /\ \A r, s \in sb.rows : SbProduct[r.url] = SbProduct[s.url] => r = s
  /\ \A r \in sb.rows : r.matches \/ sb.authoritative

SbInv == SbType /\ OfferIsThePages /\ VariantKeepsItsPrice /\ OneRowPerProduct

SbPromise == INSTANCE StoreSearch WITH
  phase <- IF sb.at \in {"idle", "done"} THEN sb.at ELSE "asking",
  heard <- sb.heard, answer <- sb.answer
==============================================================================
