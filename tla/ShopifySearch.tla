---------------------------- MODULE ShopifySearch -----------------------------
(* search_stream of the four Shopify shops (backend/scrapers/bplatz, parfumcity,  *)
(* orioudh and perfumemarket): they ask the same channels of a shop, one after the *)
(* other, and differ in what an answer that fails means and in how a product is    *)
(* turned into rows.                                                               *)
EXTENDS Naturals, Sequences, FiniteSets

CONSTANTS
  Shops,       \* the shops that are searched
  ShPages,     \* product URLs
  ShVariants   \* bound: variants, or offers, of one product

ASSUME ShAssumption ==
  /\ Shops \subseteq {"bplatz", "parfumcity", "orioudh", "perfumemarket"}
  /\ ShVariants \in Nat

VARIABLES
  shop,        \* the shop of the search, which never changes
  sh           \* its search, and the row hydrated last

shVars == <<shop, sh>>

ShIdle == [at |-> "idle", step |-> 1, verified |-> FALSE, errors |-> FALSE, found |-> {}, pages |-> {},
           failed |-> FALSE, rows |-> {}, heard |-> {}, hydrated |-> {},
           answer |-> [verified |-> FALSE, rows |-> FALSE]]

(* The channels in the order in which they are asked; a channel that is asked in two    *)
(* forms is here once, but for orioudh, which asks for the query and then its words.     *)
Channels ==
  [s \in {"bplatz", "parfumcity", "orioudh", "perfumemarket"} |->
     IF s = "orioudh" THEN <<"suggest", "suggest", "html", "json">>
     ELSE IF s = "perfumemarket" THEN <<"suggest", "html", "catalog", "sitemap">>
     ELSE <<"suggest", "json", "catalog", "sitemap", "html">>]

--------------------------------------------------------------------------------
(* The offers of a product, or its variants: what a price field says ("text" is no price) *)
(* and the stock. A row says of which of them its price and its stock are: the price of  *)
(* a product or of a page, and the stock the text of a page tells, are of none of them.   *)
ShOffers == [price : {"none", "text", "price"}, stock : {"in_stock", "out_of_stock", "unknown"}]
ShOfferLists == UNION {[1 .. n -> ShOffers] : n \in 0 .. ShVariants}
FirstOf(S) == {i \in S : \A j \in S : i <= j}
LastOf(S) == {i \in S : \A j \in S : j <= i}
PricedOf(offers) == {i \in DOMAIN offers : offers[i].price = "price"}
StockedOf(offers) == {i \in DOMAIN offers : offers[i].stock # "unknown"}

(* bplatz: the price of the first priced offer, the stock of the last that states one, *)
(* else the stock of the text; one row even without a price.                           *)
BplatzRow(offers) ==
  {[priceOf |-> FirstOf(PricedOf(offers)), priced |-> PricedOf(offers) # {},
    stockOf |-> LastOf(StockedOf(offers))]}

(* make_item and _raw_offer: a row for each variant; orioudh leaves out one without a  *)
(* price.                                                                              *)
VariantRows(offers, unpriced) ==
  {[priceOf |-> {i}, priced |-> i \in PricedOf(offers), stockOf |-> {i}]
     : i \in IF unpriced THEN DOMAIN offers ELSE PricedOf(offers)}

(* The first priced variant, as in the suggestions. *)
FirstPrice(offers) == FirstOf(PricedOf(offers))

(* _parse_catalog_json: the first priced variant that is available, and if there is    *)
(* none the last that states a price at all, whether it can be read or not.            *)
CatalogPrice(offers) ==
  LET available == {i \in PricedOf(offers) : offers[i].stock = "in_stock"}
  IN IF available # {} THEN FirstOf(available)
     ELSE PricedOf(offers) \cap LastOf({i \in DOMAIN offers : offers[i].price # "none"})

(* perfumemarket's listings say nothing of the stock. Without the price of a variant they *)
(* take the one beside it, of the product or of the page, and without any make no row.     *)
ListedRow(price, beside) ==
  IF price = {} /\ ~beside THEN {} ELSE {[priceOf |-> price, priced |-> TRUE, stockOf |-> {}]}

(* _pm_extract_offer: the first priced offer, else the first. *)
MarketOffer(offers) == FirstOf(IF PricedOf(offers) = {} THEN DOMAIN offers ELSE PricedOf(offers))

(* extract_product_page of perfumemarket: the price of that offer, or else the one beside *)
(* it; its stock, unless the product's own is worse (overruled).                         *)
MarketPageRow(offers, beside, overruled) ==
  IF PricedOf(offers) = {} /\ ~beside THEN {}
  ELSE {[priceOf |-> MarketOffer(offers) \cap PricedOf(offers), priced |-> TRUE,
         stockOf |-> IF overruled THEN {} ELSE MarketOffer(offers) \cap StockedOf(offers)]}

(* What a page of a shop may bring; {} is also a page of another product. *)
ShRowsOf(s, offers, beside) ==
  CASE s = "bplatz" -> BplatzRow(offers)
    [] s = "parfumcity" -> VariantRows(offers, TRUE)
    [] s = "orioudh" -> VariantRows(offers, FALSE)
    [] s = "perfumemarket" -> ListedRow(FirstPrice(offers), beside)
ShOutcomes ==
  [s \in Shops |-> {{}} \cup {ShRowsOf(s, offers, beside) : offers \in ShOfferLists, beside \in BOOLEAN}]
(* A card of the search page has the price of the card. *)
ListedOutcomes ==
  [c \in {"suggest", "html", "catalog"} |->
     {ListedRow(CASE c = "suggest" -> FirstPrice(offers)
                  [] c = "html" -> {}
                  [] c = "catalog" -> CatalogPrice(offers), beside)
        : offers \in ShOfferLists, beside \in BOOLEAN}]
HydratedOutcomes ==
  [s \in Shops |->
     {{}} \cup (IF s = "perfumemarket"
               THEN {MarketPageRow(offers, beside, overruled)
                       : offers \in ShOfferLists, beside \in BOOLEAN, overruled \in BOOLEAN}
               ELSE {ShRowsOf(s, offers, FALSE) : offers \in ShOfferLists})]

--------------------------------------------------------------------------------
(* What a channel says: an answer with candidates, an answer that is no JSON, JSON of   *)
(* another shape, or a failed request.                                                 *)
ShReplies == {"answer", "garbage", "odd", "failure"}
JsonChannels == {"suggest", "json", "catalog"}

(* The flag set before the request. *)
VerifiesByAsking(s, channel, reply) == s = "parfumcity" \/ reply = "answer"

(* Whether a reply counts as a verified discovery. bplatz's sitemap swallows its own    *)
(* failures; parfumcity counts every response, orioudh's and perfumemarket's flags are   *)
(* not used.                                                                           *)
Verifies(s, channel, reply) ==
  \/ reply = "answer"
  \/ s = "bplatz" /\ (channel = "sitemap" \/ reply = "odd")
  \/ s = "parfumcity" /\ reply # "failure"

(* Whether it is recorded as an error. *)
Errs(s, channel, reply) ==
  CASE s = "bplatz" -> reply # "answer" /\ channel # "sitemap" /\ ~(channel = "catalog" /\ reply = "odd")
    [] s = "parfumcity" -> reply = "failure" \/ (reply # "answer" /\ channel # "catalog")
    [] s = "orioudh" -> reply # "answer"
    [] s = "perfumemarket" -> FALSE

(* parfumcity stops asking after what it does not expect, and goes on with what it has; *)
(* orioudh lets JSON of another shape end the search.                                  *)
EndsDiscovery(s, channel, reply) ==
  /\ s = "parfumcity"
  /\ \/ reply = "odd" /\ channel # "catalog"
     \/ reply = "garbage" /\ channel = "suggest"
EndsSearch(s, reply) == s = "orioudh" /\ reply = "odd"

--------------------------------------------------------------------------------
ShInit == shop \in Shops /\ sh = ShIdle

ShBegin ==
  /\ sh.at \in {"idle", "done"}
  /\ \/ sh' = [ShIdle EXCEPT !.at = "channels"]
     \/ sh' = [ShIdle EXCEPT !.at = "done", !.heard = {"blank"}, !.answer.verified = TRUE]
  /\ UNCHANGED shop

(* A candidate without a row so far. *)
WithoutRow(urls) == {u \in urls : \A r \in sh.rows : r.url # u}
RowsFor(urls, rows) == {[url |-> u, row |-> r] : u \in urls, r \in rows}

(* perfumemarket makes rows of what is listed, the first of a URL is kept, and only its  *)
(* sitemap brings candidates.                                                           *)
Lists(channel) == shop = "perfumemarket" /\ channel # "sitemap"
Told(channel, reply, urls, row) ==
  [sh EXCEPT
     !.step = @ + 1,
     !.at = IF EndsSearch(shop, reply) THEN "failed"
            ELSE IF EndsDiscovery(shop, channel, reply) \/ sh.step = Len(Channels[shop]) THEN "pages"
            ELSE "channels",
     !.verified = @ \/ Verifies(shop, channel, reply),
     !.errors = @ \/ Errs(shop, channel, reply),
     !.found = @ \cup (IF Lists(channel) THEN {} ELSE WithoutRow(urls)),
     !.rows = @ \cup (IF Lists(channel) THEN RowsFor(WithoutRow(urls), row) ELSE {}),
     !.heard = @ \cup {IF reply = "answer" \/ urls # {} THEN "answer"
                       ELSE IF reply = "failure" THEN "failure" ELSE "unreadable"}]

(* One channel. The catalogue and the sitemaps are read in parts, so that a part may     *)
(* bring candidates before another fails.                                               *)
AskChannel ==
  /\ sh.at = "channels"
  /\ LET channel == Channels[shop][sh.step]
     IN \E reply \in ShReplies, urls \in SUBSET ShPages :
          /\ reply \in {"garbage", "odd"} => channel \in JsonChannels
          /\ reply = "answer" \/ channel \in {"catalog", "sitemap"} \/ urls = {}
          /\ \E row \in IF Lists(channel) THEN ListedOutcomes[channel] ELSE {{}} :
               sh' = Told(channel, reply, urls, row)
  /\ UNCHANGED shop

(* A candidate's page. perfumemarket, orioudh and bplatz go on without one that fails. *)
FetchShopPage(u) ==
  /\ sh.at = "pages" /\ u \in sh.found \ sh.pages
  /\ \/ sh' = [sh EXCEPT !.pages = @ \cup {u}, !.failed = TRUE, !.heard = @ \cup {"failure"}]
     \/ \E rows \in ShOutcomes[shop] :
          sh' = [sh EXCEPT !.pages = @ \cup {u}, !.heard = @ \cup {"answer"},
                           !.rows = @ \cup RowsFor({u}, rows)]
  /\ UNCHANGED shop

(* Without rows: bplatz asks whether the discovery was verified, parfumcity whether a   *)
(* page failed first, and the other two never call an empty result verified.           *)
VerifiedByDiscovery(search) == search.verified
VerifiedByAll(search) == search.verified /\ ~search.failed
EmptyVerified(s, search) ==
  CASE s = "bplatz" -> VerifiedByDiscovery(search)
    [] s = "parfumcity" -> VerifiedByAll(search)
    [] OTHER -> FALSE

ShReturn ==
  /\ sh.at = "pages" /\ sh.pages = sh.found
  /\ sh' = [sh EXCEPT !.at = "done",
                      !.answer = [verified |-> sh.rows # {} \/ EmptyVerified(shop, sh), rows |-> sh.rows # {}]]
  /\ UNCHANGED shop

(* What is not caught inside ends the search with an error. *)
ShRaises ==
  /\ sh.at \notin {"idle", "done"}
  /\ sh' = [sh EXCEPT !.at = "done", !.rows = {}]
  /\ UNCHANGED shop

(* The catalogue hydrates a page, in a process of its own. *)
HydrateShop ==
  /\ sh.at = "idle"
  /\ \E row \in HydratedOutcomes[shop] : sh' = [sh EXCEPT !.hydrated = row]
  /\ UNCHANGED shop

ShNext ==
  \/ ShBegin \/ AskChannel \/ ShReturn \/ ShRaises \/ HydrateShop
  \/ \E u \in ShPages : FetchShopPage(u)

ShSpec == ShInit /\ [][ShNext]_shVars

--------------------------------------------------------------------------------
ShType ==
  /\ shop \in Shops /\ sh.at \in {"idle", "channels", "pages", "failed", "done"}
  /\ sh.step \in 1 .. 6 /\ sh.pages \subseteq sh.found /\ sh.found \subseteq ShPages
  /\ sh.heard \subseteq {"answer", "unreadable", "failure", "blank"}

(* No row shows the price of a variant with the stock of another, however the variants'  *)
(* fields are missing or unreadable. A row of parfumcity or orioudh is of one variant     *)
(* altogether; one of perfumemarket may show the price of the product or of its page      *)
(* beside the stock of the first offer. bplatz's rows do mix two (a first priced offer,   *)
(* a last one with a stock).                                                             *)
RowsAreOfOneVariant ==
  shop # "bplatz" =>
    \A r \in {s.row : s \in sh.rows} \cup sh.hydrated :
      /\ \A i, j \in r.priceOf \cup r.stockOf : i = j
      /\ shop # "parfumcity" => r.priced
      /\ shop # "perfumemarket" => r.priceOf = r.stockOf /\ r.priceOf # {}

(* perfumemarket shows a URL once, with the price of its first source, however many     *)
(* channels list it and whatever its page says later.                                  *)
ListedOnce ==
  shop = "perfumemarket" => \A r, s \in sh.rows : r.url = s.url => r = s

(* ParfumCity verifies absence only after a response of the shop, and if no candidate's  *)
(* page has failed; Orioudh and PerfumeMarket verify that of a blank query alone.          *)
AbsenceWasHeard ==
  shop # "bplatz" /\ sh.at = "done" /\ sh.answer.verified /\ ~sh.answer.rows =>
    /\ ~sh.failed
    /\ sh.heard = {"blank"} \/ (shop = "parfumcity" /\ sh.heard \cap {"answer", "unreadable"} # {})

ShInv == ShType /\ RowsAreOfOneVariant /\ ListedOnce /\ AbsenceWasHeard

(* What main.py says of a report of a store: a technical failure never becomes absence. *)
(* Violated by bplatz, of which every channel may fail, and by parfumcity, for which a     *)
(* reply it cannot read, and records as an error, verifies the discovery all the same.     *)
OutageIsNotAbsence ==
  sh.at = "done" /\ sh.answer.verified /\ ~sh.answer.rows =>
    sh.heard \cap {"answer", "blank"} # {}

(* The promise of StoreSearch, with an unreadable reply as a failure, or as a response. *)
ShPhase == IF sh.at \in {"idle", "done"} THEN sh.at ELSE "asking"
HeardAs(unreadable) == {IF h = "unreadable" THEN unreadable ELSE h : h \in sh.heard}
ShPromise == INSTANCE StoreSearch WITH
  phase <- ShPhase, heard <- HeardAs("failure"), answer <- sh.answer
ShResponse == INSTANCE StoreSearch WITH
  phase <- ShPhase, heard <- HeardAs("answer"), answer <- sh.answer
==============================================================================
