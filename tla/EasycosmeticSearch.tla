-------------------------- MODULE EasycosmeticSearch --------------------------
(* search_stream of backend/scrapers/easycosmetic/scraper.py: one search page, its *)
(* candidates in a pool, then the variants their pages name and the candidates that  *)
(* failed, in a second pool; every page is parsed for the variant in its own URL.    *)
EXTENDS Naturals, FiniteSets

CONSTANTS
  EcPages,       \* candidate URLs
  EcVariants,    \* EcVariants[u]: variant URLs of the same product
  EcVariant      \* EcVariant[u]: the variant id of a URL, "none" without one

EcUrls == EcPages \cup UNION {EcVariants[u] : u \in EcPages}
ASSUME EcAssumption == \A u \in EcUrls : EcVariant[u] \in {"none", "v1", "v2"}

VARIABLE ec

EcIdle == [at |-> "idle", found |-> {}, urls |-> {}, tried |-> {}, html |-> {}, parsed |-> {},
           errors |-> {}, rows |-> {}, heard |-> {}, answer |-> [verified |-> FALSE, rows |-> FALSE]]

--------------------------------------------------------------------------------
(* The Products in a page's JSON-LD, each with the variant its URL or an offer names. *)
EcProducts == [variant : {"none", "v1", "v2"}, price : {0, 7}, stock : {"in", "out", "other", "none"}]
EcProductLists == {<<>>} \cup {<<p>> : p \in EcProducts}
  \cup {<<[variant |-> "v1", price |-> 7, stock |-> "in"], p>> : p \in EcProducts}
EcPageKinds ==
  [named : BOOLEAN, products : EcProductLists, displayed : {0, 8}, text : {"in", "out", "none"}]

(* The first Product, whichever variant is asked for. *)
FirstProductJson(products, variant) == IF products = <<>> THEN {} ELSE {products[1]}

(* _find_product_json: the first Product of the variant the URL asks for, and no other; *)
(* the first of all without one. {}: none.                                              *)
FindProductJson(products, variant) ==
  LET fitting == {i \in DOMAIN products : variant = "none" \/ products[i].variant = variant}
  IN {products[i] : i \in {j \in fitting : \A k \in fitting : j <= k}}

(* The stock of the Product if it states one, and else what the text of the page says. *)
(* Another statement than in or out of stock is unknown.                               *)
EcStock(json, text) ==
  IF \E p \in json : p.stock # "none"
  THEN LET p == CHOOSE p \in json : TRUE IN IF p.stock = "other" THEN "none" ELSE p.stock
  ELSE text

(* _parse_product_html: the displayed price wins. *)
EcRow(page, variant) ==
  LET json == FindProductJson(page.products, variant)
  IN IF ~page.named THEN {}
     ELSE {[variant |-> variant,
            of |-> {p.variant : p \in json},
            price |-> IF page.displayed # 0 THEN page.displayed
                      ELSE IF json = {} THEN 0 ELSE (CHOOSE p \in json : TRUE).price,
            stock |-> EcStock(json, page.text)]}
EcOutcomes == [v \in {"none", "v1", "v2"} |-> {EcRow(page, v) : page \in EcPageKinds}]

--------------------------------------------------------------------------------
EcInit == ec = EcIdle

EcBegin ==
  /\ ec.at \in {"idle", "done"}
  /\ \/ ec' = [EcIdle EXCEPT !.at = "search"]
     \/ ec' = [EcIdle EXCEPT !.at = "done", !.heard = {"blank"}, !.answer.verified = TRUE]

(* _request_html: the request, then a browser, and if both fail an error of the first; *)
(* a page of another host is an error at once. Here only success or failure counts.    *)
Replies == {"answer", "failure"}

(* The search page: its failure is the report; else its candidates with a score. *)
AskSearchPage ==
  /\ ec.at = "search"
  /\ \E reply \in Replies, urls \in SUBSET EcPages :
       /\ reply = "failure" => urls = {}
       /\ ec' = [ec EXCEPT !.heard = {reply}, !.found = urls,
                           !.at = IF reply = "failure" THEN "failed" ELSE "candidates"]

FetchCandidate(u) ==
  /\ ec.at = "candidates" /\ u \in ec.found \ ec.tried
  /\ \E reply \in Replies, variants \in SUBSET EcVariants[u] :
       /\ reply = "failure" => variants = {}
       /\ ec' = [ec EXCEPT !.tried = @ \cup {u}, !.heard = @ \cup {reply},
                           !.urls = @ \cup variants \cup {u},
                           !.html = @ \cup (IF reply = "answer" THEN {u} ELSE {}),
                           !.errors = @ \cup (IF reply = "answer" THEN {} ELSE {u})]

(* The variants and, once more, the candidates whose page is missing. *)
StartVariants ==
  /\ ec.at = "candidates" /\ ec.tried = ec.found
  /\ ec' = [ec EXCEPT !.at = "variants", !.tried = ec.html]

FetchVariant(u) ==
  /\ ec.at = "variants" /\ u \in ec.urls \ ec.tried
  /\ \E reply \in Replies :
       ec' = [ec EXCEPT !.tried = @ \cup {u}, !.heard = @ \cup {reply},
                        !.html = @ \cup (IF reply = "answer" THEN {u} ELSE {}),
                        !.errors = @ \cup (IF reply = "answer" THEN {} ELSE {u})]

(* A page that cannot be parsed is an error, one without a name is skipped. *)
ParsePage(u) ==
  /\ ec.at = "variants" /\ ec.tried = ec.urls /\ u \in ec.html \ ec.parsed
  /\ \/ ec' = [ec EXCEPT !.parsed = @ \cup {u}, !.errors = @ \cup {u}]
     \/ \E row \in EcOutcomes[EcVariant[u]] :
          ec' = [ec EXCEPT !.parsed = @ \cup {u},
                           !.rows = @ \cup {[url |-> u, row |-> r] : r \in row}]

SearchPageFailed == ec.at = "failed" /\ ec' = [ec EXCEPT !.at = "done"]

(* Rows are verified even if some pages failed; without rows an error counts. *)
EcReturn ==
  /\ ec.at = "variants" /\ ec.tried = ec.urls /\ ec.parsed = ec.html
  /\ ec' = [ec EXCEPT !.at = "done",
                      !.answer = [verified |-> ec.rows # {} \/ ec.errors = {}, rows |-> ec.rows # {}]]

EcRaises ==
  /\ ec.at \notin {"idle", "done"}
  /\ ec' = [ec EXCEPT !.at = "done"]

EcNext ==
  \/ EcBegin \/ AskSearchPage \/ SearchPageFailed \/ StartVariants \/ EcReturn \/ EcRaises
  \/ \E u \in EcUrls : (u \in EcPages /\ FetchCandidate(u)) \/ FetchVariant(u) \/ ParsePage(u)

EcSpec == EcInit /\ [][EcNext]_ec

--------------------------------------------------------------------------------
EcType ==
  /\ ec.at \in {"idle", "search", "failed", "candidates", "variants", "done"}
  /\ ec.found \subseteq EcPages /\ ec.urls \subseteq EcUrls /\ ec.html \subseteq ec.urls
  /\ ec.parsed \subseteq ec.html /\ ec.errors \subseteq EcUrls

(* "Must not silently be assigned another variant's data": the row of a variant URL is *)
(* of no other variant's Product.                                                     *)
RowIsOfTheVariant == \A r \in ec.rows : r.row.variant # "none" => r.row.of \subseteq {r.row.variant}

(* An empty answer is verified only if the search page answered and no page failed,    *)
(* neither at first nor when it was fetched again.                                    *)
EmptyIsVerified ==
  ec.at = "done" /\ ec.answer.verified /\ ~ec.answer.rows =>
    "failure" \notin ec.heard /\ ec.errors = {} /\ ec.heard # {}

EcInv == EcType /\ RowIsOfTheVariant /\ EmptyIsVerified

EcPromise == INSTANCE StoreSearch WITH
  phase <- IF ec.at \in {"idle", "done"} THEN ec.at ELSE "asking",
  heard <- ec.heard, answer <- ec.answer
==============================================================================
