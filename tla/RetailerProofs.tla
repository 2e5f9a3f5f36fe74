------------------------------ MODULE RetailerProofs ------------------------------
(* Proofs about the retailer modules: what their rows may show, and that each keeps   *)
(* the promise of StoreSearch.                                                        *)
EXTENDS Retailers, TLAPS

Answers == [verified : BOOLEAN, rows : BOOLEAN]
Blank == [verified |-> TRUE, rows |-> FALSE]
Unanswered == [verified |-> FALSE, rows |-> FALSE]
Heard == {"answer", "failure", "blank"}

-----------------------------------------------------------------------------------
(* Parfumzentrum. *)
PzRowsOf == [price : {6, 7, 8, NoPrice}, state : {"in_stock", "out_of_stock", "unknown"}]
PzSearch ==
  [at : {"idle", "endpoints", "form", "sitemap", "pages", "done"}, query : PzQueries,
   asked : 0 .. Endpoints, zero : BOOLEAN, found : SUBSET PzPages,
   from : {"none", "search", "form", "sitemap"}, pages : SUBSET PzPages,
   rows : SUBSET [url : PzPages, price : {6, 7, 8, NoPrice},
                  state : {"in_stock", "out_of_stock", "unknown"}],
   heard : SUBSET Heard, answer : Answers]

(* A search that asks has heard no blank query and has no answer yet; before the pages *)
(* are fetched there are none, and what it has found is not from the sitemap.          *)
PzOK(p) ==
  /\ p \in PzSearch
  /\ p.pages \subseteq p.found
  /\ \A r \in p.rows : /\ r.url \in p.pages /\ (r.price = NoPrice => r.state # "unknown")
                       /\ \A s \in p.rows : r.url = s.url => r = s
  /\ p.from = "sitemap" /\ p.query # "stopwords" => \A u \in p.found : PzText[u] = "all"
  /\ p.at = "endpoints" => p.asked < Endpoints
  /\ p.at \in {"endpoints", "form", "sitemap"} =>
       p.pages = {} /\ p.rows = {} /\ p.from # "sitemap"
  /\ p.at \notin {"idle", "done"} => "blank" \notin p.heard /\ p.answer = Unanswered
  /\ p.at = "pages" /\ p.rows # {} => "answer" \in p.heard
  /\ p.at = "idle" => p.heard = {} /\ p.answer = Unanswered

PzIInv == PzOK(pz) /\ pzIndex \in [urls : SUBSET PzPages, fresh : BOOLEAN]

LEMMA PublicPriceOK ==
  ASSUME NEW nodes \in SUBSET PriceNodes, NEW ld \in {NoPrice, 1, 6}, NEW code \in BOOLEAN
  PROVE  PublicPrice(nodes, ld, code) \in {6, 7, 8, NoPrice}
<1> DEFINE best == {n \in Eligible(nodes) : \A m \in Eligible(nodes) : m.score <= n.score}
           cheapest == CHOOSE n \in best : \A m \in best : n.price <= m.price
<1>1. \A n \in best : n.price \in {7, 8}
  BY DEF Eligible, PriceNodes
<1>2. CASE best # {}
  <2>1. \E n \in best : \A m \in best : n.price <= m.price
    <3>1. CASE \E n \in best : n.price = 7
      BY <1>1, <3>1
    <3>2. CASE \A n \in best : n.price = 8
      BY <1>2, <3>2
    <3> QED
      BY <1>1, <3>1, <3>2
  <2>2. cheapest \in best
    BY <2>1
  <2>3. PublicPrice(nodes, ld, code) = cheapest.price
    BY <1>2 DEF PublicPrice
  <2> QED
    BY <1>1, <2>2, <2>3
<1>3. CASE best = {}
  BY <1>3 DEF PublicPrice, NoPrice
<1> QED
  BY <1>2, <1>3

LEMMA PzRowOK ==
  ASSUME NEW q \in PzQueries, NEW row \in PzOutcomes[q]
  PROVE  \/ row = {}
         \/ \E r \in PzRowsOf : row = {r} /\ (r.price = NoPrice => r.state # "unknown")
<1>1. PICK page \in PzPageKinds : row = PzRow(page, q)
  BY DEF PzOutcomes
<1> DEFINE price == PublicPrice(page.nodes, page.ld, page.code)
           r == [price |-> price, state |-> page.state]
<1>2. /\ page.nodes \in SUBSET PriceNodes /\ page.ld \in {NoPrice, 1, 6}
      /\ page.state \in {"in_stock", "out_of_stock", "unknown"} /\ page.code \in BOOLEAN
  BY DEF PzPageKinds
<1>3. price \in {6, 7, 8, NoPrice}
  BY <1>2, PublicPriceOK
<1>4. row = {} \/ (row = {r} /\ (price # NoPrice \/ page.state # "unknown"))
  BY <1>1 DEF PzRow
<1>5. r \in PzRowsOf /\ r.price = price /\ r.state = page.state
  BY <1>2, <1>3 DEF PzRowsOf
<1> HIDE DEF price, r
<1> QED
  BY <1>4, <1>5

LEMMA PzIdleOK ==
  \A at \in {"idle", "endpoints"}, q \in PzQueries :
    LET p == [PzIdle EXCEPT !.at = at, !.query = q] IN
      /\ PzOK(p) /\ p.at = at /\ p.heard = {} /\ p.answer = Unanswered
<1> SUFFICES ASSUME NEW at \in {"idle", "endpoints"}, NEW q \in PzQueries
             PROVE  LET p == [PzIdle EXCEPT !.at = at, !.query = q] IN
                      /\ PzOK(p) /\ p.at = at /\ p.heard = {} /\ p.answer = Unanswered
  OBVIOUS
<1> DEFINE p == [PzIdle EXCEPT !.at = at, !.query = q]
<1>1. /\ PzIdle \in PzSearch /\ PzIdle.pages = {} /\ PzIdle.rows = {} /\ PzIdle.found = {}
      /\ PzIdle.from = "none" /\ PzIdle.asked = 0 /\ PzIdle.heard = {}
      /\ PzIdle.answer = Unanswered
  BY DEF PzIdle, PzSearch, PzQueries, Endpoints, Heard, Answers, Unanswered
<1>2. p \in PzSearch /\ p.at = at
  BY <1>1 DEF PzSearch
<1>3. /\ p.pages = {} /\ p.rows = {} /\ p.found = {} /\ p.from = "none"
      /\ p.asked = 0 /\ p.heard = {} /\ p.answer = Unanswered
  BY <1>1 DEF PzSearch
<1> HIDE DEF p
<1>4. PzOK(p)
  BY <1>2, <1>3 DEF PzOK, Endpoints
<1> QED
  BY <1>3, <1>4 DEF p

LEMMA PzBeginOK ==
  ASSUME PzIInv, PzBegin
  PROVE  PzIInv' /\ PzPromise!StoreNext
<1>1. pz.at \in {"idle", "done"} /\ UNCHANGED pzIndex
  BY DEF PzBegin
<1>2. CASE pz' = [PzIdle EXCEPT !.at = "done", !.heard = {"blank"}, !.answer.verified = TRUE]
  <2>1. pz' = [at |-> "done", query |-> "blank", asked |-> 0, zero |-> FALSE, found |-> {},
               from |-> "none", pages |-> {}, rows |-> {}, heard |-> {"blank"},
               answer |-> [verified |-> TRUE, rows |-> FALSE]]
    BY <1>2 DEF PzIdle
  <2>2. pz' \in PzSearch
    BY <2>1 DEF PzSearch, Endpoints, Heard, Answers, PzQueries
  <2>3. /\ pz'.at = "done" /\ pz'.pages = {} /\ pz'.rows = {} /\ pz'.found = {}
        /\ pz'.from = "none" /\ pz'.heard = {"blank"} /\ pz'.answer = Blank
    BY <2>1 DEF Blank
  <2>4. PzOK(pz')
    BY <2>2, <2>3 DEF PzOK
  <2>5. PzPromise!AnswerBlank
    BY <1>1, <2>3 DEF PzPromise!AnswerBlank, Blank
  <2> QED
    BY <1>1, <2>4, <2>5 DEF PzIInv, PzPromise!StoreNext
<1>3. ASSUME NEW q \in PzQueries, pz' = [PzIdle EXCEPT !.at = "endpoints", !.query = q]
      PROVE  PzIInv' /\ PzPromise!StoreNext
  <2>1. PzOK(pz') /\ pz'.at = "endpoints" /\ pz'.heard = {} /\ pz'.answer = Unanswered
    BY <1>3, PzIdleOK
  <2>2. PzPromise!Ask
    BY <1>1, <2>1 DEF PzPromise!Ask, PzPromise!NoAnswer, Unanswered
  <2> QED
    BY <1>1, <2>1, <2>2 DEF PzIInv, PzPromise!StoreNext
<1> QED
  BY <1>2, <1>3 DEF PzBegin

(* A source answers or fails: the search goes on asking. *)
LEMMA PzHears ==
  ASSUME PzIInv, pz.at \notin {"idle", "done"}, PzOK(pz)', pz'.at \notin {"idle", "done"},
         pz.heard \subseteq pz'.heard
  PROVE  PzPromise!StoreNext
<1>1. pz'.answer = pz.answer /\ pz'.heard \subseteq {"answer", "failure"}
  BY DEF PzIInv, PzOK, PzSearch, Heard
<1>2. PzPromise!Hear
  BY <1>1 DEF PzPromise!Hear
<1> QED
  BY <1>2 DEF PzPromise!StoreNext

LEMMA AskEndpointOK ==
  ASSUME PzIInv, AskEndpoint
  PROVE  PzIInv' /\ PzPromise!StoreNext
<1> DEFINE next == IF pz.asked + 1 = Endpoints THEN "form" ELSE "endpoints"
<1>1. /\ PzOK(pz) /\ pz.at = "endpoints" /\ UNCHANGED pzIndex
      /\ pz.asked + 1 \in 0 .. Endpoints /\ (next = "endpoints" => pz.asked + 1 < Endpoints)
  <2>1. PzOK(pz) /\ pz.at = "endpoints" /\ UNCHANGED pzIndex
    BY DEF PzIInv, AskEndpoint
  <2>2. pz.asked \in 0 .. Endpoints /\ pz.asked < Endpoints
    BY <2>1 DEF PzOK, PzSearch
  <2> QED
    BY <2>1, <2>2 DEF Endpoints
<1>2. CASE pz' = [pz EXCEPT !.asked = @ + 1, !.at = next, !.heard = @ \cup {"failure"}]
  <2>1. /\ pz' \in PzSearch /\ pz'.at = next /\ pz'.asked = pz.asked + 1
        /\ pz'.heard = pz.heard \cup {"failure"}
    BY <1>1, <1>2 DEF PzOK, PzSearch, Heard
  <2>2. /\ pz'.pages = pz.pages /\ pz'.found = pz.found /\ pz'.rows = pz.rows
        /\ pz'.from = pz.from /\ pz'.query = pz.query /\ pz'.answer = pz.answer
    BY <1>1, <1>2 DEF PzOK, PzSearch
  <2> HIDE DEF next
  <2>3. PzOK(pz')
    BY <1>1, <2>1, <2>2 DEF PzOK, next
  <2> QED
    BY <1>1, <2>1, <2>3, PzHears DEF PzIInv, next
<1>3. ASSUME NEW page \in [urls : SUBSET PzPages, echoed : BOOLEAN, zero : BOOLEAN],
             pz' = [pz EXCEPT !.asked = @ + 1, !.at = next, !.heard = @ \cup {"answer"},
                              !.found = @ \cup Relevant(page.urls), !.from = "search",
                              !.zero = @ \/ SaysZero(page)]
      PROVE  PzIInv' /\ PzPromise!StoreNext
  <2>0. /\ Relevant(page.urls) \in SUBSET PzPages /\ (pz.zero \/ SaysZero(page)) \in BOOLEAN
        /\ pz \in PzSearch
    BY <1>1 DEF Relevant, SaysZero, PzOK, PzSearch
  <2>1. /\ pz' \in PzSearch /\ pz'.at = next /\ pz'.asked = pz.asked + 1
        /\ pz'.heard = pz.heard \cup {"answer"} /\ pz'.from = "search"
        /\ pz'.found = pz.found \cup Relevant(page.urls)
    BY <1>1, <1>3, <2>0 DEF PzSearch, Heard
  <2>2. /\ pz'.pages = pz.pages /\ pz'.rows = pz.rows
        /\ pz'.query = pz.query /\ pz'.answer = pz.answer
    BY <1>1, <1>3, <2>0 DEF PzSearch
  <2> HIDE DEF next
  <2>3. PzOK(pz')
    BY <1>1, <2>1, <2>2 DEF PzOK, next
  <2> QED
    BY <1>1, <2>1, <2>3, PzHears DEF PzIInv, next
<1> QED
  BY <1>2, <1>3 DEF AskEndpoint

LEMMA AskFormOK ==
  ASSUME PzIInv, AskForm
  PROVE  PzIInv' /\ PzPromise!StoreNext
<1>1. PzOK(pz) /\ pz \in PzSearch /\ pz.at = "form" /\ UNCHANGED pzIndex
  BY DEF PzIInv, PzOK, AskForm
<1>2. ASSUME NEW found \in SUBSET PzPages, NEW heard \in {"answer", "failure"},
             NEW from \in {"none", "search", "form"}, NEW zero \in BOOLEAN,
             pz' = [pz EXCEPT !.at = "sitemap", !.found = found, !.from = from, !.zero = zero,
                              !.heard = pz.heard \cup {heard}]
      PROVE  PzIInv' /\ PzPromise!StoreNext
  <2>1. /\ pz' \in PzSearch /\ pz'.at = "sitemap" /\ pz'.found = found /\ pz'.from = from
        /\ pz'.heard = pz.heard \cup {heard}
    BY <1>1, <1>2 DEF PzSearch, Heard
  <2>2. pz'.pages = pz.pages /\ pz'.rows = pz.rows /\ pz'.answer = pz.answer
    BY <1>1, <1>2 DEF PzSearch
  <2>3. PzOK(pz')
    BY <1>1, <2>1, <2>2 DEF PzOK
  <2> QED
    BY <1>1, <2>1, <2>3, PzHears DEF PzIInv
<1>3. CASE pz' = [pz EXCEPT !.at = "sitemap", !.zero = @ /\ pz.found = {}]
  <2>1. pz' \in PzSearch /\ pz'.at = "sitemap"
    BY <1>1, <1>3 DEF PzSearch
  <2>2. /\ pz'.pages = pz.pages /\ pz'.rows = pz.rows /\ pz'.answer = pz.answer
        /\ pz'.found = pz.found /\ pz'.from = pz.from /\ pz'.heard = pz.heard
        /\ pz'.query = pz.query
    BY <1>1, <1>3 DEF PzSearch
  <2>3. PzOK(pz')
    BY <1>1, <2>1, <2>2 DEF PzOK
  <2> QED
    BY <1>1, <2>1, <2>2, <2>3, PzHears DEF PzIInv
<1>4. CASE pz.found = {} /\ ~pz.zero
  <2>1. ASSUME NEW urls \in SUBSET PzPages,
               pz' = [pz EXCEPT !.at = "sitemap", !.found = Relevant(urls), !.from = "form",
                                !.heard = @ \cup {"answer"}]
        PROVE  PzIInv' /\ PzPromise!StoreNext
    <3>1. pz' = [pz EXCEPT !.at = "sitemap", !.found = Relevant(urls), !.from = "form",
                           !.zero = pz.zero, !.heard = pz.heard \cup {"answer"}]
      BY <1>1, <2>1 DEF PzSearch
    <3>2. Relevant(urls) \in SUBSET PzPages /\ pz.zero \in BOOLEAN
      BY <1>1 DEF Relevant, PzSearch
    <3> QED
      BY <1>2, <3>1, <3>2
  <2>2. CASE pz' = [pz EXCEPT !.at = "sitemap", !.heard = @ \cup {"failure"}]
    <3>1. pz' = [pz EXCEPT !.at = "sitemap", !.found = pz.found, !.from = pz.from,
                           !.zero = pz.zero, !.heard = pz.heard \cup {"failure"}]
      BY <1>1, <2>2 DEF PzSearch
    <3>2. /\ pz.found \in SUBSET PzPages /\ pz.zero \in BOOLEAN
          /\ pz.from \in {"none", "search", "form"}
      BY <1>1 DEF PzOK, PzSearch
    <3> QED
      BY <1>2, <3>1, <3>2
  <2> QED
    BY <1>4, <2>1, <2>2 DEF AskForm
<1> QED
  BY <1>3, <1>4 DEF AskForm

LEMMA SitemapOK ==
  ASSUME PzIInv, UseSitemap \/ SkipSitemap
  PROVE  PzIInv' /\ PzPromise!StoreNext
<1>1. /\ PzOK(pz) /\ pz \in PzSearch /\ pz.at = "sitemap"
      /\ pzIndex \in [urls : SUBSET PzPages, fresh : BOOLEAN]
  BY DEF PzIInv, PzOK, UseSitemap, SkipSitemap
(* The sitemap has answered with these pages of its own, or not at all. *)
<1>2. ASSUME NEW urls \in SUBSET PzPages, NEW heard \in SUBSET {"answer", "failure"},
             pz' = [pz EXCEPT !.at = "pages", !.from = "sitemap", !.found = InSitemap(urls),
                              !.heard = pz.heard \cup heard]
      PROVE  PzOK(pz)' /\ pz'.at = "pages" /\ pz.heard \subseteq pz'.heard
  <2>0. InSitemap(urls) \in SUBSET PzPages
    BY DEF InSitemap
  <2>1. /\ pz' \in PzSearch /\ pz'.at = "pages" /\ pz'.from = "sitemap"
        /\ pz'.found = InSitemap(urls) /\ pz'.heard = pz.heard \cup heard
    BY <1>1, <1>2, <2>0 DEF PzSearch, Heard
  <2>2. /\ pz'.pages = pz.pages /\ pz'.rows = pz.rows /\ pz'.answer = pz.answer
        /\ pz'.query = pz.query
    BY <1>1, <1>2 DEF PzSearch
  <2>3. pz.query # "stopwords" => \A u \in InSitemap(urls) : PzText[u] = "all"
    BY DEF InSitemap
  <2> QED
    BY <1>1, <2>1, <2>2, <2>3 DEF PzOK
<1>3. ASSUME pz' = [pz EXCEPT !.at = "pages", !.heard = pz.heard \cup {"failure"}]
      PROVE  PzOK(pz)' /\ pz'.at = "pages" /\ pz.heard \subseteq pz'.heard
  <2>1. pz' \in PzSearch /\ pz'.at = "pages" /\ pz'.heard = pz.heard \cup {"failure"}
    BY <1>1, <1>3 DEF PzSearch, Heard
  <2>2. /\ pz'.pages = pz.pages /\ pz'.rows = pz.rows /\ pz'.answer = pz.answer
        /\ pz'.found = pz.found /\ pz'.from = pz.from /\ pz'.query = pz.query
    BY <1>1, <1>3 DEF PzSearch
  <2> QED
    BY <1>1, <2>1, <2>2 DEF PzOK
<1>4. ASSUME PzOK(pz)', pz'.at = "pages", pz.heard \subseteq pz'.heard,
             pzIndex' \in [urls : SUBSET PzPages, fresh : BOOLEAN]
      PROVE  PzIInv' /\ PzPromise!StoreNext
  BY <1>1, <1>4, PzHears DEF PzIInv
<1>5. CASE SkipSitemap
  <2>1. pz' = [pz EXCEPT !.at = "pages"] /\ pzIndex' = pzIndex
    BY <1>5 DEF SkipSitemap
  <2>2. /\ pz' \in PzSearch /\ pz'.at = "pages" /\ pz'.heard = pz.heard
        /\ pz'.pages = pz.pages /\ pz'.rows = pz.rows /\ pz'.answer = pz.answer
    BY <1>1, <2>1 DEF PzSearch
  <2>3. pz'.found = pz.found /\ pz'.from = pz.from /\ pz'.query = pz.query
    BY <1>1, <2>1 DEF PzSearch
  <2>4. PzOK(pz)'
    BY <1>1, <2>2, <2>3 DEF PzOK
  <2> QED
    BY <1>1, <1>4, <2>1, <2>2, <2>4
<1>6. CASE /\ pz' = [pz EXCEPT !.at = "pages", !.from = "sitemap",
                                !.found = InSitemap(pzIndex.urls), !.heard = @ \cup {"answer"}]
           /\ UNCHANGED pzIndex
  <2>1. pzIndex.urls \in SUBSET PzPages
    BY <1>1
  <2>2. PzOK(pz)' /\ pz'.at = "pages" /\ pz.heard \subseteq pz'.heard
    BY <1>2, <1>6, <2>1
  <2> QED
    BY <1>1, <1>4, <1>6, <2>2
<1>7. CASE pz' = [pz EXCEPT !.at = "pages", !.heard = @ \cup {"failure"}] /\ UNCHANGED pzIndex
  <2>1. PzOK(pz)' /\ pz'.at = "pages" /\ pz.heard \subseteq pz'.heard
    BY <1>3, <1>7
  <2> QED
    BY <1>1, <1>4, <1>7, <2>1
<1>8. ASSUME NEW failed \in SUBSET PzMaps,
             pzIndex' = [urls |-> SitemapUrls(failed), fresh |-> TRUE],
             pz' = [pz EXCEPT !.at = "pages", !.from = "sitemap",
                      !.found = InSitemap(SitemapUrls(failed)),
                      !.heard = @ \cup {"answer"} \cup (IF failed # {} THEN {"failure"} ELSE {})]
      PROVE  PzIInv' /\ PzPromise!StoreNext
  <2> DEFINE heard == {"answer"} \cup (IF failed # {} THEN {"failure"} ELSE {})
             urls == SitemapUrls(failed)
  <2>1. urls \in SUBSET PzPages
    BY DEF SitemapUrls
  <2>2. pzIndex' \in [urls : SUBSET PzPages, fresh : BOOLEAN]
    BY <1>8, <2>1
  <2>3. pz' = [pz EXCEPT !.at = "pages", !.from = "sitemap", !.found = InSitemap(urls),
                         !.heard = pz.heard \cup heard]
    BY <1>8
  <2>4. heard \in SUBSET {"answer", "failure"}
    OBVIOUS
  <2> HIDE DEF heard, urls
  <2>5. PzOK(pz)' /\ pz'.at = "pages" /\ pz.heard \subseteq pz'.heard
    BY <1>2, <2>1, <2>3, <2>4
  <2> QED
    BY <1>4, <2>2, <2>5
<1> QED
  BY <1>5, <1>6, <1>7, <1>8 DEF UseSitemap

LEMMA FetchPageOK ==
  ASSUME PzIInv, NEW u \in PzPages, FetchPage(u)
  PROVE  PzIInv' /\ PzPromise!StoreNext
<1>1. /\ PzOK(pz) /\ pz \in PzSearch /\ pz.at = "pages" /\ UNCHANGED pzIndex
      /\ u \in pz.found /\ u \notin pz.pages
  BY DEF PzIInv, PzOK, FetchPage
<1>2. CASE pz' = [pz EXCEPT !.pages = @ \cup {u}, !.heard = @ \cup {"failure"}]
  <2>1. /\ pz' \in PzSearch /\ pz'.pages = pz.pages \cup {u}
        /\ pz'.heard = pz.heard \cup {"failure"} /\ pz'.at = "pages"
    BY <1>1, <1>2 DEF PzSearch, Heard
  <2>2. /\ pz'.rows = pz.rows /\ pz'.answer = pz.answer /\ pz'.found = pz.found
        /\ pz'.from = pz.from /\ pz'.query = pz.query
    BY <1>1, <1>2 DEF PzSearch
  <2>3. PzOK(pz')
    BY <1>1, <2>1, <2>2 DEF PzOK
  <2> QED
    BY <1>1, <2>1, <2>3, PzHears DEF PzIInv
<1>3. ASSUME NEW row \in PzOutcomes[pz.query],
             pz' = [pz EXCEPT !.pages = @ \cup {u}, !.heard = @ \cup {"answer"},
                      !.rows = @ \cup {[url |-> u, price |-> r.price, state |-> r.state] : r \in row}]
      PROVE  PzIInv' /\ PzPromise!StoreNext
  <2> DEFINE new == {[url |-> u, price |-> r.price, state |-> r.state] : r \in row}
             Row == [url : PzPages, price : {6, 7, 8, NoPrice},
                     state : {"in_stock", "out_of_stock", "unknown"}]
  <2>1. \/ row = {}
        \/ \E r \in PzRowsOf : row = {r} /\ (r.price = NoPrice => r.state # "unknown")
    BY <1>1, <1>3, PzRowOK DEF PzSearch
  <2>2. /\ new \subseteq Row
        /\ \A r \in new : /\ r.url = u /\ (r.price = NoPrice => r.state # "unknown")
                          /\ \A s \in new : r = s
    BY <2>1 DEF PzRowsOf
  <2>3. pz' = [pz EXCEPT !.pages = pz.pages \cup {u}, !.heard = pz.heard \cup {"answer"},
                         !.rows = pz.rows \cup new]
    BY <1>3
  <2> HIDE DEF new
  <2>4. /\ pz' \in PzSearch /\ pz'.pages = pz.pages \cup {u} /\ pz'.rows = pz.rows \cup new
        /\ pz'.heard = pz.heard \cup {"answer"} /\ pz'.at = "pages"
    BY <1>1, <2>2, <2>3 DEF PzSearch, Heard
  <2>5. /\ pz'.answer = pz.answer /\ pz'.found = pz.found
        /\ pz'.from = pz.from /\ pz'.query = pz.query
    BY <1>1, <2>3 DEF PzSearch
  <2>6. \A r \in pz'.rows :
          /\ r.url \in pz'.pages /\ (r.price = NoPrice => r.state # "unknown")
          /\ \A s \in pz'.rows : r.url = s.url => r = s
    BY <1>1, <2>2, <2>4 DEF PzOK
  <2>7. PzOK(pz')
    BY <1>1, <2>4, <2>5, <2>6 DEF PzOK
  <2> QED
    BY <1>1, <2>4, <2>7, PzHears DEF PzIInv
<1> QED
  BY <1>2, <1>3 DEF FetchPage

LEMMA PzEndsOK ==
  ASSUME PzIInv, PzReturn \/ PzRaises
  PROVE  PzIInv' /\ PzPromise!StoreNext
<1>1. /\ PzOK(pz) /\ pz \in PzSearch /\ pz.at \notin {"idle", "done"} /\ UNCHANGED pzIndex
      /\ pz.answer = Unanswered
  BY DEF PzIInv, PzOK, PzReturn, PzRaises
<1>2. ASSUME NEW some \in BOOLEAN, pz'.answer = [verified |-> some, rows |-> some],
             pz' = [pz EXCEPT !.at = "done", !.answer = pz'.answer],
             some => "answer" \in pz.heard
      PROVE  PzIInv' /\ PzPromise!StoreNext
  <2>0. pz'.answer \in Answers
    BY <1>2 DEF Answers
  <2>1. pz' \in PzSearch /\ pz'.at = "done"
    BY <1>1, <1>2, <2>0 DEF PzSearch
  <2>2. /\ pz'.rows = pz.rows /\ pz'.pages = pz.pages /\ pz'.found = pz.found
        /\ pz'.from = pz.from /\ pz'.query = pz.query /\ pz'.heard = pz.heard
    BY <1>1, <1>2 DEF PzSearch
  <2>3. PzOK(pz')
    BY <1>1, <2>1, <2>2 DEF PzOK
  <2>4. PzPromise!Return
    BY <1>1, <1>2, <2>1, <2>2 DEF PzPromise!Return
  <2> QED
    BY <1>1, <2>3, <2>4 DEF PzIInv, PzPromise!StoreNext
<1>3. CASE PzReturn
  <2>1. pz' = [pz EXCEPT !.at = "done",
                 !.answer = [verified |-> pz.rows # {}, rows |-> pz.rows # {}]]
    BY <1>3 DEF PzReturn
  <2>2. pz.rows # {} => "answer" \in pz.heard
    BY <1>1, <1>3 DEF PzOK, PzReturn
  <2>3. pz'.answer = [verified |-> pz.rows # {}, rows |-> pz.rows # {}]
    BY <1>1, <2>1 DEF PzSearch
  <2> QED
    BY <1>2, <2>1, <2>2, <2>3
<1>4. CASE PzRaises
  <2>1. pz'.answer = [verified |-> FALSE, rows |-> FALSE]
    BY <1>1, <1>4 DEF PzRaises, PzSearch, Unanswered
  <2>2. pz' = [pz EXCEPT !.at = "done", !.answer = pz'.answer]
    BY <1>1, <1>4 DEF PzRaises, PzSearch
  <2> QED
    BY <1>2, <2>1, <2>2
<1> QED
  BY <1>3, <1>4

LEMMA PzInitOK == PzInit => PzIInv /\ PzPromise!StoreInit
<1> SUFFICES ASSUME PzInit PROVE PzIInv /\ PzPromise!StoreInit
  OBVIOUS
<1>1. /\ pz \in PzSearch /\ pz.pages = {} /\ pz.rows = {} /\ pz.found = {} /\ pz.at = "idle"
      /\ pz.from = "none" /\ pz.heard = {} /\ pz.answer = Unanswered
  BY DEF PzInit, PzIdle, PzSearch, PzQueries, Endpoints, Heard, Answers, Unanswered
<1>2. PzOK(pz)
  BY <1>1 DEF PzOK
<1> QED
  BY <1>1, <1>2 DEF PzInit, PzIInv, PzPromise!StoreInit, PzPromise!NoAnswer, Unanswered

LEMMA PzNextOK == PzIInv /\ [PzNext]_pzVars => PzIInv' /\ PzPromise!StoreStep
<1> SUFFICES ASSUME PzIInv, [PzNext]_pzVars PROVE PzIInv' /\ PzPromise!StoreStep
  OBVIOUS
<1>1. ASSUME UNCHANGED pz, pzIndex' \in [urls : SUBSET PzPages, fresh : BOOLEAN]
      PROVE  PzIInv' /\ PzPromise!StoreStep
  BY <1>1 DEF PzIInv, PzOK, PzPromise!StoreStep, PzPromise!storeVars
<1>2. CASE SitemapGrowsOld
  BY <1>1, <1>2 DEF SitemapGrowsOld, PzIInv
<1>3. CASE UNCHANGED pzVars
  BY <1>1, <1>3 DEF pzVars, PzIInv
<1>4. ASSUME NEW u \in PzPages, FetchPage(u) PROVE PzIInv' /\ PzPromise!StoreNext
  BY <1>4, FetchPageOK
<1> QED
  BY <1>2, <1>3, <1>4, PzBeginOK, AskEndpointOK, AskFormOK, SitemapOK, PzEndsOK
     DEF PzNext, PzPromise!StoreStep

(* No row of Parfumzentrum carries a struck, a coupon or a placeholder price, whichever *)
(* nodes surround the public one.                                                        *)
THEOREM PzInvariant == PzSpec => []PzInv
<1>1. PzIInv => PzInv
  BY DEF PzIInv, PzOK, PzSearch, PzInv, PzType, PriceIsPublic, RowsWereFetched
<1> QED
  BY <1>1, PzInitOK, PzNextOK, PTL DEF PzSpec

-----------------------------------------------------------------------------------
(* Deloox. *)
DxRows == UNION (DxNamedOutcomes \cup DxSizedOutcomes \cup DxKnownOutcomes)
DxSearch ==
  [at : {"idle", "surfaces", "paging", "categories", "sitemaps", "pages", "done"},
   query : DxQueries, page : 1 .. DxSearchPages, found : SUBSET DxPages,
   pages : SUBSET DxPages, rows : SUBSET [url : DxPages, row : DxRows],
   verified : SUBSET {"search", "category", "sitemap"}, technical : BOOLEAN,
   heard : SUBSET Heard, hydrated : SUBSET DxRows, answer : Answers]

(* What is found or verified was answered, what the categories or the sitemaps verified *)
(* they have found, and a technical failure has found nothing.                          *)
DxOK(d) ==
  /\ d \in DxSearch
  /\ d.pages \subseteq d.found
  /\ d.technical => d.found = {} /\ d.verified = {} /\ d.at \in {"pages", "done"}
  /\ d.at \notin {"idle", "done"} => "blank" \notin d.heard /\ d.answer = Unanswered
  /\ d.at \notin {"pages", "done"} => d.pages = {} /\ d.rows = {}
  /\ d.rows # {} => d.found # {}
  /\ d.at = "surfaces" => d.heard = {}
  /\ d.at = "categories" => d.found = {}
  /\ d.at = "paging" => "answer" \in d.heard
  /\ d.at \in {"categories", "sitemaps"} /\ (d.found # {} \/ d.verified # {}) =>
       "answer" \in d.heard
  /\ d.at \notin {"pages", "done"} => d.verified \subseteq {"search"} \/ d.found # {}
  /\ d.at = "paging" => d.found # {}
  /\ d.at = "pages" => (d.technical <=> d.found = {} /\ "search" \notin d.verified)
  /\ d.at = "pages" /\ ~d.technical => "answer" \in d.heard
  /\ d.at = "done" /\ d.answer.verified /\ ~d.answer.rows =>
       d.heard = {"blank"} \/ "search" \in d.verified \/ (d.found # {} /\ d.pages = d.found)
  /\ d.at = "idle" => d.heard = {} /\ d.answer = Unanswered

LEMMA DxRowOK ==
  ASSUME NEW page, NEW sized \in BOOLEAN, NEW document \in BOOLEAN,
         NEW r \in DxRow(page, sized, document)
  PROVE  /\ r.sized => r.states = {50}
         /\ r.stock = "out_of_stock" <=> r.price = 0
         /\ r.seen # "unknown" => r.stock = r.seen
<1> DEFINE stockOf(offer) == DxStock(page, offer, document)
           priceOf(offer) == IF stockOf(offer) = "out_of_stock" THEN 0
                             ELSE IF offer.price # 0 THEN offer.price ELSE page.visible
           rowOf(offer) == [sized |-> sized, states |-> page.sizes \cup offer.sizes \cup page.text,
                            price |-> priceOf(offer), stock |-> stockOf(offer),
                            seen |-> IF document THEN page.controls ELSE "unknown"]
<1>1. PICK offer \in ChosenOffer(page, sized) :
        /\ SizeAccepted(page, offer, sized)
        /\ priceOf(offer) # 0 \/ stockOf(offer) = "out_of_stock"
        /\ r = rowOf(offer)
  BY DEF DxRow
<1>2. /\ r.sized = sized /\ r.states = page.sizes \cup offer.sizes \cup page.text
      /\ r.price = priceOf(offer) /\ r.stock = stockOf(offer)
      /\ r.seen = IF document THEN page.controls ELSE "unknown"
  BY <1>1
<1>3. r.sized => r.states = {50}
  BY <1>1, <1>2 DEF SizeAccepted
<1>4. r.stock = "out_of_stock" <=> r.price = 0
  BY <1>1, <1>2
<1>5. r.seen # "unknown" => r.stock = r.seen
  BY <1>2 DEF DxStock
<1> QED
  BY <1>3, <1>4, <1>5

LEMMA DxRowsOK ==
  \A r \in DxRows : /\ r.sized => r.states = {50}
                    /\ r.stock = "out_of_stock" <=> r.price = 0
                    /\ r.seen # "unknown" => r.stock = r.seen
<1> SUFFICES ASSUME NEW r \in DxRows
             PROVE  /\ r.sized => r.states = {50}
                    /\ r.stock = "out_of_stock" <=> r.price = 0
                    /\ r.seen # "unknown" => r.stock = r.seen
  OBVIOUS
<1>1. CASE r \in UNION DxNamedOutcomes
  <2>1. PICK page \in DxPageKinds : r \in DxRow(page, FALSE, TRUE)
    BY <1>1 DEF DxNamedOutcomes
  <2> QED
    BY <2>1, DxRowOK
<1>2. CASE r \in UNION DxSizedOutcomes
  <2>1. PICK page \in DxPageKinds : r \in DxRow(page, TRUE, TRUE)
    BY <1>2 DEF DxSizedOutcomes
  <2> QED
    BY <2>1, DxRowOK
<1>3. CASE r \in UNION DxKnownOutcomes
  <2>1. PICK page \in DxPageKinds, sized \in BOOLEAN : r \in DxKnownRow(page, sized)
    BY <1>3 DEF DxKnownOutcomes
  <2> DEFINE known == [page EXCEPT !.words = TRUE]
             document == ~\E i \in DOMAIN page.offers : page.offers[i].price # 0
  <2>2. document \in BOOLEAN /\ r \in DxRow(known, sized, document)
    BY <2>1 DEF DxKnownRow
  <2> HIDE DEF known, document
  <2> QED
    BY <2>2, DxRowOK
<1> QED
  BY <1>1, <1>2, <1>3 DEF DxRows

LEMMA DxIdleOK ==
  /\ DxIdle \in DxSearch /\ DxIdle.pages = {} /\ DxIdle.rows = {} /\ DxIdle.found = {}
  /\ DxIdle.verified = {} /\ DxIdle.technical = FALSE /\ DxIdle.heard = {}
  /\ DxIdle.answer = Unanswered /\ DxIdle.at = "idle"
<1>1. 1 \in 1 .. DxSearchPages
  BY DxAssumption
<1> QED
  BY <1>1 DEF DxIdle, DxSearch, DxQueries, Heard, Answers, Unanswered

LEMMA DxHears ==
  ASSUME DxOK(dx), dx.at \notin {"idle", "done"}, DxOK(dx)', dx'.at \notin {"idle", "done"},
         dx.heard \subseteq dx'.heard
  PROVE  DxOK(dx)' /\ DxPromise!StoreNext
<1>1. dx'.answer = dx.answer /\ dx'.heard \subseteq {"answer", "failure"}
  BY DEF DxOK, DxSearch, Heard
<1>2. DxPromise!Hear
  BY <1>1 DEF DxPromise!Hear
<1> QED
  BY <1>2 DEF DxPromise!StoreNext

LEMMA DxBeginOK == ASSUME DxOK(dx), DxBegin PROVE DxOK(dx)' /\ DxPromise!StoreNext
<1>1. dx.at \in {"idle", "done"}
  BY DEF DxBegin
<1>2. CASE dx' = [DxIdle EXCEPT !.at = "done", !.heard = {"blank"}, !.answer.verified = TRUE]
  <2>1. dx' = [at |-> "done", query |-> "blank", page |-> 1, found |-> {}, pages |-> {},
               rows |-> {}, verified |-> {}, technical |-> FALSE, heard |-> {"blank"},
               hydrated |-> {}, answer |-> [verified |-> TRUE, rows |-> FALSE]]
    BY <1>2 DEF DxIdle
  <2>2. 1 \in 1 .. DxSearchPages
    BY DxAssumption
  <2>3. /\ dx' \in DxSearch /\ dx'.at = "done" /\ dx'.heard = {"blank"} /\ dx'.answer = Blank
    BY <2>1, <2>2 DEF DxSearch, Heard, Answers, Blank, DxQueries
  <2>4. dx'.pages = {} /\ dx'.rows = {} /\ dx'.technical = FALSE
    BY <2>1
  <2>5. DxOK(dx')
    BY <2>3, <2>4 DEF DxOK
  <2>6. DxPromise!AnswerBlank
    BY <1>1, <2>3 DEF DxPromise!AnswerBlank, Blank
  <2> QED
    BY <2>5, <2>6 DEF DxPromise!StoreNext
<1>3. ASSUME NEW q \in DxQueries, dx' = [DxIdle EXCEPT !.at = "surfaces", !.query = q]
      PROVE  DxOK(dx)' /\ DxPromise!StoreNext
  <2>1. dx' \in DxSearch /\ dx'.at = "surfaces"
    BY <1>3, DxIdleOK DEF DxSearch
  <2>2. /\ dx'.pages = {} /\ dx'.rows = {} /\ dx'.technical = FALSE /\ dx'.heard = {}
        /\ dx'.answer = Unanswered /\ dx'.found = {} /\ dx'.verified = {}
    BY <1>3, DxIdleOK DEF DxSearch
  <2>3. DxOK(dx')
    BY <2>1, <2>2 DEF DxOK
  <2>4. DxPromise!Ask
    BY <1>1, <2>1, <2>2 DEF DxPromise!Ask, DxPromise!NoAnswer, Unanswered
  <2> QED
    BY <2>3, <2>4 DEF DxPromise!StoreNext
<1> QED
  BY <1>2, <1>3 DEF DxBegin

(* A step of the discovery: what it found, verified and heard, and where it goes.      *)
LEMMA DxDiscovers ==
  ASSUME DxOK(dx), dx.at \in {"surfaces", "paging", "categories", "sitemaps"}, dx' \in DxSearch,
         dx'.at \in {"paging", "categories", "sitemaps", "pages"},
         dx'.pages = dx.pages, dx'.rows = dx.rows, dx'.answer = dx.answer,
         dx.heard \subseteq dx'.heard, "blank" \notin dx'.heard,
         dx'.technical => dx'.at = "pages" /\ dx'.found = {} /\ dx'.verified = {},
         dx'.at = "categories" => dx'.found = {}, dx'.at = "paging" => dx'.found # {},
         dx'.verified \subseteq {"search"} \/ dx'.found # {},
         dx'.at = "pages" => (dx'.technical <=> dx'.found = {} /\ "search" \notin dx'.verified),
         dx'.at = "paging" \/ (dx'.at = "pages" /\ ~dx'.technical) => "answer" \in dx'.heard,
         dx'.found # {} \/ dx'.verified # {} => "answer" \in dx'.heard
  PROVE  DxOK(dx)' /\ DxPromise!StoreNext
<1>1. DxOK(dx')
  BY DEF DxOK
<1> QED
  BY <1>1, DxHears

LEMMA AskSurfacesOK == ASSUME DxOK(dx), AskSurfaces PROVE DxOK(dx)' /\ DxPromise!StoreNext
<1>1. dx \in DxSearch /\ dx.at = "surfaces" /\ dx.heard = {} /\ dx.technical = FALSE
  BY DEF DxOK, AskSurfaces, DxSearch
<1>2. SUFFICES ASSUME NEW answering \in SUBSET DxSurfaces,
                      NEW lists \in [answering -> SUBSET DxPages],
       LET finding == {s \in answering : lists[s] # {}}
           best == {s \in finding : \A t \in finding : SurfaceRank[s] <= SurfaceRank[t]}
       IN \E found \in IF finding = {} THEN {{}} ELSE {lists[s] : s \in best} :
            dx' = [dx EXCEPT !.at = IF finding # {} THEN "paging" ELSE "categories",
                             !.found = found,
                             !.verified = IF answering # {} THEN {"search"} ELSE {},
                             !.heard = (IF answering # {} THEN {"answer"} ELSE {})
                                  \cup (IF answering # DxSurfaces THEN {"failure"} ELSE {})]
               PROVE  DxOK(dx)' /\ DxPromise!StoreNext
  BY DEF AskSurfaces
<1> DEFINE finding == {s \in answering : lists[s] # {}}
           best == {s \in finding : \A t \in finding : SurfaceRank[s] <= SurfaceRank[t]}
           at == IF finding # {} THEN "paging" ELSE "categories"
           verified == IF answering # {} THEN {"search"} ELSE {}
           heard == (IF answering # {} THEN {"answer"} ELSE {})
                      \cup (IF answering # DxSurfaces THEN {"failure"} ELSE {})
<1>0. PICK found \in IF finding = {} THEN {{}} ELSE {lists[s] : s \in best} :
        dx' = [dx EXCEPT !.at = at, !.found = found, !.verified = verified, !.heard = heard]
  BY <1>2
<1>3. /\ found \in SUBSET DxPages /\ heard \in SUBSET {"answer", "failure"}
      /\ verified \in SUBSET {"search"} /\ at \in {"paging", "categories"}
      /\ (at = "categories" => found = {}) /\ (at = "paging" => "answer" \in heard /\ found # {})
      /\ (found # {} \/ verified # {} => "answer" \in heard)
  <2>1. CASE finding = {}
    BY <1>0, <2>1
  <2>2. CASE finding # {}
    <3>1. PICK s \in best : found = lists[s]
      BY <1>0, <2>2
    <3>2. s \in answering /\ lists[s] # {} /\ lists[s] \in SUBSET DxPages
      BY <3>1
    <3> QED
      BY <2>2, <3>1, <3>2
  <2> QED
    BY <2>1, <2>2
<1>4. dx' = [dx EXCEPT !.at = at, !.found = found, !.verified = verified, !.heard = heard]
  BY <1>0
<1> HIDE DEF finding, best, at, verified, heard
<1>5. /\ dx' \in DxSearch /\ dx'.at = at /\ dx'.found = found /\ dx'.verified = verified
      /\ dx'.heard = heard
  BY <1>1, <1>3, <1>4 DEF DxSearch, Heard
<1>6. /\ dx'.pages = dx.pages /\ dx'.rows = dx.rows /\ dx'.answer = dx.answer
      /\ dx'.technical = FALSE
  BY <1>1, <1>4 DEF DxSearch
<1> QED
  BY <1>1, <1>3, <1>5, <1>6, DxDiscovers

LEMMA NextPageOK == ASSUME DxOK(dx), NextPage PROVE DxOK(dx)' /\ DxPromise!StoreNext
<1>1. /\ dx \in DxSearch /\ dx.at = "paging" /\ dx.technical = FALSE /\ "answer" \in dx.heard
      /\ "blank" \notin dx.heard /\ dx.found # {}
  BY DEF DxOK, NextPage, DxSearch
<1>2. CASE dx' = [dx EXCEPT !.at = "pages"]
  <2>1. /\ dx' \in DxSearch /\ dx'.at = "pages" /\ dx'.heard = dx.heard
        /\ dx'.technical = FALSE /\ dx'.found = dx.found
    BY <1>1, <1>2 DEF DxSearch
  <2>2. /\ dx'.pages = dx.pages /\ dx'.rows = dx.rows /\ dx'.answer = dx.answer
    BY <1>1, <1>2 DEF DxSearch
  <2> QED
    BY <1>1, <2>1, <2>2, DxDiscovers
<1>3. CASE dx' = [dx EXCEPT !.at = "pages", !.heard = @ \cup {"failure"}]
  <2>1. /\ dx' \in DxSearch /\ dx'.at = "pages" /\ dx'.heard = dx.heard \cup {"failure"}
        /\ dx'.technical = FALSE /\ dx'.found = dx.found
    BY <1>1, <1>3 DEF DxSearch, Heard
  <2>2. /\ dx'.pages = dx.pages /\ dx'.rows = dx.rows /\ dx'.answer = dx.answer
    BY <1>1, <1>3 DEF DxSearch
  <2> QED
    BY <1>1, <2>1, <2>2, DxDiscovers
<1>4. ASSUME NEW urls \in SUBSET DxPages, dx.page < DxSearchPages,
             dx' = [dx EXCEPT !.page = @ + 1, !.found = @ \cup urls,
                              !.at = IF urls \subseteq dx.found THEN "pages" ELSE "paging"]
      PROVE  DxOK(dx)' /\ DxPromise!StoreNext
  <2> DEFINE at == IF urls \subseteq dx.found THEN "pages" ELSE "paging"
  <2>1. dx.page + 1 \in 1 .. DxSearchPages
    BY <1>1, <1>4, DxAssumption DEF DxSearch
  <2>2. at \in {"pages", "paging"}
    OBVIOUS
  <2>3. dx' = [dx EXCEPT !.page = dx.page + 1, !.found = dx.found \cup urls, !.at = at]
    BY <1>4
  <2> HIDE DEF at
  <2>4. /\ dx' \in DxSearch /\ dx'.at = at /\ dx'.heard = dx.heard /\ dx'.technical = FALSE
        /\ dx'.found = dx.found \cup urls
    BY <1>1, <2>1, <2>2, <2>3 DEF DxSearch
  <2>5. /\ dx'.pages = dx.pages /\ dx'.rows = dx.rows /\ dx'.answer = dx.answer
    BY <1>1, <2>3 DEF DxSearch
  <2> QED
    BY <1>1, <2>2, <2>4, <2>5, DxDiscovers
<1> QED
  BY <1>2, <1>3, <1>4 DEF NextPage

LEMMA AskCategoriesOK == ASSUME DxOK(dx), AskCategories PROVE DxOK(dx)' /\ DxPromise!StoreNext
<1>1. /\ dx \in DxSearch /\ dx.at = "categories" /\ dx.technical = FALSE
      /\ "blank" \notin dx.heard /\ (dx.verified # {} => "answer" \in dx.heard) /\ dx.found = {}
      /\ dx.verified \subseteq {"search"}
  BY DEF DxOK, AskCategories, DxSearch
<1>2. CASE dx' = [dx EXCEPT !.at = "sitemaps", !.heard = @ \cup {"failure"}]
  <2>1. /\ dx' \in DxSearch /\ dx'.at = "sitemaps" /\ dx'.heard = dx.heard \cup {"failure"}
        /\ dx'.technical = FALSE /\ dx'.found = dx.found
    BY <1>1, <1>2 DEF DxSearch, Heard
  <2>2. /\ dx'.pages = dx.pages /\ dx'.rows = dx.rows /\ dx'.answer = dx.answer
        /\ dx'.verified = dx.verified
    BY <1>1, <1>2 DEF DxSearch
  <2> QED
    BY <1>1, <2>1, <2>2, DxDiscovers
<1>3. ASSUME NEW urls \in SUBSET DxPages,
             dx' = [dx EXCEPT !.at = "sitemaps", !.found = urls, !.heard = @ \cup {"answer"},
                      !.verified = @ \cup (IF urls # {} THEN {"category"} ELSE {})]
      PROVE  DxOK(dx)' /\ DxPromise!StoreNext
  <2>1. /\ dx' \in DxSearch /\ dx'.at = "sitemaps" /\ dx'.heard = dx.heard \cup {"answer"}
        /\ dx'.technical = FALSE /\ dx'.found = urls
        /\ dx'.verified \subseteq {"search"} \/ urls # {}
    BY <1>1, <1>3 DEF DxSearch, Heard
  <2>2. /\ dx'.pages = dx.pages /\ dx'.rows = dx.rows /\ dx'.answer = dx.answer
    BY <1>1, <1>3 DEF DxSearch
  <2> QED
    BY <1>1, <2>1, <2>2, DxDiscovers
<1> QED
  BY <1>2, <1>3 DEF AskCategories

LEMMA AskSitemapsOK == ASSUME DxOK(dx), AskSitemaps PROVE DxOK(dx)' /\ DxPromise!StoreNext
<1>1. /\ dx \in DxSearch /\ dx.at = "sitemaps" /\ "blank" \notin dx.heard
      /\ (dx.found # {} \/ dx.verified # {} => "answer" \in dx.heard)
      /\ dx.verified \subseteq {"search"} \/ dx.found # {}
  BY DEF DxOK, AskSitemaps
<1>2. PICK sitemap \in SitemapAnswers :
       LET urls == sitemap.urls
           verified == dx.verified \cup (IF urls # {} THEN {"sitemap"} ELSE {})
       IN dx' = [dx EXCEPT !.at = "pages", !.found = @ \cup urls, !.verified = verified,
                           !.technical = dx.found \cup urls = {} /\ verified = {},
                           !.heard = @ \cup {sitemap.heard}]
  BY DEF AskSitemaps
<1> DEFINE urls == sitemap.urls
           found == dx.found \cup urls
           verified == dx.verified \cup (IF urls # {} THEN {"sitemap"} ELSE {})
<1>3. /\ urls \in SUBSET DxPages /\ sitemap.heard \in {"answer", "failure"}
      /\ (urls # {} => sitemap.heard = "answer")
  BY DEF SitemapAnswers
<1>4. /\ found \in SUBSET DxPages /\ verified \in SUBSET {"search", "category", "sitemap"}
      /\ (found # {} \/ verified # {} => "answer" \in dx.heard \cup {sitemap.heard})
      /\ verified \subseteq {"search"} \/ found # {}
  BY <1>1, <1>3 DEF DxSearch
<1>5. dx' = [dx EXCEPT !.at = "pages", !.found = found, !.verified = verified,
                       !.technical = found = {} /\ verified = {},
                       !.heard = dx.heard \cup {sitemap.heard}]
  BY <1>2
<1> HIDE DEF urls, found, verified
<1>6. /\ dx' \in DxSearch /\ dx'.at = "pages" /\ dx'.found = found /\ dx'.verified = verified
      /\ dx'.heard = dx.heard \cup {sitemap.heard}
  BY <1>1, <1>3, <1>4, <1>5 DEF DxSearch, Heard
<1>7. dx'.technical <=> found = {} /\ verified = {}
  BY <1>1, <1>5 DEF DxSearch
<1>8. dx'.pages = dx.pages /\ dx'.rows = dx.rows /\ dx'.answer = dx.answer
  BY <1>1, <1>5 DEF DxSearch
<1> QED
  BY <1>1, <1>3, <1>4, <1>6, <1>7, <1>8, DxDiscovers

LEMMA FetchProductOK ==
  ASSUME DxOK(dx), NEW u \in DxPages, FetchProduct(u)
  PROVE  DxOK(dx)' /\ DxPromise!StoreNext
<1>1. dx \in DxSearch /\ dx.at = "pages" /\ u \in dx.found /\ u \notin dx.pages
  BY DEF DxOK, FetchProduct
<1>2. ASSUME NEW new \in SUBSET [url : DxPages, row : DxRows], NEW heard \in {"answer", "failure"},
             dx' = [dx EXCEPT !.pages = dx.pages \cup {u}, !.heard = dx.heard \cup {heard},
                              !.rows = dx.rows \cup new]
      PROVE  DxOK(dx)' /\ DxPromise!StoreNext
  <2>1. /\ dx' \in DxSearch /\ dx'.pages = dx.pages \cup {u} /\ dx'.at = "pages"
        /\ dx'.heard = dx.heard \cup {heard} /\ dx'.found = dx.found
    BY <1>1, <1>2 DEF DxSearch, Heard
  <2>2. /\ dx'.technical = dx.technical /\ dx'.answer = dx.answer
        /\ dx'.verified = dx.verified
    BY <1>1, <1>2 DEF DxSearch
  <2>3. DxOK(dx')
    BY <1>1, <2>1, <2>2 DEF DxOK
  <2> QED
    BY <1>1, <2>1, <2>3, DxHears
<1>3. CASE dx' = [dx EXCEPT !.pages = @ \cup {u}, !.heard = @ \cup {"failure"}]
  <2>1. dx' = [dx EXCEPT !.pages = dx.pages \cup {u}, !.heard = dx.heard \cup {"failure"},
                         !.rows = dx.rows \cup {}]
    BY <1>1, <1>3 DEF DxSearch
  <2> QED
    BY <1>2, <2>1
<1>4. ASSUME NEW row \in DxOutcomes(dx.query),
             dx' = [dx EXCEPT !.pages = @ \cup {u}, !.heard = @ \cup {"answer"},
                              !.rows = @ \cup {[url |-> u, row |-> r] : r \in row}]
      PROVE  DxOK(dx)' /\ DxPromise!StoreNext
  <2>1. row \subseteq DxRows
    BY DEF DxOutcomes, DxRows
  <2>2. {[url |-> u, row |-> r] : r \in row} \in SUBSET [url : DxPages, row : DxRows]
    BY <2>1
  <2> QED
    BY <1>2, <1>4, <2>2
<1> QED
  BY <1>3, <1>4 DEF FetchProduct

LEMMA DxEndsOK == ASSUME DxOK(dx), DxReturn \/ DxRaises PROVE DxOK(dx)' /\ DxPromise!StoreNext
<1>1. dx \in DxSearch /\ dx.at \notin {"idle", "done"} /\ dx.answer = Unanswered
  BY DEF DxOK, DxReturn, DxRaises
<1>2. ASSUME NEW answer \in Answers, dx' = [dx EXCEPT !.at = "done", !.answer = answer],
             answer.verified \/ answer.rows => "answer" \in dx.heard,
             answer.verified => "search" \in dx.verified \/ (dx.found # {} /\ dx.pages = dx.found)
      PROVE  DxOK(dx)' /\ DxPromise!StoreNext
  <2>1. dx' \in DxSearch /\ dx'.at = "done" /\ dx'.answer = answer /\ dx'.heard = dx.heard
    BY <1>1, <1>2 DEF DxSearch
  <2>2. /\ dx'.rows = dx.rows /\ dx'.pages = dx.pages /\ dx'.found = dx.found
        /\ dx'.verified = dx.verified /\ dx'.technical = dx.technical
    BY <1>1, <1>2 DEF DxSearch
  <2>3. dx'.answer.verified => "search" \in dx'.verified \/ (dx'.found # {} /\ dx'.pages = dx'.found)
    BY <1>2, <2>1, <2>2
  <2>4. /\ dx.pages \subseteq dx.found /\ (dx.rows # {} => dx.found # {})
        /\ dx.technical => dx.found = {} /\ dx.verified = {}
    BY DEF DxOK
  <2>5. DxOK(dx')
    BY <2>1, <2>2, <2>3, <2>4 DEF DxOK
  <2>6. DxPromise!Return
    BY <1>1, <1>2, <2>1 DEF DxPromise!Return, Answers
  <2> QED
    BY <2>5, <2>6 DEF DxPromise!StoreNext
<1>3. CASE DxReturn
  <2> DEFINE answer == [verified |-> ~dx.technical, rows |-> dx.rows # {}]
  <2>1. answer \in Answers /\ (answer.verified <=> ~dx.technical) /\ (answer.rows <=> dx.rows # {})
    BY <1>1 DEF Answers, DxSearch
  <2>2. dx' = [dx EXCEPT !.at = "done", !.answer = answer]
    BY <1>3 DEF DxReturn
  <2>3. /\ ~dx.technical \/ dx.rows # {} => "answer" \in dx.heard
        /\ ~dx.technical => "search" \in dx.verified \/ (dx.found # {} /\ dx.pages = dx.found)
    BY <1>1, <1>3 DEF DxOK, DxReturn
  <2> HIDE DEF answer
  <2> QED
    BY <1>2, <2>1, <2>2, <2>3
<1>4. CASE DxRaises
  <2>1. dx' = [dx EXCEPT !.at = "done", !.answer = Unanswered]
    BY <1>1, <1>4 DEF DxRaises, DxSearch
  <2>2. Unanswered \in Answers /\ ~Unanswered.verified /\ ~Unanswered.rows
    BY DEF Answers, Unanswered
  <2> QED
    BY <1>2, <2>1, <2>2
<1> QED
  BY <1>3, <1>4

LEMMA HydrateDelooxOK == ASSUME DxOK(dx), HydrateDeloox PROVE DxOK(dx)' /\ DxPromise!StoreStep
<1>1. dx \in DxSearch /\ dx.at = "idle"
  BY DEF DxOK, HydrateDeloox
<1>2. PICK row \in DxKnownOutcomes : dx' = [dx EXCEPT !.hydrated = row]
  BY DEF HydrateDeloox
<1>3. row \subseteq DxRows
  BY DEF DxRows
<1>4. /\ dx' \in DxSearch /\ dx'.at = dx.at /\ dx'.heard = dx.heard
      /\ dx'.answer = dx.answer
  BY <1>1, <1>2, <1>3 DEF DxSearch
<1>5. /\ dx'.rows = dx.rows /\ dx'.pages = dx.pages /\ dx'.found = dx.found
      /\ dx'.verified = dx.verified /\ dx'.technical = dx.technical
  BY <1>1, <1>2 DEF DxSearch
<1>6. DxOK(dx')
  BY <1>1, <1>4, <1>5 DEF DxOK
<1> QED
  BY <1>4, <1>6 DEF DxPromise!StoreStep, DxPromise!storeVars

LEMMA DxInitOK == DxInit => DxOK(dx) /\ DxPromise!StoreInit
  BY DxIdleOK DEF DxInit, DxOK, DxPromise!StoreInit, DxPromise!NoAnswer, Unanswered

LEMMA DxNextOK == DxOK(dx) /\ [DxNext]_dx => DxOK(dx)' /\ DxPromise!StoreStep
<1> SUFFICES ASSUME DxOK(dx), [DxNext]_dx PROVE DxOK(dx)' /\ DxPromise!StoreStep
  OBVIOUS
<1>1. CASE UNCHANGED dx
  BY <1>1 DEF DxOK, DxPromise!StoreStep, DxPromise!storeVars
<1> QED
  BY <1>1, DxBeginOK, AskSurfacesOK, NextPageOK, AskCategoriesOK, AskSitemapsOK, FetchProductOK,
     DxEndsOK, HydrateDelooxOK DEF DxNext, DxPromise!StoreStep

(* No search of Deloox for a size shows a row that states another one, no row sold out *)
(* has a price, and an empty result is verified only if a search surface has answered, *)
(* or there were candidates and each was asked for.                                     *)
THEOREM DxInvariant == DxSpec => []DxInv
<1>1. DxOK(dx) => DxInv
  <2> SUFFICES ASSUME DxOK(dx) PROVE DxInv
    OBVIOUS
  <2>1. DxType /\ OutageIsTold
    BY DEF DxOK, DxSearch, DxType, OutageIsTold
  <2>2. {s.row : s \in dx.rows} \cup dx.hydrated \subseteq DxRows
    BY DEF DxOK, DxSearch
  <2> QED
    BY <2>1, <2>2, DxRowsOK DEF DxInv, RowIsOfTheSize
<1> QED
  BY <1>1, DxInitOK, DxNextOK, PTL DEF DxSpec

-----------------------------------------------------------------------------------
(* Sabina. *)
SbBy == [offer : {"none", "own", "one of several", "only"}, othersize : BOOLEAN, priced : BOOLEAN]
SbRowSet == [url : SbPages, matches : BOOLEAN, by : SbBy]
SbKnown ==
  {[outer |-> o, inner |-> i, stock |-> s, variants |-> VariantsOf(o, i)] :
     o \in SbObjects(7), i \in SbObjects(9), s \in SbStocks}
SbSearch ==
  [at : {"idle", "endpoints", "browser", "sitemap", "sellboost", "pages", "done"},
   asked : 0 .. SbEndpoints, found : SUBSET SbPages, authoritative : BOOLEAN,
   pages : SUBSET SbPages, rows : SUBSET SbRowSet, hydrated : SUBSET SbKnown,
   heard : SUBSET Heard, answer : Answers]

SbOK(s) ==
  /\ s \in SbSearch
  /\ s.pages \subseteq s.found
  /\ \A r \in s.rows : /\ r.by.offer # "one of several" /\ ~r.by.othersize
                       /\ r.matches \/ s.authoritative
                       /\ \A q \in s.rows : SbProduct[r.url] = SbProduct[q.url] => r = q
  /\ s.at = "endpoints" => s.asked < SbEndpoints
  /\ s.at \notin {"pages", "done"} => s.pages = {} /\ s.rows = {}
  /\ s.at \notin {"idle", "done"} => "blank" \notin s.heard /\ s.answer = Unanswered
  /\ s.at = "pages" /\ s.rows # {} => "answer" \in s.heard
  /\ s.at = "idle" => s.heard = {} /\ s.answer = Unanswered

(* The offer that prices a page is one of its own, or its only one, and of its size.   *)
LEMMA SelectOfferOK ==
  ASSUME NEW offers \in SbOfferLists, NEW size \in {0, 50, 100}
  PROVE  LET o == SelectOffer(offers, size) IN
         /\ o = NoSbOffer \/ o.own \/ Len(offers) = 1
         /\ size # 0 => o.size \in {0, size}
<1> DEFINE own == {i \in DOMAIN offers : offers[i].own}
           cands == IF own # {} THEN own ELSE IF Len(offers) = 1 THEN {1} ELSE {}
           sized == {i \in cands : offers[i].size = size}
           left == IF size = 0 THEN cands
                   ELSE IF sized # {} THEN sized
                   ELSE IF \E i \in cands : offers[i].size # 0 THEN {} ELSE cands
           priced == {i \in left : offers[i].price # 0}
           best == IF priced # {} THEN priced ELSE left
           first == CHOOSE i \in best : \A j \in best : i <= j
<1>1. SelectOffer(offers, size) = IF best = {} THEN NoSbOffer ELSE offers[first]
  BY DEF SelectOffer
<1>2. DOMAIN offers \subseteq {1, 2} /\ (Len(offers) = 1 => DOMAIN offers = {1})
  BY DEF SbOfferLists
<1>3. cands \subseteq DOMAIN offers /\ \A i \in cands : offers[i].own \/ Len(offers) = 1
  BY <1>2
<1>4. left \subseteq cands /\ \A i \in left : size # 0 => offers[i].size \in {0, size}
  OBVIOUS
<1> HIDE DEF own, cands, sized, left
<1>5. best \subseteq left
  OBVIOUS
<1>6. CASE best = {}
  BY <1>1, <1>6 DEF NoSbOffer
<1>7. CASE best # {}
  <2>1. \E i \in best : \A j \in best : i <= j
    BY <1>2, <1>3, <1>4, <1>5, <1>7
  <2> HIDE DEF best
  <2>2. first \in best
    BY <2>1
  <2> HIDE DEF first
  <2> QED
    BY <1>1, <1>3, <1>4, <1>5, <1>7, <2>2
<1> QED
  BY <1>6, <1>7

LEMMA SbPricedOK ==
  \A by \in SbPriced : by \in SbBy /\ by.offer # "one of several" /\ ~by.othersize
<1> SUFFICES ASSUME NEW by \in SbPriced
             PROVE  by \in SbBy /\ by.offer # "one of several" /\ ~by.othersize
  OBVIOUS
<1>1. PICK offers \in SbOfferLists, size \in {0, 50, 100}, visible \in BOOLEAN :
        by = PricedBy(offers, size, visible)
  BY DEF SbPriced
<1> DEFINE o == SelectOffer(offers, size)
           named == IF o = NoSbOffer THEN "none" ELSE IF o.own THEN "own"
                    ELSE IF Len(offers) > 1 THEN "one of several" ELSE "only"
           other == size # 0 /\ o.size \notin {0, size}
           some == o.price # 0 \/ visible
<1>2. by = [offer |-> named, othersize |-> other, priced |-> some]
  BY <1>1 DEF PricedBy
<1>3. o = NoSbOffer \/ o.own \/ Len(offers) = 1
  BY SelectOfferOK
<1>4. size # 0 => o.size \in {0, size}
  BY SelectOfferOK
<1> HIDE DEF o
<1>5. named \in {"none", "own", "only"}
  <2>1. CASE o = NoSbOffer
    BY <2>1
  <2>2. CASE o # NoSbOffer /\ o.own
    BY <2>2
  <2>3. CASE o # NoSbOffer /\ ~o.own
    <3>1. Len(offers) = 1
      BY <1>3, <2>3
    <3>2. ~(Len(offers) > 1)
      BY <3>1
    <3> QED
      BY <2>3, <3>2
  <2> QED
    BY <2>1, <2>2, <2>3
<1>6. other = FALSE
  BY <1>4
<1>7. some \in BOOLEAN
  OBVIOUS
<1> HIDE DEF named, other, some
<1> QED
  BY <1>2, <1>5, <1>6, <1>7 DEF SbBy

LEMMA SbKnownOK ==
  \A h \in SbKnown : \A v \in h.variants :
    v.size = (IF v.price = h.outer.price \/ h.inner.size = 0 THEN h.outer.size ELSE h.inner.size)
<1> SUFFICES ASSUME NEW o \in SbObjects(7), NEW i \in SbObjects(9), NEW v \in VariantsOf(o, i)
             PROVE  v.size = (IF v.price = o.price \/ i.size = 0 THEN o.size ELSE i.size)
  BY DEF SbKnown
<1>1. o.price \in {0, 7} /\ i.price \in {0, 9}
  BY DEF SbObjects
<1>2. \/ v = [size |-> o.size, price |-> o.price]
      \/ v = [size |-> IF i.size # 0 THEN i.size ELSE o.size, price |-> i.price]
  BY DEF VariantsOf
<1>3. v.price # 0
  BY DEF VariantsOf
<1> QED
  BY <1>1, <1>2, <1>3

LEMMA SbIdleOK ==
  /\ SbIdle \in SbSearch /\ SbIdle.pages = {} /\ SbIdle.rows = {} /\ SbIdle.found = {}
  /\ SbIdle.asked = 0 /\ SbIdle.heard = {} /\ SbIdle.answer = Unanswered /\ SbIdle.at = "idle"
<1>1. 0 \in 0 .. SbEndpoints
  BY SbAssumption
<1> QED
  BY <1>1 DEF SbIdle, SbSearch, Heard, Answers, Unanswered

LEMMA SbHears ==
  ASSUME SbOK(sb), sb.at \notin {"idle", "done"}, SbOK(sb)', sb'.at \notin {"idle", "done"},
         sb.heard \subseteq sb'.heard
  PROVE  SbOK(sb)' /\ SbPromise!StoreNext
<1>1. sb'.answer = sb.answer /\ sb'.heard \subseteq {"answer", "failure"}
  BY DEF SbOK, SbSearch, Heard
<1>2. SbPromise!Hear
  BY <1>1 DEF SbPromise!Hear
<1> QED
  BY <1>2 DEF SbPromise!StoreNext

LEMMA SbBeginOK == ASSUME SbOK(sb), SbBegin PROVE SbOK(sb)' /\ SbPromise!StoreNext
<1>1. sb.at \in {"idle", "done"} /\ 0 \in 0 .. SbEndpoints /\ 0 < SbEndpoints
  BY SbAssumption DEF SbBegin
<1>2. CASE sb' = [SbIdle EXCEPT !.at = "done", !.heard = {"blank"}, !.answer.verified = TRUE]
  <2>1. sb' = [at |-> "done", asked |-> 0, found |-> {}, authoritative |-> FALSE, pages |-> {},
               rows |-> {}, hydrated |-> {}, heard |-> {"blank"},
               answer |-> [verified |-> TRUE, rows |-> FALSE]]
    BY <1>2 DEF SbIdle
  <2>2. /\ sb' \in SbSearch /\ sb'.at = "done" /\ sb'.heard = {"blank"} /\ sb'.answer = Blank
        /\ sb'.pages = {} /\ sb'.rows = {}
    BY <1>1, <2>1 DEF SbSearch, Heard, Answers, Blank
  <2>3. SbOK(sb')
    BY <2>2 DEF SbOK
  <2>4. SbPromise!AnswerBlank
    BY <1>1, <2>2 DEF SbPromise!AnswerBlank, Blank
  <2> QED
    BY <2>3, <2>4 DEF SbPromise!StoreNext
<1>3. CASE sb' = [SbIdle EXCEPT !.at = "endpoints"]
  <2>1. /\ sb' \in SbSearch /\ sb'.at = "endpoints" /\ sb'.asked = 0 /\ sb'.pages = {}
        /\ sb'.rows = {} /\ sb'.heard = {} /\ sb'.answer = Unanswered
    BY <1>3, SbIdleOK DEF SbSearch
  <2>2. SbOK(sb')
    BY <1>1, <2>1 DEF SbOK
  <2>3. SbPromise!Ask
    BY <1>1, <2>1 DEF SbPromise!Ask, SbPromise!NoAnswer, Unanswered
  <2> QED
    BY <2>2, <2>3 DEF SbPromise!StoreNext
<1> QED
  BY <1>2, <1>3 DEF SbBegin

(* A step of the discovery. *)
LEMMA SbDiscovers ==
  ASSUME SbOK(sb), sb.at \in {"endpoints", "browser", "sitemap", "sellboost"}, sb' \in SbSearch,
         sb'.at \in {"endpoints", "browser", "sitemap", "sellboost", "pages"},
         sb'.at = "endpoints" => sb'.asked < SbEndpoints,
         sb'.pages = sb.pages, sb'.rows = sb.rows, sb'.answer = sb.answer,
         sb.heard \subseteq sb'.heard, "blank" \notin sb'.heard
  PROVE  SbOK(sb)' /\ SbPromise!StoreNext
<1>1. SbOK(sb')
  BY DEF SbOK
<1> QED
  BY <1>1, SbHears

LEMMA AskSpanishOK == ASSUME SbOK(sb), AskSpanish PROVE SbOK(sb)' /\ SbPromise!StoreNext
<1> DEFINE last == sb.asked + 1 = SbEndpoints
<1>1. /\ sb \in SbSearch /\ sb.at = "endpoints" /\ sb.asked < SbEndpoints
      /\ "blank" \notin sb.heard
  BY DEF SbOK, AskSpanish
<1>2. sb.asked + 1 \in 0 .. SbEndpoints /\ (~last => sb.asked + 1 < SbEndpoints)
  BY <1>1, SbAssumption DEF SbSearch
<1>3. ASSUME NEW urls \in SUBSET SbPages, NEW heard \in {"answer", "failure"},
             NEW at \in {"endpoints", "browser", "pages"}, at = "endpoints" => ~last,
             sb' = [sb EXCEPT !.asked = sb.asked + 1, !.heard = sb.heard \cup {heard},
                              !.found = sb.found \cup urls, !.at = at]
      PROVE  SbOK(sb)' /\ SbPromise!StoreNext
  <2>1. /\ sb' \in SbSearch /\ sb'.at = at /\ sb'.asked = sb.asked + 1
        /\ sb'.heard = sb.heard \cup {heard}
    BY <1>1, <1>2, <1>3 DEF SbSearch, Heard
  <2>2. sb'.pages = sb.pages /\ sb'.rows = sb.rows /\ sb'.answer = sb.answer
    BY <1>1, <1>3 DEF SbSearch
  <2> HIDE DEF last
  <2> QED
    BY <1>1, <1>2, <1>3, <2>1, <2>2, SbDiscovers
<1>4. CASE sb' = [sb EXCEPT !.asked = @ + 1, !.heard = @ \cup {"failure"},
                            !.at = IF last THEN "browser" ELSE @]
  <2> DEFINE at == IF last THEN "browser" ELSE "endpoints"
  <2>1. at \in {"endpoints", "browser", "pages"} /\ (at = "endpoints" => ~last)
    OBVIOUS
  <2>2. sb' = [sb EXCEPT !.asked = sb.asked + 1, !.heard = sb.heard \cup {"failure"},
                         !.found = sb.found \cup {}, !.at = at]
    BY <1>1, <1>4 DEF SbSearch
  <2> HIDE DEF at, last
  <2> QED
    BY <1>3, <2>1, <2>2
<1>5. ASSUME NEW urls \in SUBSET SbPages,
             sb' = [sb EXCEPT !.asked = @ + 1, !.heard = @ \cup {"answer"}, !.found = @ \cup urls,
                              !.at = IF Strong(sb.found \cup urls) THEN "pages"
                                     ELSE IF last THEN "browser" ELSE @]
      PROVE  SbOK(sb)' /\ SbPromise!StoreNext
  <2> DEFINE at == IF Strong(sb.found \cup urls) THEN "pages"
                   ELSE IF last THEN "browser" ELSE "endpoints"
  <2>1. at \in {"endpoints", "browser", "pages"} /\ (at = "endpoints" => ~last)
    OBVIOUS
  <2>2. sb' = [sb EXCEPT !.asked = sb.asked + 1, !.heard = sb.heard \cup {"answer"},
                         !.found = sb.found \cup urls, !.at = at]
    BY <1>1, <1>5
  <2> HIDE DEF at, last
  <2> QED
    BY <1>3, <2>1, <2>2
<1> QED
  BY <1>4, <1>5 DEF AskSpanish

(* The browser, the sitemaps and Sellboost say where the search goes and what it has.  *)
LEMMA AskOthersOK ==
  ASSUME SbOK(sb), AskBrowser \/ AskSitemap \/ AskSellboost
  PROVE  SbOK(sb)' /\ SbPromise!StoreNext
<1>1. /\ sb \in SbSearch /\ sb.at \in {"browser", "sitemap", "sellboost"}
      /\ "blank" \notin sb.heard
  BY DEF SbOK, AskBrowser, AskSitemap, AskSellboost
<1>2. ASSUME NEW found \in SUBSET SbPages, NEW heard \in SUBSET {"answer", "failure"},
             NEW at \in {"sitemap", "sellboost", "pages"},
             sb' = [sb EXCEPT !.heard = sb.heard \cup heard, !.found = found, !.at = at]
      PROVE  SbOK(sb)' /\ SbPromise!StoreNext
  <2>1. /\ sb' \in SbSearch /\ sb'.at = at /\ sb'.heard = sb.heard \cup heard
        /\ sb'.pages = sb.pages /\ sb'.rows = sb.rows /\ sb'.answer = sb.answer
    BY <1>1, <1>2 DEF SbSearch, Heard
  <2> QED
    BY <1>1, <2>1, SbDiscovers
<1>3. CASE AskBrowser
  <2>1. PICK urls \in SUBSET SbPages, heard \in {"answer", "failure"} :
          sb' = [sb EXCEPT !.heard = @ \cup {heard}, !.found = @ \cup urls,
                           !.at = IF Strong(sb.found \cup urls) THEN "pages" ELSE "sitemap"]
    BY <1>3 DEF AskBrowser
  <2> DEFINE at == IF Strong(sb.found \cup urls) THEN "pages" ELSE "sitemap"
             found == sb.found \cup urls
  <2>2. at \in {"sitemap", "sellboost", "pages"} /\ found \in SUBSET SbPages
        /\ {heard} \in SUBSET {"answer", "failure"}
    BY <1>1 DEF SbSearch
  <2>3. sb' = [sb EXCEPT !.heard = sb.heard \cup {heard}, !.found = found, !.at = at]
    BY <2>1
  <2> HIDE DEF at, found
  <2> QED
    BY <1>2, <2>2, <2>3
<1>4. CASE AskSitemap
  <2>1. CASE sb' = [sb EXCEPT !.at = "sellboost", !.found = {}, !.heard = @ \cup {"failure"}]
    <3>1. sb' = [sb EXCEPT !.heard = sb.heard \cup {"failure"}, !.found = {}, !.at = "sellboost"]
      BY <1>1, <2>1 DEF SbSearch
    <3> QED
      BY <1>2, <3>1
  <2>2. ASSUME NEW direct \in SUBSET SbStrong, NEW failed \in SUBSET SbMaps,
               NEW lists \in [SbMaps -> SUBSET SbStrong],
               LET urls == IF direct # {} THEN direct ELSE UNION {lists[m] : m \in SbMaps \ failed}
               IN sb' = [sb EXCEPT !.found = urls, !.at = IF urls # {} THEN "pages" ELSE "sellboost",
                           !.heard = @ \cup {"answer"} \cup (IF failed # {} THEN {"failure"} ELSE {})]
        PROVE  SbOK(sb)' /\ SbPromise!StoreNext
    <3> DEFINE urls == IF direct # {} THEN direct ELSE UNION {lists[m] : m \in SbMaps \ failed}
               at == IF urls # {} THEN "pages" ELSE "sellboost"
               heard == {"answer"} \cup (IF failed # {} THEN {"failure"} ELSE {})
    <3>1. urls \in SUBSET SbPages
      BY SbAssumption
    <3>2. at \in {"sitemap", "sellboost", "pages"} /\ heard \in SUBSET {"answer", "failure"}
      OBVIOUS
    <3>3. sb' = [sb EXCEPT !.found = urls, !.at = at, !.heard = (sb.heard \cup {"answer"})
                              \cup (IF failed # {} THEN {"failure"} ELSE {})]
      BY <2>2
    <3>4. (sb.heard \cup {"answer"}) \cup (IF failed # {} THEN {"failure"} ELSE {})
            = sb.heard \cup heard
      OBVIOUS
    <3> HIDE DEF urls, at, heard
    <3>5. sb' = [sb EXCEPT !.heard = sb.heard \cup heard, !.found = urls, !.at = at]
      BY <1>1, <3>3, <3>4 DEF SbSearch
    <3> QED
      BY <1>2, <3>1, <3>2, <3>5
  <2> QED
    BY <1>4, <2>1, <2>2 DEF AskSitemap
<1>5. CASE AskSellboost
  <2>1. CASE sb' = [sb EXCEPT !.at = "pages", !.heard = @ \cup {"failure"}]
    <3>1. /\ sb' \in SbSearch /\ sb'.at = "pages" /\ sb'.heard = sb.heard \cup {"failure"}
          /\ sb'.pages = sb.pages /\ sb'.rows = sb.rows /\ sb'.answer = sb.answer
      BY <1>1, <2>1 DEF SbSearch, Heard
    <3> QED
      BY <1>1, <3>1, SbDiscovers
  <2>2. ASSUME NEW urls \in SUBSET SbPages,
               sb' = [sb EXCEPT !.at = "pages", !.found = urls, !.authoritative = urls # {},
                                !.heard = @ \cup {"answer"}]
        PROVE  SbOK(sb)' /\ SbPromise!StoreNext
    <3>1. /\ sb' \in SbSearch /\ sb'.at = "pages" /\ sb'.heard = sb.heard \cup {"answer"}
          /\ sb'.pages = sb.pages /\ sb'.rows = sb.rows /\ sb'.answer = sb.answer
      BY <1>1, <2>2 DEF SbSearch, Heard
    <3> QED
      BY <1>1, <3>1, SbDiscovers
  <2> QED
    BY <1>5, <2>1, <2>2 DEF AskSellboost
<1> QED
  BY <1>3, <1>4, <1>5

(* A page is fetched: without a row, or with one that replaces none of its product.    *)
LEMMA SbFetched ==
  ASSUME SbOK(sb), sb.at = "pages", NEW u \in sb.found \ sb.pages, sb' \in SbSearch,
         sb'.at = "pages", sb'.pages = sb.pages \cup {u}, sb'.found = sb.found,
         sb'.authoritative = sb.authoritative, sb'.answer = sb.answer,
         sb.heard \subseteq sb'.heard, "blank" \notin sb'.heard,
         \/ sb'.rows = sb.rows
         \/ \E row \in SbRowSet :
              /\ sb'.rows = AddRow(u, row) /\ row.url = u /\ "answer" \in sb'.heard
              /\ row.matches \/ sb.authoritative
              /\ row.by.offer # "one of several" /\ ~row.by.othersize
  PROVE  SbOK(sb)' /\ SbPromise!StoreNext
<1>1. \A r \in sb'.rows : /\ r.by.offer # "one of several" /\ ~r.by.othersize
                          /\ r.matches \/ sb'.authoritative
                          /\ \A q \in sb'.rows : SbProduct[r.url] = SbProduct[q.url] => r = q
  <2>1. CASE sb'.rows = sb.rows
    BY <2>1 DEF SbOK
  <2>2. ASSUME NEW row \in SbRowSet, sb'.rows = sb.rows \cup {row}, row.url = u,
               ~\E r \in sb.rows : SbProduct[r.url] = SbProduct[u],
               row.matches \/ sb.authoritative, row.by.offer # "one of several", ~row.by.othersize
        PROVE  \A r \in sb'.rows :
                 /\ r.by.offer # "one of several" /\ ~r.by.othersize
                 /\ r.matches \/ sb'.authoritative
                 /\ \A q \in sb'.rows : SbProduct[r.url] = SbProduct[q.url] => r = q
    BY <2>2 DEF SbOK
  <2> QED
    BY <2>1, <2>2 DEF AddRow
<1>2. sb'.rows # {} => "answer" \in sb'.heard
  BY DEF SbOK, AddRow
<1>3. SbOK(sb')
  BY <1>1, <1>2 DEF SbOK
<1> QED
  BY <1>3, SbHears

LEMMA FetchSabinaOK ==
  ASSUME SbOK(sb), NEW u \in SbPages, FetchSabina(u) \/ FetchAgain(u)
  PROVE  SbOK(sb)' /\ SbPromise!StoreNext
<1>1. /\ sb \in SbSearch /\ sb.at = "pages" /\ u \in sb.found \ sb.pages
      /\ "blank" \notin sb.heard
  BY DEF SbOK, FetchSabina, FetchAgain
<1>2. ASSUME NEW matches \in BOOLEAN, NEW by \in SbBy, by.offer # "one of several", ~by.othersize,
             sb' = [sb EXCEPT !.pages = @ \cup {u}, !.heard = @ \cup {"answer"},
                      !.rows = IF matches \/ sb.authoritative
                               THEN AddRow(u, [url |-> u, matches |-> matches, by |-> by]) ELSE @]
      PROVE  SbOK(sb)' /\ SbPromise!StoreNext
  <2> DEFINE row == [url |-> u, matches |-> matches, by |-> by]
             rows == IF matches \/ sb.authoritative THEN AddRow(u, row) ELSE sb.rows
  <2>1. row \in SbRowSet /\ row.url = u /\ row.by = by
    BY DEF SbRowSet
  <2>2. row.matches = matches
    OBVIOUS
  <2> HIDE DEF row
  <2>3. rows \in SUBSET SbRowSet
    BY <1>1, <2>1 DEF AddRow, SbSearch
  <2>4. sb' = [sb EXCEPT !.pages = sb.pages \cup {u}, !.heard = sb.heard \cup {"answer"},
                         !.rows = rows]
    BY <1>2 DEF row
  <2>5. rows = sb.rows \/ (rows = AddRow(u, row) /\ (row.matches \/ sb.authoritative))
    BY <2>2
  <2> HIDE DEF rows
  <2>6. /\ sb' \in SbSearch /\ sb'.at = "pages" /\ sb'.pages = sb.pages \cup {u}
        /\ sb'.heard = sb.heard \cup {"answer"} /\ sb'.rows = rows
    BY <1>1, <2>3, <2>4 DEF SbSearch, Heard
  <2>7. /\ sb'.found = sb.found /\ sb'.authoritative = sb.authoritative
        /\ sb'.answer = sb.answer
    BY <1>1, <2>4 DEF SbSearch
  <2> QED
    BY <1>1, <1>2, <2>1, <2>5, <2>6, <2>7, SbFetched
<1>3. CASE sb' = [sb EXCEPT !.pages = @ \cup {u}, !.heard = @ \cup {"failure"}]
  <2>1. /\ sb' \in SbSearch /\ sb'.at = "pages" /\ sb'.pages = sb.pages \cup {u}
        /\ sb'.heard = sb.heard \cup {"failure"} /\ sb'.rows = sb.rows
    BY <1>1, <1>3 DEF SbSearch, Heard
  <2>2. /\ sb'.found = sb.found /\ sb'.authoritative = sb.authoritative
        /\ sb'.answer = sb.answer
    BY <1>1, <1>3 DEF SbSearch
  <2> QED
    BY <1>1, <2>1, <2>2, SbFetched
<1>4. CASE FetchSabina(u)
  BY <1>2, <1>3, <1>4, SbPricedOK DEF FetchSabina
<1>5. CASE FetchAgain(u)
  <2>1. \A priced \in BOOLEAN :
          LET by == [offer |-> "none", othersize |-> FALSE, priced |-> priced] IN
          by \in SbBy /\ by.offer # "one of several" /\ ~by.othersize
    BY DEF SbBy
  <2> QED
    BY <1>2, <1>5, <2>1 DEF FetchAgain
<1> QED
  BY <1>4, <1>5

LEMMA SbEndsOK == ASSUME SbOK(sb), SbReturn \/ SbRaises PROVE SbOK(sb)' /\ SbPromise!StoreNext
<1>1. sb \in SbSearch /\ sb.at \notin {"idle", "done"} /\ sb.answer = Unanswered
  BY DEF SbOK, SbReturn, SbRaises
<1>2. ASSUME NEW answer \in Answers, sb' = [sb EXCEPT !.at = "done", !.answer = answer],
             answer.verified \/ answer.rows => "answer" \in sb.heard
      PROVE  SbOK(sb)' /\ SbPromise!StoreNext
  <2>1. /\ sb' \in SbSearch /\ sb'.at = "done" /\ sb'.answer = answer /\ sb'.heard = sb.heard
    BY <1>1, <1>2 DEF SbSearch
  <2>2. /\ sb'.rows = sb.rows /\ sb'.pages = sb.pages /\ sb'.found = sb.found
        /\ sb'.authoritative = sb.authoritative
    BY <1>1, <1>2 DEF SbSearch
  <2>3. SbOK(sb')
    BY <1>1, <2>1, <2>2 DEF SbOK
  <2>4. SbPromise!Return
    BY <1>1, <1>2, <2>1 DEF SbPromise!Return, Answers
  <2> QED
    BY <2>3, <2>4 DEF SbPromise!StoreNext
<1>3. CASE SbReturn
  <2> DEFINE answer == [verified |-> sb.rows # {}, rows |-> sb.rows # {}]
  <2>1. answer \in Answers /\ (answer.verified <=> sb.rows # {}) /\ (answer.rows <=> sb.rows # {})
    BY DEF Answers
  <2>2. sb' = [sb EXCEPT !.at = "done", !.answer = answer]
    BY <1>3 DEF SbReturn
  <2>3. sb.rows # {} => "answer" \in sb.heard
    BY <1>1, <1>3 DEF SbOK, SbReturn
  <2> HIDE DEF answer
  <2> QED
    BY <1>2, <2>1, <2>2, <2>3
<1>4. CASE SbRaises
  <2>1. sb' = [sb EXCEPT !.at = "done", !.answer = Unanswered]
    BY <1>1, <1>4 DEF SbRaises, SbSearch
  <2>2. Unanswered \in Answers /\ ~Unanswered.verified /\ ~Unanswered.rows
    BY DEF Answers, Unanswered
  <2> QED
    BY <1>2, <2>1, <2>2
<1> QED
  BY <1>3, <1>4

LEMMA HydrateSabinaOK == ASSUME SbOK(sb), HydrateSabina PROVE SbOK(sb)' /\ SbPromise!StoreStep
<1>1. sb \in SbSearch /\ sb.at = "idle"
  BY DEF SbOK, HydrateSabina
<1>2. PICK known \in SbKnown : sb' = [sb EXCEPT !.hydrated = {known}]
  <2>1. PICK o \in SbObjects(7), i \in SbObjects(9), s \in SbStocks :
          sb' = [sb EXCEPT !.hydrated = {[outer |-> o, inner |-> i, stock |-> s,
                                          variants |-> VariantsOf(o, i)]}]
    BY DEF HydrateSabina
  <2>2. [outer |-> o, inner |-> i, stock |-> s, variants |-> VariantsOf(o, i)] \in SbKnown
    BY DEF SbKnown
  <2> QED
    BY <2>1, <2>2
<1>3. /\ sb' \in SbSearch /\ sb'.at = sb.at /\ sb'.heard = sb.heard /\ sb'.answer = sb.answer
  BY <1>1, <1>2 DEF SbSearch
<1>4. /\ sb'.rows = sb.rows /\ sb'.pages = sb.pages /\ sb'.found = sb.found
      /\ sb'.authoritative = sb.authoritative
  BY <1>1, <1>2 DEF SbSearch
<1>5. SbOK(sb')
  BY <1>1, <1>3, <1>4 DEF SbOK
<1> QED
  BY <1>3, <1>5 DEF SbPromise!StoreStep, SbPromise!storeVars

LEMMA SbInitOK == SbInit => SbOK(sb) /\ SbPromise!StoreInit
  BY SbIdleOK DEF SbInit, SbOK, SbPromise!StoreInit, SbPromise!NoAnswer, Unanswered

LEMMA SbNextOK == SbOK(sb) /\ [SbNext]_sb => SbOK(sb)' /\ SbPromise!StoreStep
<1> SUFFICES ASSUME SbOK(sb), [SbNext]_sb PROVE SbOK(sb)' /\ SbPromise!StoreStep
  OBVIOUS
<1>1. CASE UNCHANGED sb
  BY <1>1 DEF SbOK, SbPromise!StoreStep, SbPromise!storeVars
<1> QED
  BY <1>1, SbBeginOK, AskSpanishOK, AskOthersOK, FetchSabinaOK, SbEndsOK, HydrateSabinaOK
     DEF SbNext, SbPromise!StoreStep

(* A row of Sabina is priced by its page's own or only offer and of the page's size, a *)
(* variant's price goes with its own size, and a product has one row.                   *)
THEOREM SbInvariant == SbSpec => []SbInv
<1>1. SbOK(sb) => SbInv
  <2> SUFFICES ASSUME SbOK(sb) PROVE SbInv
    OBVIOUS
  <2>1. SbType /\ OfferIsThePages /\ OneRowPerProduct
    BY DEF SbOK, SbSearch, SbType, OfferIsThePages, OneRowPerProduct
  <2>2. sb.hydrated \subseteq SbKnown
    BY DEF SbOK, SbSearch
  <2> QED
    BY <2>1, <2>2, SbKnownOK DEF SbInv, VariantKeepsItsPrice
<1> QED
  BY <1>1, SbInitOK, SbNextOK, PTL DEF SbSpec

-----------------------------------------------------------------------------------
(* Easycosmetic. *)
EcRowSet == UNION UNION {EcOutcomes[v] : v \in {"none", "v1", "v2"}}
EcSearch ==
  [at : {"idle", "search", "failed", "candidates", "variants", "done"}, found : SUBSET EcPages,
   urls : SUBSET EcUrls, tried : SUBSET EcUrls, html : SUBSET EcUrls, parsed : SUBSET EcUrls,
   errors : SUBSET EcUrls, rows : SUBSET [url : EcUrls, row : EcRowSet],
   heard : SUBSET Heard, answer : Answers]

(* Once the search page has answered, a failure is also an error, and none is forgotten. *)
EcOK(e) ==
  /\ e \in EcSearch
  /\ e.html \subseteq e.urls /\ e.parsed \subseteq e.html
  /\ e.at = "search" => e.heard = {}
  /\ e.at \in {"search", "failed", "candidates"} => e.rows = {}
  /\ e.at \in {"candidates", "variants"} =>
       "answer" \in e.heard /\ ("failure" \in e.heard => e.errors # {})
  /\ e.at \notin {"idle", "done"} => "blank" \notin e.heard /\ e.answer = Unanswered
  /\ e.at = "done" /\ e.answer.verified /\ ~e.answer.rows =>
       "failure" \notin e.heard /\ e.errors = {} /\ e.heard # {}
  /\ e.at = "idle" => e.heard = {} /\ e.answer = Unanswered

(* A row parsed for a variant is of a Product of that variant, or of none. *)
LEMMA EcRowOK == \A r \in EcRowSet : r.variant # "none" => r.of \subseteq {r.variant}
<1> SUFFICES ASSUME NEW v \in {"none", "v1", "v2"}, NEW page \in EcPageKinds,
                    NEW r \in EcRow(page, v), r.variant # "none"
             PROVE  r.of \subseteq {r.variant}
  BY DEF EcRowSet, EcOutcomes
<1> DEFINE json == FindProductJson(page.products, v)
<1>1. r.variant = v /\ r.of = {p.variant : p \in json}
  BY DEF EcRow
<1>2. \A p \in json : p.variant = v
  BY <1>1 DEF FindProductJson
<1> QED
  BY <1>1, <1>2

LEMMA EcIdleOK ==
  /\ EcIdle \in EcSearch /\ EcIdle.at = "idle" /\ EcIdle.found = {} /\ EcIdle.urls = {}
  /\ EcIdle.html = {} /\ EcIdle.parsed = {} /\ EcIdle.errors = {} /\ EcIdle.rows = {}
  /\ EcIdle.heard = {} /\ EcIdle.answer = Unanswered
  BY DEF EcIdle, EcSearch, Heard, Answers, Unanswered

LEMMA EcBeginOK == ASSUME EcOK(ec), EcBegin PROVE EcOK(ec)' /\ EcPromise!StoreNext
<1>1. ec.at \in {"idle", "done"}
  BY DEF EcBegin
<1>2. CASE ec' = [EcIdle EXCEPT !.at = "done", !.heard = {"blank"}, !.answer.verified = TRUE]
  <2>1. ec' = [at |-> "done", found |-> {}, urls |-> {}, tried |-> {}, html |-> {},
               parsed |-> {}, errors |-> {}, rows |-> {}, heard |-> {"blank"},
               answer |-> [verified |-> TRUE, rows |-> FALSE]]
    BY <1>2 DEF EcIdle
  <2>2. /\ ec' \in EcSearch /\ ec'.at = "done" /\ ec'.heard = {"blank"} /\ ec'.answer = Blank
        /\ ec'.html = {} /\ ec'.parsed = {} /\ ec'.rows = {} /\ ec'.errors = {}
    BY <2>1 DEF EcSearch, Heard, Answers, Blank
  <2>3. EcOK(ec')
    BY <2>2 DEF EcOK
  <2>4. EcPromise!AnswerBlank
    BY <1>1, <2>2 DEF EcPromise!AnswerBlank, Blank
  <2> QED
    BY <2>3, <2>4 DEF EcPromise!StoreNext
<1>3. CASE ec' = [EcIdle EXCEPT !.at = "search"]
  <2>1. /\ ec' \in EcSearch /\ ec'.at = "search" /\ ec'.html = {} /\ ec'.parsed = {}
        /\ ec'.rows = {} /\ ec'.heard = {} /\ ec'.answer = Unanswered
    BY <1>3, EcIdleOK DEF EcSearch
  <2>2. EcOK(ec')
    BY <2>1 DEF EcOK
  <2>3. EcPromise!Ask
    BY <1>1, <2>1 DEF EcPromise!Ask, EcPromise!NoAnswer, Unanswered
  <2> QED
    BY <2>2, <2>3 DEF EcPromise!StoreNext
<1> QED
  BY <1>2, <1>3 DEF EcBegin

LEMMA EcHears ==
  ASSUME EcOK(ec), ec.at \notin {"idle", "done"}, EcOK(ec'), ec'.at \notin {"idle", "done"},
         ec.heard \subseteq ec'.heard
  PROVE  EcOK(ec)' /\ EcPromise!StoreNext
<1>1. ec'.answer = ec.answer /\ ec'.heard \subseteq {"answer", "failure"}
  BY DEF EcOK, EcSearch, Heard
<1>2. EcPromise!Hear
  BY <1>1 DEF EcPromise!Hear
<1> QED
  BY <1>2 DEF EcPromise!StoreNext

LEMMA AskSearchPageOK ==
  ASSUME EcOK(ec), AskSearchPage PROVE EcOK(ec)' /\ EcPromise!StoreNext
<1>1. PICK reply \in Replies, urls \in SUBSET EcPages :
        ec' = [ec EXCEPT !.heard = {reply}, !.found = urls,
                         !.at = IF reply = "failure" THEN "failed" ELSE "candidates"]
  BY DEF AskSearchPage
<1>2. ec \in EcSearch /\ ec.at = "search" /\ ec.rows = {} /\ ec.heard = {} /\ ec.answer = Unanswered
  BY DEF EcOK, AskSearchPage
<1>3. /\ ec' \in EcSearch /\ ec'.heard = {reply}
      /\ ec'.at = (IF reply = "failure" THEN "failed" ELSE "candidates")
  BY <1>1, <1>2 DEF EcSearch, Heard, Replies
<1>4. /\ ec'.html = ec.html /\ ec'.urls = ec.urls /\ ec'.parsed = ec.parsed
      /\ ec'.rows = ec.rows /\ ec'.answer = ec.answer
  BY <1>1, <1>2 DEF EcSearch
<1>5. EcOK(ec')
  BY <1>2, <1>3, <1>4 DEF EcOK, Replies
<1> QED
  BY <1>2, <1>3, <1>5, EcHears

(* A page is fetched: its failure is an error. *)
LEMMA EcFetched ==
  ASSUME EcOK(ec), ec.at \in {"candidates", "variants"}, ec' \in EcSearch, ec'.at = ec.at,
         NEW reply \in Replies, ec'.heard = ec.heard \cup {reply},
         ec.errors \subseteq ec'.errors, reply = "failure" => ec'.errors # {},
         ec'.html \subseteq ec'.urls, ec.html \subseteq ec'.html,
         ec'.parsed = ec.parsed, ec'.rows = ec.rows, ec'.answer = ec.answer
  PROVE  EcOK(ec)' /\ EcPromise!StoreNext
<1>1. EcOK(ec')
  BY DEF EcOK, Replies
<1> QED
  BY <1>1, EcHears

LEMMA FetchCandidateOK ==
  ASSUME EcOK(ec), NEW u \in EcPages, FetchCandidate(u) PROVE EcOK(ec)' /\ EcPromise!StoreNext
<1>1. PICK reply \in Replies, variants \in SUBSET EcVariants[u] :
        ec' = [ec EXCEPT !.tried = @ \cup {u}, !.heard = @ \cup {reply},
                         !.urls = @ \cup variants \cup {u},
                         !.html = @ \cup (IF reply = "answer" THEN {u} ELSE {}),
                         !.errors = @ \cup (IF reply = "answer" THEN {} ELSE {u})]
  BY DEF FetchCandidate
<1>2. ec \in EcSearch /\ ec.at = "candidates" /\ ec.html \subseteq ec.urls
  BY DEF EcOK, FetchCandidate
<1>3. u \in EcUrls /\ variants \subseteq EcUrls
  BY DEF EcUrls
<1>4. /\ ec' \in EcSearch /\ ec'.heard = ec.heard \cup {reply}
      /\ ec'.urls = ec.urls \cup variants \cup {u}
      /\ ec'.html = ec.html \cup (IF reply = "answer" THEN {u} ELSE {})
      /\ ec'.errors = ec.errors \cup (IF reply = "answer" THEN {} ELSE {u})
  BY <1>1, <1>2, <1>3 DEF EcSearch, Heard, Replies
<1>5. /\ ec'.at = ec.at /\ ec'.parsed = ec.parsed /\ ec'.rows = ec.rows
      /\ ec'.answer = ec.answer
  BY <1>1, <1>2 DEF EcSearch
<1> QED
  BY <1>2, <1>4, <1>5, EcFetched

LEMMA FetchVariantOK ==
  ASSUME EcOK(ec), NEW u \in EcUrls, FetchVariant(u) PROVE EcOK(ec)' /\ EcPromise!StoreNext
<1>1. PICK reply \in Replies :
        ec' = [ec EXCEPT !.tried = @ \cup {u}, !.heard = @ \cup {reply},
                         !.html = @ \cup (IF reply = "answer" THEN {u} ELSE {}),
                         !.errors = @ \cup (IF reply = "answer" THEN {} ELSE {u})]
  BY DEF FetchVariant
<1>2. ec \in EcSearch /\ ec.at = "variants" /\ ec.html \subseteq ec.urls /\ u \in ec.urls
  BY DEF EcOK, FetchVariant
<1>3. /\ ec' \in EcSearch /\ ec'.heard = ec.heard \cup {reply}
      /\ ec'.html = ec.html \cup (IF reply = "answer" THEN {u} ELSE {})
      /\ ec'.errors = ec.errors \cup (IF reply = "answer" THEN {} ELSE {u})
  BY <1>1, <1>2 DEF EcSearch, Heard, Replies
<1>4. /\ ec'.at = ec.at /\ ec'.urls = ec.urls /\ ec'.parsed = ec.parsed
      /\ ec'.rows = ec.rows /\ ec'.answer = ec.answer
  BY <1>1, <1>2 DEF EcSearch
<1> QED
  BY <1>2, <1>3, <1>4, EcFetched

LEMMA StartVariantsOK == ASSUME EcOK(ec), StartVariants PROVE EcOK(ec)' /\ EcPromise!StoreNext
<1>1. ec \in EcSearch /\ ec.at = "candidates" /\ ec' = [ec EXCEPT !.at = "variants", !.tried = ec.html]
  BY DEF EcOK, StartVariants
<1>2. ec' \in EcSearch /\ ec'.at = "variants" /\ ec'.heard = ec.heard /\ ec'.answer = ec.answer
  BY <1>1 DEF EcSearch
<1>3. /\ ec'.html = ec.html /\ ec'.urls = ec.urls /\ ec'.parsed = ec.parsed
      /\ ec'.errors = ec.errors /\ ec'.rows = ec.rows
  BY <1>1 DEF EcSearch
<1>4. EcOK(ec')
  BY <1>1, <1>2, <1>3 DEF EcOK
<1> QED
  BY <1>1, <1>2, <1>4, EcHears

LEMMA ParsePageOK ==
  ASSUME EcOK(ec), NEW u \in EcUrls, ParsePage(u) PROVE EcOK(ec)' /\ EcPromise!StoreNext
<1>1. ec \in EcSearch /\ ec.at = "variants" /\ u \in ec.html
  BY DEF EcOK, ParsePage
<1>2. ASSUME NEW errors \in SUBSET EcUrls, NEW rows \in SUBSET [url : EcUrls, row : EcRowSet],
             ec.errors \subseteq errors,
             ec' = [ec EXCEPT !.parsed = @ \cup {u}, !.errors = errors, !.rows = rows]
      PROVE  EcOK(ec)' /\ EcPromise!StoreNext
  <2>1. /\ ec' \in EcSearch /\ ec'.parsed = ec.parsed \cup {u} /\ ec'.errors = errors
    BY <1>1, <1>2 DEF EcSearch
  <2>2. /\ ec'.at = ec.at /\ ec'.html = ec.html /\ ec'.urls = ec.urls /\ ec'.heard = ec.heard
        /\ ec'.answer = ec.answer
    BY <1>1, <1>2 DEF EcSearch
  <2>3. EcOK(ec')
    BY <1>1, <1>2, <2>1, <2>2 DEF EcOK
  <2> QED
    BY <1>1, <2>2, <2>3, EcHears
<1>3. CASE ec' = [ec EXCEPT !.parsed = @ \cup {u}, !.errors = @ \cup {u}]
  <2>1. ec' = [ec EXCEPT !.parsed = @ \cup {u}, !.errors = ec.errors \cup {u}, !.rows = ec.rows]
    BY <1>1, <1>3 DEF EcSearch
  <2>2. ec.errors \cup {u} \in SUBSET EcUrls /\ ec.rows \in SUBSET [url : EcUrls, row : EcRowSet]
    BY <1>1 DEF EcSearch
  <2> QED
    BY <1>2, <2>1, <2>2
<1>4. ASSUME NEW row \in EcOutcomes[EcVariant[u]],
             ec' = [ec EXCEPT !.parsed = @ \cup {u},
                              !.rows = @ \cup {[url |-> u, row |-> r] : r \in row}]
      PROVE  EcOK(ec)' /\ EcPromise!StoreNext
  <2> DEFINE rows == ec.rows \cup {[url |-> u, row |-> r] : r \in row}
  <2>1. row \subseteq EcRowSet
    BY EcAssumption DEF EcRowSet
  <2>2. rows \in SUBSET [url : EcUrls, row : EcRowSet]
    BY <1>1, <2>1 DEF EcSearch
  <2>3. ec.errors \in SUBSET EcUrls
    BY <1>1 DEF EcSearch
  <2>4. ec' = [ec EXCEPT !.parsed = @ \cup {u}, !.errors = ec.errors, !.rows = rows]
    BY <1>1, <1>4 DEF EcSearch
  <2> HIDE DEF rows
  <2> QED
    BY <1>2, <2>2, <2>3, <2>4
<1> QED
  BY <1>3, <1>4 DEF ParsePage

LEMMA EcEndsOK ==
  ASSUME EcOK(ec), EcReturn \/ EcRaises \/ SearchPageFailed
  PROVE  EcOK(ec)' /\ EcPromise!StoreNext
<1>1. ec \in EcSearch /\ ec.at \notin {"idle", "done"} /\ ec.answer = Unanswered
  BY DEF EcOK, EcReturn, EcRaises, SearchPageFailed
<1>2. ASSUME NEW answer \in Answers, ec' = [ec EXCEPT !.at = "done", !.answer = answer],
             answer.verified \/ answer.rows => "answer" \in ec.heard,
             answer.verified /\ ~answer.rows => "failure" \notin ec.heard /\ ec.errors = {}
      PROVE  EcOK(ec)' /\ EcPromise!StoreNext
  <2>1. /\ ec' \in EcSearch /\ ec'.at = "done" /\ ec'.answer = answer /\ ec'.heard = ec.heard
    BY <1>1, <1>2 DEF EcSearch
  <2>2. /\ ec'.html = ec.html /\ ec'.urls = ec.urls /\ ec'.parsed = ec.parsed
        /\ ec'.errors = ec.errors
    BY <1>1, <1>2 DEF EcSearch
  <2>3. EcOK(ec')
    BY <1>1, <1>2, <2>1, <2>2 DEF EcOK
  <2>4. EcPromise!Return
    BY <1>1, <1>2, <2>1 DEF EcPromise!Return, Answers
  <2> QED
    BY <2>3, <2>4 DEF EcPromise!StoreNext
<1>3. CASE EcReturn
  <2> DEFINE answer == [verified |-> ec.rows # {} \/ ec.errors = {}, rows |-> ec.rows # {}]
  <2>1. /\ answer \in Answers /\ (answer.verified <=> ec.rows # {} \/ ec.errors = {})
        /\ (answer.rows <=> ec.rows # {})
    BY DEF Answers
  <2>2. ec' = [ec EXCEPT !.at = "done", !.answer = answer]
    BY <1>3 DEF EcReturn
  <2>3. "answer" \in ec.heard /\ ("failure" \in ec.heard => ec.errors # {})
    BY <1>3 DEF EcOK, EcReturn
  <2> HIDE DEF answer
  <2> QED
    BY <1>2, <2>1, <2>2, <2>3
<1>4. CASE EcRaises \/ SearchPageFailed
  <2>1. ec' = [ec EXCEPT !.at = "done", !.answer = Unanswered]
    BY <1>1, <1>4 DEF EcRaises, SearchPageFailed, EcSearch
  <2>2. Unanswered \in Answers /\ ~Unanswered.verified /\ ~Unanswered.rows
    BY DEF Answers, Unanswered
  <2> QED
    BY <1>2, <2>1, <2>2
<1> QED
  BY <1>3, <1>4

LEMMA EcInitOK == EcInit => EcOK(ec) /\ EcPromise!StoreInit
  BY EcIdleOK DEF EcInit, EcOK, EcPromise!StoreInit, EcPromise!NoAnswer, Unanswered

LEMMA EcNextOK == EcOK(ec) /\ [EcNext]_ec => EcOK(ec)' /\ EcPromise!StoreStep
<1> SUFFICES ASSUME EcOK(ec), [EcNext]_ec PROVE EcOK(ec)' /\ EcPromise!StoreStep
  OBVIOUS
<1>1. CASE UNCHANGED ec
  BY <1>1 DEF EcOK, EcPromise!StoreStep, EcPromise!storeVars
<1> QED
  BY <1>1, EcBeginOK, AskSearchPageOK, FetchCandidateOK, FetchVariantOK, StartVariantsOK,
     ParsePageOK, EcEndsOK DEF EcNext, EcPromise!StoreStep

(* A row of Easycosmetic for a variant URL is of no other variant's Product, and an empty *)
(* answer is verified only if the search page answered and no page's fetch ever failed.   *)
THEOREM EcInvariant == EcSpec => []EcInv
<1>1. EcOK(ec) => EcInv
  <2> SUFFICES ASSUME EcOK(ec) PROVE EcInv
    OBVIOUS
  <2>1. EcType /\ EmptyIsVerified
    BY DEF EcOK, EcSearch, EcType, EmptyIsVerified
  <2>2. \A r \in ec.rows : r.row \in EcRowSet
    BY DEF EcOK, EcSearch
  <2>3. RowIsOfTheVariant
    BY <2>2, EcRowOK DEF RowIsOfTheVariant
  <2> QED
    BY <2>1, <2>3 DEF EcInv
<1> QED
  BY <1>1, EcInitOK, EcNextOK, PTL DEF EcSpec

-----------------------------------------------------------------------------------
(* The Shopify shops. *)
FourShops == {"bplatz", "parfumcity", "orioudh", "perfumemarket"}
ChannelNames == {"suggest", "json", "catalog", "sitemap", "html"}
ShopRows == [priceOf : SUBSET Nat, priced : BOOLEAN, stockOf : SUBSET Nat]

ShHeard == Heard \cup {"unreadable"}

(* A row of one variant, and but for parfumcity with its price. *)
OfOneVariant(s, r) ==
  s # "bplatz" => /\ \A i, j \in r.priceOf \cup r.stockOf : i = j
                  /\ s # "parfumcity" => r.priced
                  /\ s # "perfumemarket" => r.priceOf = r.stockOf /\ r.priceOf # {}
RowsOfShop(s) == {r \in ShopRows : OfOneVariant(s, r)}

ShSearch(s) ==
  [at : {"idle", "channels", "pages", "failed", "done"}, step : 1 .. 6, verified : BOOLEAN,
   errors : BOOLEAN, found : SUBSET ShPages, pages : SUBSET ShPages, failed : BOOLEAN,
   rows : SUBSET [url : ShPages, row : RowsOfShop(s)], heard : SUBSET ShHeard,
   hydrated : SUBSET RowsOfShop(s), answer : Answers]

(* A URL perfumemarket lists is no candidate, and a candidate has a row only once its    *)
(* page is fetched.                                                                      *)
ShOK(s, x) ==
  /\ s \in Shops /\ x \in ShSearch(s)
  /\ x.pages \subseteq x.found
  /\ x.at = "channels" => x.step <= Len(Channels[s]) /\ x.pages = {} /\ ~x.failed
  /\ s = "perfumemarket" =>
       /\ x.at = "channels" => x.found = {}
       /\ \A r \in x.rows : /\ r.url \notin x.found \ x.pages
                            /\ \A q \in x.rows : r.url = q.url => r = q
  /\ x.at \notin {"idle", "done"} => "blank" \notin x.heard /\ x.answer = Unanswered
  /\ x.at \notin {"idle", "done"} /\ x.rows # {} => "answer" \in x.heard
  /\ s = "parfumcity" /\ x.at \notin {"idle", "done"} /\ x.verified =>
       x.heard \cap {"answer", "unreadable"} # {}
  /\ s # "bplatz" /\ x.at = "done" /\ x.answer.verified /\ ~x.answer.rows =>
       /\ ~x.failed
       /\ x.heard = {"blank"} \/ (s = "parfumcity" /\ x.heard \cap {"answer", "unreadable"} # {})
  /\ x.at = "idle" => x.heard = {} /\ x.answer = Unanswered

LEMMA OneIsFirst ==
  ASSUME NEW S \in SUBSET Nat
  PROVE  /\ FirstOf(S) \in SUBSET S /\ LastOf(S) \in SUBSET S
         /\ \A i, j \in FirstOf(S) : i = j
         /\ \A i, j \in LastOf(S) : i = j
<1>1. FirstOf(S) \in SUBSET S /\ LastOf(S) \in SUBSET S
  BY DEF FirstOf, LastOf
<1>2. \A i, j \in FirstOf(S) : i = j
  <2> SUFFICES ASSUME NEW i \in FirstOf(S), NEW j \in FirstOf(S) PROVE i = j
    OBVIOUS
  <2>1. i \in Nat /\ j \in Nat /\ i <= j /\ j <= i
    BY DEF FirstOf
  <2> QED
    BY <2>1
<1>3. \A i, j \in LastOf(S) : i = j
  <2> SUFFICES ASSUME NEW i \in LastOf(S), NEW j \in LastOf(S) PROVE i = j
    OBVIOUS
  <2>1. i \in Nat /\ j \in Nat /\ i <= j /\ j <= i
    BY DEF LastOf
  <2> QED
    BY <2>1
<1> QED
  BY <1>1, <1>2, <1>3

(* A listed row, and the row of a page of perfumemarket, are of one variant at most. *)
LEMMA ListedRowOK ==
  ASSUME NEW price \in SUBSET Nat, \A i, j \in price : i = j, NEW beside \in BOOLEAN
  PROVE  /\ ListedRow(price, beside) \in SUBSET RowsOfShop("perfumemarket")
         /\ \A r, q \in ListedRow(price, beside) : r = q
<1> DEFINE row == [priceOf |-> price, priced |-> TRUE, stockOf |-> {}]
<1>1. row \in ShopRows /\ row.priceOf = price /\ row.priced /\ row.stockOf = {}
  BY DEF ShopRows
<1>2. ListedRow(price, beside) \in {{}, {row}}
  BY DEF ListedRow
<1> HIDE DEF row
<1>3. row \in RowsOfShop("perfumemarket")
  BY <1>1 DEF RowsOfShop, OfOneVariant
<1> QED
  BY <1>2, <1>3

LEMMA OfferIndices ==
  ASSUME NEW offers \in ShOfferLists
  PROVE  /\ DOMAIN offers \in SUBSET Nat
         /\ PricedOf(offers) \in SUBSET Nat /\ StockedOf(offers) \in SUBSET Nat
  BY ShAssumption DEF ShOfferLists, PricedOf, StockedOf

LEMMA PricesOK ==
  ASSUME NEW offers \in ShOfferLists
  PROVE  /\ FirstPrice(offers) \in SUBSET Nat /\ \A i, j \in FirstPrice(offers) : i = j
         /\ CatalogPrice(offers) \in SUBSET Nat /\ \A i, j \in CatalogPrice(offers) : i = j
<1>1. FirstPrice(offers) \in SUBSET Nat /\ \A i, j \in FirstPrice(offers) : i = j
  BY OfferIndices, OneIsFirst DEF FirstPrice
<1> DEFINE available == {i \in PricedOf(offers) : offers[i].stock = "in_stock"}
           stated == {i \in DOMAIN offers : offers[i].price # "none"}
<1>2. CatalogPrice(offers) \in {FirstOf(available), PricedOf(offers) \cap LastOf(stated)}
  BY DEF CatalogPrice
<1>3. available \in SUBSET Nat /\ stated \in SUBSET Nat
  BY OfferIndices
<1> HIDE DEF available, stated
<1>4. CatalogPrice(offers) \in SUBSET Nat /\ \A i, j \in CatalogPrice(offers) : i = j
  BY <1>2, <1>3, OneIsFirst
<1> QED
  BY <1>1, <1>4

LEMMA MarketPageOK ==
  ASSUME NEW offers \in ShOfferLists, NEW beside \in BOOLEAN, NEW overruled \in BOOLEAN
  PROVE  MarketPageRow(offers, beside, overruled) \in SUBSET RowsOfShop("perfumemarket")
<1> DEFINE price == MarketOffer(offers) \cap PricedOf(offers)
           stock == IF overruled THEN {} ELSE MarketOffer(offers) \cap StockedOf(offers)
           row == [priceOf |-> price, priced |-> TRUE, stockOf |-> stock]
<1>1. MarketOffer(offers) \in SUBSET Nat /\ \A i, j \in MarketOffer(offers) : i = j
  BY OfferIndices, OneIsFirst DEF MarketOffer
<1>2. /\ price \in SUBSET Nat /\ stock \in SUBSET Nat
      /\ \A i, j \in price \cup stock : i = j
  BY <1>1
<1>3. MarketPageRow(offers, beside, overruled) \in {{}, {row}}
  BY DEF MarketPageRow
<1> HIDE DEF price, stock
<1>4. row \in RowsOfShop("perfumemarket")
  BY <1>2 DEF RowsOfShop, ShopRows, OfOneVariant
<1> QED
  BY <1>3, <1>4

LEMMA VariantRowsOK ==
  ASSUME NEW s \in Shops, NEW offers \in ShOfferLists,
         NEW unpriced \in BOOLEAN, unpriced => s = "parfumcity", s # "perfumemarket"
  PROVE  VariantRows(offers, unpriced) \in SUBSET RowsOfShop(s)
<1> SUFFICES ASSUME NEW i \in DOMAIN offers, unpriced \/ i \in PricedOf(offers)
             PROVE  [priceOf |-> {i}, priced |-> i \in PricedOf(offers), stockOf |-> {i}]
                      \in RowsOfShop(s)
  BY DEF VariantRows, PricedOf
<1> DEFINE row == [priceOf |-> {i}, priced |-> i \in PricedOf(offers), stockOf |-> {i}]
<1>1. i \in Nat
  BY OfferIndices
<1>2. row \in ShopRows
  BY <1>1 DEF ShopRows
<1>3. row.priceOf = {i} /\ row.stockOf = {i} /\ (row.priced <=> i \in PricedOf(offers))
  OBVIOUS
<1> HIDE DEF row
<1>4. row \in RowsOfShop(s)
  BY <1>2, <1>3 DEF RowsOfShop, OfOneVariant
<1> QED
  BY <1>4 DEF row

LEMMA BplatzRowOK ==
  ASSUME NEW offers \in ShOfferLists PROVE BplatzRow(offers) \in SUBSET RowsOfShop("bplatz")
<1> DEFINE price == FirstOf(PricedOf(offers))
           stock == LastOf(StockedOf(offers))
           priced == PricedOf(offers) # {}
<1>1. price \in SUBSET Nat /\ stock \in SUBSET Nat /\ priced \in BOOLEAN
  BY OfferIndices, OneIsFirst
<1>2. BplatzRow(offers) = {[priceOf |-> price, priced |-> priced, stockOf |-> stock]}
  BY DEF BplatzRow
<1> HIDE DEF price, stock, priced
<1>3. [priceOf |-> price, priced |-> priced, stockOf |-> stock] \in RowsOfShop("bplatz")
  BY <1>1 DEF RowsOfShop, ShopRows, OfOneVariant
<1> QED
  BY <1>2, <1>3

(* The rows a list of offers makes. *)
LEMMA ShopRowsOK ==
  ASSUME NEW s \in Shops, NEW offers \in ShOfferLists, NEW beside \in BOOLEAN
  PROVE  /\ ShRowsOf(s, offers, beside) \in SUBSET RowsOfShop(s)
         /\ s = "perfumemarket" => \A r, q \in ShRowsOf(s, offers, beside) : r = q
<1>1. CASE s = "bplatz"
  BY <1>1, BplatzRowOK DEF ShRowsOf
<1>2. CASE s = "parfumcity"
  BY <1>2, VariantRowsOK DEF ShRowsOf
<1>3. CASE s = "orioudh"
  BY <1>3, VariantRowsOK DEF ShRowsOf
<1>4. CASE s = "perfumemarket"
  BY <1>4, PricesOK, ListedRowOK DEF ShRowsOf
<1> QED
  BY <1>1, <1>2, <1>3, <1>4, ShAssumption

LEMMA ShOutcomesOK ==
  ASSUME NEW s \in Shops
  PROVE  /\ \A rows \in ShOutcomes[s] :
              /\ rows \in SUBSET RowsOfShop(s)
              /\ s = "perfumemarket" => \A r, q \in rows : r = q
         /\ \A rows \in HydratedOutcomes[s] : rows \in SUBSET RowsOfShop(s)
         /\ \A c \in {"suggest", "html", "catalog"} : \A rows \in ListedOutcomes[c] :
              rows \in SUBSET RowsOfShop("perfumemarket") /\ \A r, q \in rows : r = q
<1>1. ASSUME NEW rows \in ShOutcomes[s]
      PROVE  rows \in SUBSET RowsOfShop(s) /\ (s = "perfumemarket" => \A r, q \in rows : r = q)
  <2>1. rows = {} \/ \E offers \in ShOfferLists, beside \in BOOLEAN : rows = ShRowsOf(s, offers, beside)
    BY <1>1 DEF ShOutcomes
  <2> QED
    BY <2>1, ShopRowsOK
<1>2. ASSUME NEW rows \in HydratedOutcomes[s] PROVE rows \in SUBSET RowsOfShop(s)
  <2>1. CASE s = "perfumemarket"
    <3>1. \/ rows = {}
          \/ \E offers \in ShOfferLists, beside \in BOOLEAN, overruled \in BOOLEAN :
               rows = MarketPageRow(offers, beside, overruled)
      BY <1>2, <2>1 DEF HydratedOutcomes
    <3> QED
      BY <2>1, <3>1, MarketPageOK
  <2>2. CASE s # "perfumemarket"
    <3> DEFINE made == {ShRowsOf(s, offers, FALSE) : offers \in ShOfferLists}
    <3>0. HydratedOutcomes[s] = {{}} \cup made
      BY <2>2 DEF HydratedOutcomes
    <3>1. rows = {} \/ \E offers \in ShOfferLists : rows = ShRowsOf(s, offers, FALSE)
      <4>1. rows = {} \/ rows \in made
        <5> HIDE DEF made
        <5> QED
          BY <1>2, <3>0
      <4> QED
        BY <4>1
    <3>2. CASE rows = {}
      BY <3>2
    <3>3. ASSUME NEW offers \in ShOfferLists, rows = ShRowsOf(s, offers, FALSE)
          PROVE  rows \in SUBSET RowsOfShop(s)
      BY <3>3, ShopRowsOK
    <3> QED
      BY <3>1, <3>2, <3>3
  <2> QED
    BY <2>1, <2>2
<1>3. ASSUME NEW c \in {"suggest", "html", "catalog"}, NEW rows \in ListedOutcomes[c]
      PROVE  rows \in SUBSET RowsOfShop("perfumemarket") /\ \A r, q \in rows : r = q
  <2>1. PICK offers \in ShOfferLists, beside \in BOOLEAN :
          rows \in {ListedRow(price, beside) : price \in {FirstPrice(offers), {}, CatalogPrice(offers)}}
    BY <1>3 DEF ListedOutcomes
  <2> QED
    BY <2>1, PricesOK, ListedRowOK
<1> QED
  BY <1>1, <1>2, <1>3

LEMMA ChannelsOK ==
  /\ \A s \in FourShops : Len(Channels[s]) \in 1 .. 5
  /\ \A s \in FourShops : \A i \in 1 .. Len(Channels[s]) : Channels[s][i] \in ChannelNames
  /\ Len(Channels["perfumemarket"]) = 4
  /\ \A i \in 1 .. 4 : Channels["perfumemarket"][i] \in {"suggest", "html", "catalog", "sitemap"}
  /\ \A i \in 1 .. 4 : Channels["perfumemarket"][i] = "sitemap" => i = 4
<1>1. /\ Channels["bplatz"] = <<"suggest", "json", "catalog", "sitemap", "html">>
      /\ Channels["parfumcity"] = <<"suggest", "json", "catalog", "sitemap", "html">>
      /\ Channels["orioudh"] = <<"suggest", "suggest", "html", "json">>
      /\ Channels["perfumemarket"] = <<"suggest", "html", "catalog", "sitemap">>
  BY DEF Channels
<1>2. FourShops = {"bplatz", "parfumcity", "orioudh", "perfumemarket"}
  BY DEF FourShops
<1>3. /\ Len(Channels["bplatz"]) = 5 /\ Len(Channels["parfumcity"]) = 5
      /\ Len(Channels["orioudh"]) = 4 /\ Len(Channels["perfumemarket"]) = 4
  BY <1>1
<1>4. \A i \in 1 .. 4 : i = 1 \/ i = 2 \/ i = 3 \/ i = 4
  OBVIOUS
<1>5. \A i \in 1 .. 5 : i = 1 \/ i = 2 \/ i = 3 \/ i = 4 \/ i = 5
  OBVIOUS
<1>6. \A i \in 1 .. 5 : Channels["bplatz"][i] \in ChannelNames /\ Channels["parfumcity"][i] \in ChannelNames
  BY <1>1, <1>5 DEF ChannelNames
<1>7. \A i \in 1 .. 4 : /\ Channels["orioudh"][i] \in ChannelNames
                        /\ Channels["perfumemarket"][i] \in {"suggest", "html", "catalog", "sitemap"}
                        /\ Channels["perfumemarket"][i] = "sitemap" => i = 4
  BY <1>1, <1>4 DEF ChannelNames
<1>8. \A s \in FourShops : \A i \in 1 .. Len(Channels[s]) : Channels[s][i] \in ChannelNames
  <2>1. {"suggest", "html", "catalog", "sitemap"} \subseteq ChannelNames
    BY DEF ChannelNames
  <2> QED
    BY <1>2, <1>3, <1>6, <1>7, <2>1
<1>9. \A s \in FourShops : Len(Channels[s]) \in 1 .. 5
  BY <1>2, <1>3
<1> QED
  BY <1>3, <1>7, <1>8, <1>9

LEMMA ShIdleOK ==
  ASSUME NEW s \in Shops
  PROVE  /\ ShIdle \in ShSearch(s) /\ ShIdle.at = "idle" /\ ShIdle.step = 1 /\ ~ShIdle.verified
         /\ ~ShIdle.failed /\ ShIdle.found = {} /\ ShIdle.pages = {} /\ ShIdle.rows = {}
         /\ ShIdle.heard = {} /\ ShIdle.answer = Unanswered
  BY DEF ShIdle, ShSearch, ShHeard, Heard, Answers, Unanswered

(* A step of a search that keeps both promises, and one that each shop keeps its own. *)
ShKeepsBoth == ShPromise!StoreNext /\ ShResponse!StoreNext
ShKeeps ==
  /\ shop \in {"orioudh", "perfumemarket"} => ShPromise!StoreStep
  /\ shop = "parfumcity" => ShResponse!StoreStep

LEMMA ShHears ==
  ASSUME ShOK(shop, sh), sh.at \notin {"idle", "done"}, ShOK(shop, sh'), UNCHANGED shop,
         sh'.at \notin {"idle", "done"}, sh.heard \subseteq sh'.heard
  PROVE  ShOK(shop, sh)' /\ ShKeepsBoth
<1>1. sh'.answer = sh.answer /\ sh'.heard \subseteq {"answer", "unreadable", "failure"}
  BY DEF ShOK, ShSearch, ShHeard, Heard
<1>2. ASSUME NEW as \in {"answer", "failure"}
      PROVE  HeardAs(as) \subseteq HeardAs(as)' /\ HeardAs(as)' \subseteq {"answer", "failure"}
  BY <1>1 DEF HeardAs
<1>3. ShPhase = "asking" /\ ShPhase' = "asking"
  BY DEF ShPhase
<1>4. ShPromise!Hear
  BY <1>1, <1>2, <1>3 DEF ShPromise!Hear
<1>5. ShResponse!Hear
  BY <1>1, <1>2, <1>3 DEF ShResponse!Hear
<1> QED
  BY <1>4, <1>5 DEF ShKeepsBoth, ShPromise!StoreNext, ShResponse!StoreNext

LEMMA ShBeginOK == ASSUME ShOK(shop, sh), ShBegin PROVE ShOK(shop, sh)' /\ ShKeepsBoth
<1>1. sh.at \in {"idle", "done"} /\ shop \in Shops /\ shop \in FourShops /\ UNCHANGED shop
  BY ShAssumption DEF ShBegin, ShOK, FourShops
<1>2. CASE sh' = [ShIdle EXCEPT !.at = "done", !.heard = {"blank"}, !.answer.verified = TRUE]
  <2>1. sh' = [at |-> "done", step |-> 1, verified |-> FALSE, errors |-> FALSE, found |-> {},
               pages |-> {}, failed |-> FALSE, rows |-> {}, heard |-> {"blank"},
               hydrated |-> {}, answer |-> [verified |-> TRUE, rows |-> FALSE]]
    BY <1>2 DEF ShIdle
  <2>2. /\ sh' \in ShSearch(shop) /\ sh'.at = "done" /\ sh'.heard = {"blank"}
        /\ sh'.answer = Blank /\ sh'.pages = {} /\ sh'.rows = {} /\ sh'.failed = FALSE
    BY <2>1 DEF ShSearch, ShHeard, Heard, Answers, Blank
  <2>3. ShOK(shop, sh')
    BY <1>1, <2>2 DEF ShOK
  <2>4. /\ ShPhase \in {"idle", "done"} /\ ShPhase' = "done"
        /\ \A as \in {"answer", "failure"} : HeardAs(as)' = {"blank"}
    BY <1>1, <2>2 DEF ShPhase, HeardAs
  <2>5. ShPromise!AnswerBlank /\ ShResponse!AnswerBlank
    BY <2>2, <2>4 DEF ShPromise!AnswerBlank, ShResponse!AnswerBlank, Blank
  <2> QED
    BY <1>1, <2>3, <2>5 DEF ShKeepsBoth, ShPromise!StoreNext, ShResponse!StoreNext
<1>3. CASE sh' = [ShIdle EXCEPT !.at = "channels"]
  <2>1. /\ sh' \in ShSearch(shop) /\ sh'.at = "channels" /\ sh'.step = 1 /\ sh'.pages = {}
        /\ sh'.rows = {} /\ sh'.heard = {} /\ sh'.answer = Unanswered
    BY <1>1, <1>3, ShIdleOK DEF ShSearch
  <2>2. ~sh'.verified /\ ~sh'.failed /\ sh'.found = {}
    BY <1>1, <1>3, ShIdleOK DEF ShSearch
  <2>3. 1 <= Len(Channels[shop])
    <3> DEFINE n == Len(Channels[shop])
    <3>1. n \in 1 .. 5
      BY <1>1, ChannelsOK
    <3> HIDE DEF n
    <3>2. 1 <= n
      BY <3>1
    <3> QED
      BY <3>2 DEF n
  <2>4. ShOK(shop, sh')
    BY <1>1, <2>1, <2>2, <2>3 DEF ShOK
  <2>5. /\ ShPhase \in {"idle", "done"} /\ ShPhase' = "asking"
        /\ \A as \in {"answer", "failure"} : HeardAs(as)' = {}
    BY <1>1, <2>1 DEF ShPhase, HeardAs
  <2>6. ShPromise!Ask /\ ShResponse!Ask
    BY <2>1, <2>5 DEF ShPromise!Ask, ShPromise!NoAnswer, ShResponse!Ask, ShResponse!NoAnswer, Unanswered
  <2> QED
    BY <1>1, <2>4, <2>6 DEF ShKeepsBoth, ShPromise!StoreNext, ShResponse!StoreNext
<1> QED
  BY <1>2, <1>3 DEF ShBegin

(* A channel: its rows are of URLs that have none, and candidates have none either. *)
LEMMA ShDiscovers ==
  ASSUME ShOK(shop, sh), sh.at = "channels", UNCHANGED shop, sh' \in ShSearch(shop),
         NEW fresh \in SUBSET ShPages, NEW row, NEW hears \in {"answer", "unreadable", "failure"},
         \A u \in fresh : \A r \in sh.rows : r.url # u,
         sh'.heard = sh.heard \cup {hears}, fresh # {} => hears = "answer",
         shop = "parfumcity" /\ sh'.verified => sh.verified \/ hears # "failure",
         \/ sh'.found = sh.found /\ sh'.rows = sh.rows \cup RowsFor(fresh, row)
         \/ sh'.found = sh.found \cup fresh /\ sh'.rows = sh.rows,
         sh'.at \in {"channels", "pages", "failed"},
         sh'.at = "channels" => sh'.step <= Len(Channels[shop]),
         shop = "perfumemarket" =>
           /\ \A r, q \in row : r = q
           /\ sh'.at = "channels" => sh'.found = sh.found,
         sh'.pages = sh.pages, sh'.failed = sh.failed, sh'.answer = sh.answer
  PROVE  ShOK(shop, sh)' /\ ShKeepsBoth
<1>1. /\ sh.pages = {} /\ ~sh.failed /\ "blank" \notin sh.heard /\ sh.answer = Unanswered
      /\ shop = "perfumemarket" => sh.found = {}
  BY DEF ShOK
<1>2. sh'.rows # {} => "answer" \in sh'.heard
  BY DEF ShOK, RowsFor
<1>3. shop = "perfumemarket" =>
        \A r \in sh'.rows : /\ r.url \notin sh'.found \ sh'.pages
                            /\ \A q \in sh'.rows : r.url = q.url => r = q
  <2> SUFFICES ASSUME shop = "perfumemarket"
               PROVE  \A r \in sh'.rows : /\ r.url \notin sh'.found
                                          /\ \A q \in sh'.rows : r.url = q.url => r = q
    OBVIOUS
  <2>1. \A r, q \in sh.rows : r.url = q.url => r = q
    BY DEF ShOK
  <2>2. CASE sh'.found = sh.found \cup fresh /\ sh'.rows = sh.rows
    BY <1>1, <2>1, <2>2
  <2>3. CASE sh'.found = sh.found /\ sh'.rows = sh.rows \cup RowsFor(fresh, row)
    <3> DEFINE new == RowsFor(fresh, row)
    <3>1. \A r \in new : r.url \in fresh /\ \A q \in new : r.url = q.url => r = q
      BY DEF RowsFor
    <3>2. sh'.rows = sh.rows \cup new /\ sh'.found = {}
      BY <1>1, <2>3
    <3> HIDE DEF new
    <3> QED
      BY <2>1, <3>1, <3>2
  <2> QED
    BY <2>2, <2>3
<1>4. ShOK(shop, sh')
  BY <1>1, <1>2, <1>3 DEF ShOK
<1> QED
  BY <1>4, ShHears

LEMMA AskChannelOK ==
  ASSUME ShOK(shop, sh), AskChannel PROVE ShOK(shop, sh)' /\ ShKeepsBoth
<1> DEFINE channel == Channels[shop][sh.step]
           lists == Lists(channel)
<1>0. PICK reply \in ShReplies, urls \in SUBSET ShPages :
        \E row \in IF lists THEN ListedOutcomes[channel] ELSE {{}} : sh' = Told(channel, reply, urls, row)
  BY DEF AskChannel
<1> DEFINE fresh == WithoutRow(urls)
<1>1. PICK row \in IF lists THEN ListedOutcomes[channel] ELSE {{}} : sh' = Told(channel, reply, urls, row)
  BY <1>0
<1>2. /\ shop \in Shops /\ shop \in FourShops /\ UNCHANGED shop /\ sh \in ShSearch(shop)
      /\ sh.at = "channels" /\ sh.step <= Len(Channels[shop])
  BY ShAssumption DEF ShOK, AskChannel, FourShops
<1>3. sh.step \in 1 .. 6 /\ Len(Channels[shop]) \in 1 .. 5
  BY <1>2, ChannelsOK DEF ShSearch
<1>4. /\ shop = "perfumemarket" => channel \in {"suggest", "html", "catalog", "sitemap"}
      /\ shop = "perfumemarket" /\ ~lists => sh.step = Len(Channels[shop])
      /\ lists => shop = "perfumemarket" /\ channel # "sitemap"
  BY <1>2, <1>3, ChannelsOK DEF Lists
<1> DEFINE hears == IF reply = "answer" \/ urls # {} THEN "answer"
                    ELSE IF reply = "failure" THEN "failure" ELSE "unreadable"
           at == IF EndsSearch(shop, reply) THEN "failed"
                 ELSE IF EndsDiscovery(shop, channel, reply) \/ sh.step = Len(Channels[shop]) THEN "pages"
                 ELSE "channels"
           verified == sh.verified \/ Verifies(shop, channel, reply)
           errors == sh.errors \/ Errs(shop, channel, reply)
           found == sh.found \cup (IF lists THEN {} ELSE fresh)
           rows == sh.rows \cup (IF lists THEN RowsFor(fresh, row) ELSE {})
<1>5. /\ fresh \in SUBSET ShPages /\ hears \in {"answer", "unreadable", "failure"} /\ at \in {"failed", "pages", "channels"}
      /\ verified \in BOOLEAN /\ errors \in BOOLEAN
  BY DEF WithoutRow
<1>6. /\ \A u \in fresh : \A r \in sh.rows : r.url # u
      /\ fresh # {} => hears = "answer"
  BY DEF WithoutRow
<1>7. row \in SUBSET RowsOfShop(shop) /\ (shop = "perfumemarket" => \A r, q \in row : r = q)
  <2>1. CASE lists
    BY <1>1, <1>2, <1>4, <2>1, ShOutcomesOK
  <2>2. CASE ~lists
    BY <1>1, <2>2
  <2> QED
    BY <2>1, <2>2
<1>8. found \in SUBSET ShPages /\ rows \in SUBSET [url : ShPages, row : RowsOfShop(shop)]
  BY <1>2, <1>5, <1>7 DEF ShSearch, RowsFor
<1>9. \/ found = sh.found /\ rows = sh.rows \cup RowsFor(fresh, row)
      \/ found = sh.found \cup fresh /\ rows = sh.rows
  OBVIOUS
<1>10. at = "channels" => sh.step + 1 <= Len(Channels[shop])
  BY <1>2, <1>3
<1>11. shop = "perfumemarket" /\ at = "channels" => found = sh.found
  BY <1>4
<1>12. shop = "parfumcity" /\ verified => sh.verified \/ hears # "failure"
  BY DEF Verifies
<1>13. sh.step + 1 \in 1 .. 6
  BY <1>2, <1>3
<1>14. sh' = [sh EXCEPT !.step = sh.step + 1, !.at = at, !.verified = verified, !.errors = errors,
                        !.found = found, !.rows = rows, !.heard = sh.heard \cup {hears}]
  BY <1>1 DEF Told
<1> HIDE DEF fresh, hears, at, verified, errors, found, rows, lists, channel
<1>15. /\ sh' \in ShSearch(shop) /\ sh'.step = sh.step + 1 /\ sh'.at = at /\ sh'.verified = verified
       /\ sh'.found = found /\ sh'.rows = rows /\ sh'.heard = sh.heard \cup {hears}
  BY <1>2, <1>5, <1>8, <1>13, <1>14 DEF ShSearch, ShHeard, Heard
<1>16. /\ sh'.pages = sh.pages /\ sh'.failed = sh.failed /\ sh'.answer = sh.answer
  BY <1>2, <1>14 DEF ShSearch
<1>17. \/ sh'.found = sh.found /\ sh'.rows = sh.rows \cup RowsFor(fresh, row)
       \/ sh'.found = sh.found \cup fresh /\ sh'.rows = sh.rows
  BY <1>9, <1>15
<1>18. /\ shop = "parfumcity" /\ sh'.verified => sh.verified \/ hears # "failure"
       /\ sh'.at \in {"channels", "pages", "failed"}
       /\ sh'.at = "channels" => sh'.step <= Len(Channels[shop])
       /\ shop = "perfumemarket" /\ sh'.at = "channels" => sh'.found = sh.found
  BY <1>5, <1>10, <1>11, <1>12, <1>15
<1>19. /\ \A u \in fresh : \A r \in sh.rows : r.url # u
       /\ sh'.heard = sh.heard \cup {hears}
       /\ sh' \in ShSearch(shop)
  BY <1>6, <1>15
<1> QED
  BY <1>2, <1>5, <1>6, <1>7, <1>16, <1>17, <1>18, <1>19, ShDiscovers

LEMMA FetchShopPageOK ==
  ASSUME ShOK(shop, sh), NEW u \in ShPages, FetchShopPage(u)
  PROVE  ShOK(shop, sh)' /\ ShKeepsBoth
<1>1. /\ shop \in Shops /\ UNCHANGED shop /\ sh \in ShSearch(shop) /\ sh.at = "pages"
      /\ u \in sh.found \ sh.pages /\ "blank" \notin sh.heard /\ sh.pages \subseteq sh.found
  BY DEF ShOK, FetchShopPage
<1>2. CASE sh' = [sh EXCEPT !.pages = @ \cup {u}, !.failed = TRUE, !.heard = @ \cup {"failure"}]
  <2>1. /\ sh' \in ShSearch(shop) /\ sh'.pages = sh.pages \cup {u} /\ sh'.heard = sh.heard \cup {"failure"}
    BY <1>1, <1>2 DEF ShSearch, ShHeard, Heard
  <2>2. /\ sh'.at = sh.at /\ sh'.found = sh.found /\ sh'.rows = sh.rows
        /\ sh'.verified = sh.verified /\ sh'.answer = sh.answer
    BY <1>1, <1>2 DEF ShSearch
  <2>3. ShOK(shop, sh')
    BY <1>1, <2>1, <2>2 DEF ShOK
  <2> QED
    BY <1>1, <2>1, <2>2, <2>3, ShHears
<1>3. ASSUME NEW rows \in ShOutcomes[shop],
             sh' = [sh EXCEPT !.pages = @ \cup {u}, !.heard = @ \cup {"answer"},
                              !.rows = @ \cup RowsFor({u}, rows)]
      PROVE  ShOK(shop, sh)' /\ ShKeepsBoth
  <2> DEFINE new == RowsFor({u}, rows)
  <2>1. rows \in SUBSET RowsOfShop(shop) /\ (shop = "perfumemarket" => \A r, q \in rows : r = q)
    BY <1>1, ShOutcomesOK
  <2>2. /\ new \in SUBSET [url : ShPages, row : RowsOfShop(shop)]
        /\ \A r \in new : r.url = u
        /\ shop = "perfumemarket" => \A r, q \in new : r = q
    BY <2>1 DEF RowsFor
  <2> HIDE DEF new
  <2>3. sh' = [sh EXCEPT !.pages = sh.pages \cup {u}, !.heard = sh.heard \cup {"answer"},
                         !.rows = sh.rows \cup new]
    BY <1>3 DEF new
  <2>4. /\ sh' \in ShSearch(shop) /\ sh'.pages = sh.pages \cup {u}
        /\ sh'.heard = sh.heard \cup {"answer"} /\ sh'.rows = sh.rows \cup new
    BY <1>1, <2>2, <2>3 DEF ShSearch, ShHeard, Heard
  <2>5. /\ sh'.at = sh.at /\ sh'.found = sh.found /\ sh'.failed = sh.failed
        /\ sh'.verified = sh.verified /\ sh'.answer = sh.answer
    BY <1>1, <2>3 DEF ShSearch
  <2>6. shop = "perfumemarket" =>
          \A r \in sh'.rows : /\ r.url \notin sh'.found \ sh'.pages
                              /\ \A q \in sh'.rows : r.url = q.url => r = q
    <3> SUFFICES ASSUME shop = "perfumemarket"
                 PROVE  \A r \in sh.rows \cup new :
                          /\ r.url \notin sh.found \ (sh.pages \cup {u})
                          /\ \A q \in sh.rows \cup new : r.url = q.url => r = q
      BY <2>4, <2>5
    <3>1. \A r \in sh.rows : r.url \notin sh.found \ sh.pages /\ \A q \in sh.rows : r.url = q.url => r = q
      BY DEF ShOK
    <3> QED
      BY <1>1, <2>2, <3>1
  <2>7. ShOK(shop, sh')
    BY <1>1, <2>4, <2>5, <2>6 DEF ShOK
  <2> QED
    BY <1>1, <2>4, <2>5, <2>7, ShHears
<1> QED
  BY <1>2, <1>3 DEF FetchShopPage

(* Only bplatz reports as verified what no source has responded to, and only parfumcity    *)
(* what none has answered.                                                                *)
LEMMA ShEndsOK ==
  ASSUME ShOK(shop, sh), ShReturn \/ ShRaises
  PROVE  ShOK(shop, sh)' /\ ShKeeps
<1>1. /\ shop \in Shops /\ shop \in FourShops /\ UNCHANGED shop /\ sh \in ShSearch(shop)
      /\ sh.at \notin {"idle", "done"} /\ sh.answer = Unanswered
  BY ShAssumption DEF ShOK, ShReturn, ShRaises, FourShops
<1>2. ASSUME NEW answer \in Answers, NEW rows \in SUBSET sh.rows,
             sh' = [sh EXCEPT !.at = "done", !.answer = answer, !.rows = rows],
             answer.rows => "answer" \in sh.heard,
             shop # "bplatz" /\ answer.verified /\ ~answer.rows =>
               ~sh.failed /\ shop = "parfumcity" /\ sh.heard \cap {"answer", "unreadable"} # {}
      PROVE  ShOK(shop, sh)' /\ ShKeeps
  <2>1. /\ sh' \in ShSearch(shop) /\ sh'.at = "done" /\ sh'.answer = answer /\ sh'.rows = rows
    BY <1>1, <1>2 DEF ShSearch
  <2>2. /\ sh'.heard = sh.heard /\ sh'.pages = sh.pages /\ sh'.found = sh.found /\ sh'.failed = sh.failed
    BY <1>1, <1>2 DEF ShSearch
  <2>3. ShOK(shop, sh')
    BY <1>1, <1>2, <2>1, <2>2 DEF ShOK
  <2>4. /\ ShPhase = "asking" /\ ShPhase' = "done"
        /\ \A as \in {"answer", "failure"} : UNCHANGED HeardAs(as)
        /\ \A as \in {"answer", "failure"} : "answer" \in sh.heard => "answer" \in HeardAs(as)
        /\ "unreadable" \in sh.heard => "answer" \in HeardAs("answer")
    BY <1>1, <2>1, <2>2 DEF ShPhase, HeardAs
  <2>5. /\ sh'.answer = [verified |-> answer.verified, rows |-> answer.rows]
        /\ answer.verified \in BOOLEAN /\ answer.rows \in BOOLEAN
    BY <2>1 DEF Answers
  <2>6. shop \in {"orioudh", "perfumemarket"} => ShPromise!Return
    BY <1>2, <2>4, <2>5 DEF ShPromise!Return
  <2>7. shop = "parfumcity" => ShResponse!Return
    BY <1>2, <2>4, <2>5 DEF ShResponse!Return
  <2> QED
    BY <1>1, <2>3, <2>6, <2>7
       DEF ShKeeps, ShPromise!StoreNext, ShPromise!StoreStep, ShResponse!StoreNext, ShResponse!StoreStep
<1>3. CASE ShReturn
  <2> DEFINE verified == sh.rows # {} \/ EmptyVerified(shop, sh)
             answer == [verified |-> verified, rows |-> sh.rows # {}]
  <2>1. answer \in Answers /\ (answer.verified <=> verified) /\ (answer.rows <=> sh.rows # {})
    BY DEF Answers
  <2>2. sh' = [sh EXCEPT !.at = "done", !.answer = answer, !.rows = sh.rows]
    BY <1>1, <1>3 DEF ShReturn, ShSearch
  <2>3. /\ sh.rows # {} => "answer" \in sh.heard
        /\ shop = "parfumcity" /\ sh.verified => sh.heard \cap {"answer", "unreadable"} # {}
    BY <1>1 DEF ShOK
  <2>4. shop # "bplatz" /\ EmptyVerified(shop, sh) => shop = "parfumcity" /\ sh.verified /\ ~sh.failed
    BY <1>1 DEF FourShops, EmptyVerified, VerifiedByAll
  <2> HIDE DEF answer
  <2> QED
    BY <1>2, <2>1, <2>2, <2>3, <2>4
<1>4. CASE ShRaises
  <2>1. sh' = [sh EXCEPT !.at = "done", !.answer = Unanswered, !.rows = {}]
    BY <1>1, <1>4 DEF ShRaises, ShSearch
  <2>2. Unanswered \in Answers /\ ~Unanswered.verified /\ ~Unanswered.rows /\ {} \in SUBSET sh.rows
    BY DEF Answers, Unanswered
  <2> DEFINE answer == Unanswered
             rows == {}
  <2>3. /\ answer \in Answers /\ rows \in SUBSET sh.rows /\ ~answer.verified /\ ~answer.rows
        /\ sh' = [sh EXCEPT !.at = "done", !.answer = answer, !.rows = rows]
    BY <2>1, <2>2
  <2> HIDE DEF answer, rows
  <2> QED
    BY <1>2, <2>3
<1> QED
  BY <1>3, <1>4

LEMMA HydrateShopOK == ASSUME ShOK(shop, sh), HydrateShop PROVE ShOK(shop, sh)' /\ ShKeeps
<1>1. shop \in Shops /\ UNCHANGED shop /\ sh \in ShSearch(shop) /\ sh.at = "idle"
  BY DEF ShOK, HydrateShop
<1>2. PICK row \in SUBSET RowsOfShop(shop) : sh' = [sh EXCEPT !.hydrated = row]
  BY <1>1, ShOutcomesOK DEF HydrateShop
<1>3. /\ sh' \in ShSearch(shop) /\ sh'.at = sh.at /\ sh'.heard = sh.heard /\ sh'.answer = sh.answer
  BY <1>1, <1>2 DEF ShSearch
<1>4. /\ sh'.rows = sh.rows /\ sh'.pages = sh.pages /\ sh'.found = sh.found
      /\ sh'.failed = sh.failed /\ sh'.verified = sh.verified
  BY <1>1, <1>2 DEF ShSearch
<1>5. ShOK(shop, sh')
  BY <1>1, <1>3, <1>4 DEF ShOK
<1> QED
  BY <1>1, <1>3, <1>5 DEF ShKeeps, ShPromise!StoreStep, ShPromise!storeVars,
                          ShResponse!StoreStep, ShResponse!storeVars, ShPhase, HeardAs

LEMMA ShInitOK == ShInit => ShOK(shop, sh) /\ ShPromise!StoreInit /\ ShResponse!StoreInit
  BY ShIdleOK DEF ShInit, ShOK, ShPromise!StoreInit, ShPromise!NoAnswer, ShResponse!StoreInit,
                  ShResponse!NoAnswer, Unanswered, ShPhase, HeardAs

LEMMA ShNextOK == ShOK(shop, sh) /\ [ShNext]_shVars => ShOK(shop, sh)' /\ ShKeeps
<1> SUFFICES ASSUME ShOK(shop, sh), [ShNext]_shVars PROVE ShOK(shop, sh)' /\ ShKeeps
  OBVIOUS
<1>1. CASE UNCHANGED shVars
  BY <1>1 DEF ShOK, ShKeeps, ShPromise!StoreStep, ShPromise!storeVars, ShResponse!StoreStep,
              ShResponse!storeVars, shVars, ShPhase, HeardAs
<1>2. ShKeepsBoth => ShKeeps
  BY DEF ShKeepsBoth, ShKeeps, ShPromise!StoreStep, ShResponse!StoreStep
<1> QED
  BY <1>1, <1>2, ShBeginOK, AskChannelOK, FetchShopPageOK, ShEndsOK, HydrateShopOK DEF ShNext

(* No row of the Shopify shops but bplatz's shows one variant's price with another's      *)
(* stock, perfumemarket shows a URL once, and a verified absence is that of a blank query, *)
(* or one of parfumcity, that a response of the shop precedes, and no page that failed.   *)
THEOREM ShInvariant == ShSpec => []ShInv
<1>1. ShOK(shop, sh) => ShInv
  <2> SUFFICES ASSUME ShOK(shop, sh) PROVE ShInv
    OBVIOUS
  <2>1. ShType /\ ListedOnce /\ AbsenceWasHeard
    BY DEF ShOK, ShSearch, ShType, ListedOnce, AbsenceWasHeard, ShHeard, Heard
  <2>2. \A r \in {s.row : s \in sh.rows} \cup sh.hydrated : OfOneVariant(shop, r)
    BY DEF ShOK, ShSearch, RowsOfShop
  <2>3. RowsAreOfOneVariant
    BY <2>2 DEF RowsAreOfOneVariant, OfOneVariant
  <2> QED
    BY <2>1, <2>3 DEF ShInv
<1> QED
  BY <1>1, ShInitOK, ShNextOK, PTL DEF ShSpec

-----------------------------------------------------------------------------------
(* Whatever the order of their steps, every retailer module is safe. *)
THEOREM RetailersSafe == RetailSpec => []RetailInv
  BY PzInvariant, DxInvariant, SbInvariant, EcInvariant, ShInvariant, PTL DEF RetailSpec, RetailInv

(* Every retailer module but Bplatz implements StoreSearch: what it reports as verified,   *)
(* an absence too, a source has answered (of ParfumCity: has responded to, readably or     *)
(* not), and rows come from an answer.                                                    *)
THEOREM RetailersKeepPromise == RetailSpec => StoresKeepPromise
<1>1. PzSpec => PzPromise!StoreInit /\ [][PzPromise!StoreStep]_pzVars
  <2>1. PzIInv /\ [PzNext]_pzVars => PzIInv' /\ [PzPromise!StoreStep]_pzVars
    BY PzNextOK
  <2> QED
    BY <2>1, PzInitOK, PTL DEF PzSpec
<1>2. DxSpec => DxPromise!StoreInit /\ [][DxPromise!StoreStep]_dx
  <2>1. DxOK(dx) /\ [DxNext]_dx => DxOK(dx)' /\ [DxPromise!StoreStep]_dx
    BY DxNextOK
  <2> QED
    BY <2>1, DxInitOK, PTL DEF DxSpec
<1>3. SbSpec => SbPromise!StoreInit /\ [][SbPromise!StoreStep]_sb
  <2>1. SbOK(sb) /\ [SbNext]_sb => SbOK(sb)' /\ [SbPromise!StoreStep]_sb
    BY SbNextOK
  <2> QED
    BY <2>1, SbInitOK, PTL DEF SbSpec
<1>4. EcSpec => EcPromise!StoreInit /\ [][EcPromise!StoreStep]_ec
  <2>1. EcOK(ec) /\ [EcNext]_ec => EcOK(ec)' /\ [EcPromise!StoreStep]_ec
    BY EcNextOK
  <2> QED
    BY <2>1, EcInitOK, PTL DEF EcSpec
<1>5. ShSpec =>
        /\ shop \in {"orioudh", "perfumemarket"} => ShPromise!StoreInit
        /\ [][(shop \in {"orioudh", "perfumemarket"}) => ShPromise!StoreStep]_shVars
        /\ shop = "parfumcity" => ShResponse!StoreInit
        /\ [][shop = "parfumcity" => ShResponse!StoreStep]_shVars
  <2>1. ShOK(shop, sh) /\ [ShNext]_shVars =>
          /\ ShOK(shop, sh)'
          /\ [(shop \in {"orioudh", "perfumemarket"}) => ShPromise!StoreStep]_shVars
          /\ [shop = "parfumcity" => ShResponse!StoreStep]_shVars
    BY ShNextOK DEF ShKeeps
  <2> QED
    BY <2>1, ShInitOK, PTL DEF ShSpec
<1> QED
  BY <1>1, <1>2, <1>3, <1>4, <1>5, PTL DEF RetailSpec, StoresKeepPromise
===================================================================================
