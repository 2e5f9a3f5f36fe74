------------------------------ MODULE OfferMerge ------------------------------
(* How backend/main.py turns the raw rows of a search into what it publishes:   *)
(* a row is cleaned, filtered and given an identity by the matcher; once the     *)
(* stores are in, the offers are deduplicated and grouped by perfume; an answer  *)
(* to a poll filters the groups once more.                                       *)
EXTENDS Listing, SequencesExt

CONSTANTS
  RawRows,      \* rows that retailers and the catalogue may report
  MaxOffers     \* bound: offers of one search

NoAmount == 999   \* no price: it is sorted as 999999
NoSize == 0
SabinaSizes == {30, 50, 75, 100, 150, 200}

(* amount, price, nested: the price as a number, as the row's text and in its offer      *)
(* object; selector: what tells the variants of a listing apart, an explicit id or a     *)
(* part of the URL; perfume: what title and category say of the row, renamed: what the   *)
(* matcher's name says; sameLine: the URL is of the same brand, line and concentration   *)
(* as the row's own title, sameShown: and as the catalogue's name under which the offer  *)
(* is shown; match: what the matcher answers; link: locale and size of a Sabina URL.     *)
RawRow ==
  [store : {"easycosmetic", "sabina", "other"}, page : {"u1", "u2"},
   selector : {"none", "id1", "id2", "url1", "url2"}, name : {"n1", "n2"},
   size : {NoSize, 50, 100, 125}, format : {NoSize, 50, 100},
   amount : {NoAmount, 0, 7, 9}, price : {NoAmount, 0, 7, 9}, nested : {NoAmount, 0, 7},
   perfume : BOOLEAN, renamed : BOOLEAN, sameLine : BOOLEAN, sameShown : BOOLEAN,
   match : {"error", "nothing", "unlisted", "a", "b"},
   link : [locale : {"es", "it"}, size : {NoSize, 50, 100}]]
ASSUME MergeAssumption == RawRows \subseteq RawRow /\ MaxOffers \in Nat

Perfumes == {"a", "b"}   \* canonical catalogue ids

VARIABLE merge
MergeIdle == [at |-> "collect", family |-> FALSE, offers |-> <<>>, kept |-> <<>>,
              groups |-> [c \in Perfumes |-> <<>>], unresolved |-> <<>>, shown |-> [c \in Perfumes |-> <<>>]]

--------------------------------------------------------------------------------
(* clean_result: a missing number is the offer object's, before the row's own text, and *)
(* zero is no price.                                                                     *)
CleanPrice(row) ==
  LET number == IF row.amount # NoAmount THEN row.amount
                ELSE IF row.nested # NoAmount THEN row.nested ELSE row.price
  IN IF number = 0 THEN NoAmount ELSE number

(* _resolve_offer_identity: a row the matcher does not know is left out if the query   *)
(* names a known family, and is unresolved else; so is one whose matching fails.       *)
IdentityOf(row, family) ==
  IF row.match \in Perfumes THEN "matched"
  ELSE IF row.match = "nothing" /\ family THEN "rejected" ELSE "unresolved"

Offer(row, status) ==
  [store |-> row.store, page |-> row.page, selector |-> row.selector, name |-> row.name,
   size |-> row.size, format |-> row.format, price |-> CleanPrice(row),
   sameLine |-> row.sameLine, sameShown |-> row.sameShown, status |-> status, perfume |-> IF status = "matched" THEN row.match ELSE "none", link |-> row.link]

(* result_key: the listing, its variant and its size, whatever the perfume is. *)
ResultKey(o) == <<o.store, o.page, o.selector, o.size>>

(* fingerprint: for two stores, offers that are the same under another URL. Easycosmetic *)
(* repeats an offer under other names and sizes, so that its price is enough.            *)
HasFingerprint(o) == o.price # NoAmount /\ (o.store = "easycosmetic" \/ (o.store = "sabina" /\ o.size # NoSize))
Fingerprint(o) ==
  IF o.store = "easycosmetic" THEN <<o.store, o.price>>
  ELSE <<o.store, o.price, o.name, o.size, IF o.selector \in {"id1", "id2"} THEN o.selector ELSE "none">>

Same(o, p) ==
  \/ ResultKey(o) = ResultKey(p)
  \/ HasFingerprint(o) /\ HasFingerprint(p) /\ Fingerprint(o) = Fingerprint(p)

(* If also what is dropped left its marks. *)
StayingUnmarked(offers) == {i \in DOMAIN offers : \A j \in 1 .. i - 1 : ~Same(offers[j], offers[i])}

(* dedupe_results: the first of equal offers stays; one that is dropped leaves no marks.  *)
Staying(offers) ==
  LET stays[i \in DOMAIN offers] == \A j \in 1 .. i - 1 : stays[j] => ~Same(offers[j], offers[i])
  IN {i \in DOMAIN offers : stays[i]}

Deduped(offers) == Picked(offers, Staying(offers))

(* _public_offer_url of a Sabina offer, whose size is the displayed format before the   *)
(* row's own: the Spanish shop, with the fragment of a variant only if it is of that     *)
(* size. A size the shop does not sell leaves the URL as it is.                          *)
SizeOf(o) == IF o.format # NoSize THEN o.format ELSE o.size
PublicLink(o) ==
  IF o.store # "sabina" \/ SizeOf(o) \notin SabinaSizes THEN o.link
  ELSE [locale |-> "es", size |-> IF o.link.size = SizeOf(o) THEN o.link.size ELSE NoSize]
PublicOffer(o) == [o EXCEPT !.link = PublicLink(o)]

(* _aggregate_identity_results: the matched offers of each perfume, but not one whose URL *)
(* is of another product, cheapest first and else as they came.                           *)
Ahead(group, j, i) == group[j].price < group[i].price \/ (group[j].price = group[i].price /\ j <= i)
ByPrice(group) ==
  LET at(n) == CHOOSE i \in DOMAIN group : Cardinality({j \in DOMAIN group : Ahead(group, j, i)}) = n
  IN [n \in DOMAIN group |-> group[at(n)]]
OfPerfume(offers, perfume) ==
  {i \in DOMAIN offers : offers[i].status = "matched" /\ offers[i].perfume = perfume /\ offers[i].sameLine}
GroupOf(offers, perfume) ==
  LET of == Picked(offers, OfPerfume(offers, perfume))
  IN ByPrice([n \in DOMAIN of |-> PublicOffer(of[n])])

(* search_status: the offers that lead to the product also by the name they are shown under. *)
SafeOffers(group) == Picked(group, {i \in DOMAIN group : group[i].sameShown})

--------------------------------------------------------------------------------
MergeInit == \E family \in BOOLEAN : merge = [MergeIdle EXCEPT !.family = family]

(* A row of a store: no perfume by its own words or by the name the matcher gives it,    *)
(* or rejected, it is left out.                                                          *)
TakeRow(row) ==
  LET status == IdentityOf(row, merge.family) IN
  /\ merge.at = "collect" /\ Len(merge.offers) < MaxOffers
  /\ row.perfume /\ status # "rejected" /\ (status = "matched" => row.renamed)
  /\ merge' = [merge EXCEPT !.offers = Append(@, Offer(row, status))]

(* The end of the job. *)
PublishOffers ==
  /\ merge.at = "collect"
  /\ LET kept == Deduped(merge.offers)
     IN merge' = [merge EXCEPT !.at = "published", !.kept = kept,
                    !.groups = [c \in Perfumes |-> GroupOf(kept, c)],
                    !.unresolved = Picked(kept, {i \in DOMAIN kept : kept[i].status = "unresolved"})]

(* search_status filters what it shows again: a perfume with nothing left is not shown. *)
Poll ==
  /\ merge.at = "published"
  /\ merge' = [merge EXCEPT !.at = "shown",
                 !.shown = [c \in Perfumes |-> SafeOffers(merge.groups[c])]]

(* A later search starts from nothing. *)
SearchAgain ==
  /\ merge.at = "shown"
  /\ \E family \in BOOLEAN : merge' = [MergeIdle EXCEPT !.family = family]

MergeNext == PublishOffers \/ Poll \/ SearchAgain \/ \E row \in RawRows : TakeRow(row)
MergeSpec == MergeInit /\ [][MergeNext]_merge

--------------------------------------------------------------------------------
MergeType ==
  /\ merge.at \in {"collect", "published", "shown"}
  /\ Len(merge.offers) <= MaxOffers /\ Len(merge.kept) <= Len(merge.offers)
  /\ \A i \in DOMAIN merge.offers : merge.offers[i].price # 0

Kept == ToSet(merge.kept)
Shown == UNION {ToSet(merge.shown[c]) : c \in Perfumes}

(* "Different prices, sizes and explicit variant IDs remain distinct": an offer that is  *)
(* dropped has left one of its store and size, and of its variant id, on its own page or  *)
(* at its own price. (Easycosmetic's are told apart by the price alone.)                 *)
DistinctOffersStay ==
  merge.at # "collect" =>
    \A o \in ToSet(merge.offers) :
      \E k \in Kept :
        /\ k.store = o.store
        /\ o.store = "easycosmetic" => k.price = o.price \/ ResultKey(k) = ResultKey(o)
        /\ o.store # "easycosmetic" =>
             /\ k.size = o.size
             /\ o.selector \in {"id1", "id2"} => k.selector = o.selector
             /\ k.page = o.page \/ (k.price = o.price /\ k.name = o.name)

(* "Must never expose rows whose displayed title conflicts with the URL": what the poll   *)
(* shows of a perfume are the kept offers of it that lead to it by the row's own title and *)
(* by the name shown, every one of them and nothing else, the cheapest first and those     *)
(* without a price last. What the search job keeps in its offers could be deduplicated     *)
(* again without a change.                                                                *)
ShownIsKept ==
  /\ merge.at # "collect" => Deduped(merge.kept) = merge.kept
  /\ merge.at = "shown" =>
       \A c \in Perfumes :
         /\ ToSet(merge.shown[c]) = {PublicOffer(o) : o \in {k \in Kept : k.perfume = c /\ k.sameLine /\ k.sameShown}}
         /\ \A i, j \in DOMAIN merge.shown[c] : i < j => merge.shown[c][i].price <= merge.shown[c][j].price

(* "Opens the Spanish storefront and the offer's actual size variant", for the sizes the  *)
(* shop sells: no link leads to another size.                                             *)
LinkOpensTheSize ==
  \A o \in Shown :
    o.store = "sabina" /\ SizeOf(o) \in SabinaSizes =>
      o.link.locale = "es" /\ o.link.size \in {NoSize, SizeOf(o)}

MergeInv == MergeType /\ DistinctOffersStay /\ ShownIsKept /\ LinkOpensTheSize

(* Violated: what the end of the job published is what a poll shows. The name of the       *)
(* catalogue may state a concentration that the row's own title leaves open.               *)
PollHidesNothing == merge.at = "shown" => merge.shown = merge.groups

(* Violated: a perfume of which an offer was collected is not among what is kept: two      *)
(* perfumes of Easycosmetic that cost the same are taken for one offer.                   *)
PerfumesStay ==
  merge.at # "collect" =>
    \A o, p \in ToSet(merge.offers) :
      o.page # p.page /\ o.perfume # p.perfume /\ o.status = "matched" =>
        \E k \in Kept : k.perfume = o.perfume \/ ResultKey(k) = ResultKey(o)
==============================================================================
