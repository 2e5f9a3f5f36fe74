------------------------------- MODULE MCOffers -------------------------------
(* Instances of the way of an offer through a search: the threads and processes  *)
(* of the stores, the index of the stored pages, the modules of the retailers,    *)
(* the matcher and the merge of what they found. A behaviour is one of one part,  *)
(* chosen at the start.                                                           *)
EXTENDS StoreLanes, SearchIndex, Retailers, OfferMerge, ProductMatcher, TLC

VARIABLES
  part,
  only       \* the page of the index that changes: one of kind "other" under two processes
             \* and refused locks, without a search; of another kind under the web alone

MCLaneOf == ("a" :> "light") @@ ("notino" :> "light")
MCPermits == "light" :> 1
MCKind == [p \in IndexPages |-> p]
MCPzText == [u \in PzPages |-> IF u = "p1" THEN "all" ELSE "some"]
MCPzSite == [root |-> {"m1"}, m1 |-> {"p2", "m2"}, m2 |-> {"p1"}]
MCSurfaceRank == [u \in DxSurfaces |-> IF u = "s1" THEN 0 ELSE 2]
MCSbProduct == [u \in SbPages |-> "id"]
MCEcVariants == [u \in EcPages |-> {"p1v1", "p1v2"}]
MCEcVariant == [p1 |-> "none", p1v1 |-> "v1", p1v2 |-> "v2"]

(* Rows of a listing and what may be wrong with them. *)
AnyRow == [store |-> "other", page |-> "u1", selector |-> "none", name |-> "n1", size |-> 50, format |-> NoSize,
         amount |-> NoAmount, price |-> 7, nested |-> NoAmount, perfume |-> TRUE, renamed |-> TRUE, sameLine |-> TRUE, sameShown |-> TRUE,
         match |-> "a", link |-> [locale |-> "it", size |-> 50]]
SabinaRow == [AnyRow EXCEPT !.store = "sabina"]
EasyRow == [AnyRow EXCEPT !.store = "easycosmetic"]
MCRows == {AnyRow, [AnyRow EXCEPT !.amount = 0], [AnyRow EXCEPT !.price = 9, !.nested = 7, !.size = NoSize], [AnyRow EXCEPT !.perfume = FALSE],
  [AnyRow EXCEPT !.renamed = FALSE], [AnyRow EXCEPT !.sameLine = FALSE, !.page = "u2"], [AnyRow EXCEPT !.sameShown = FALSE, !.price = 9],
  [AnyRow EXCEPT !.match = "error", !.page = "u2"],
  [AnyRow EXCEPT !.match = "nothing"], [AnyRow EXCEPT !.match = "unlisted"],
  SabinaRow, [SabinaRow EXCEPT !.size = 100, !.price = 9], [SabinaRow EXCEPT !.page = "u2", !.format = 100, !.price = 9],
  [SabinaRow EXCEPT !.page = "u2", !.match = "b"], [SabinaRow EXCEPT !.page = "u2", !.selector = "id1"], [SabinaRow EXCEPT !.selector = "id2"],
  [SabinaRow EXCEPT !.selector = "url1", !.size = 125], [SabinaRow EXCEPT !.selector = "url2", !.name = "n2"],
  EasyRow, [EasyRow EXCEPT !.page = "u2", !.match = "b"], [EasyRow EXCEPT !.price = 9, !.name = "n2"],[EasyRow EXCEPT !.page = "u2", !.price = 9, !.size = NoSize]}

(* A registry and a catalogue like those of the backend, and rows that read them in every way. *)
RegisteredVariant(name, aliases) == [name |-> name, aliases |-> aliases]
MCRegistry == <<
  [brand |-> "versace", aliases |-> {<<"eros">>, <<"versace", "eros">>}, excluded |-> {},
   variants |-> << RegisteredVariant(<<"eros">>, {<<"versace", "eros">>, <<"eros", "homme">>, <<"eros", "edt">>}), RegisteredVariant(<<"eros", "edp">>, {}),
                   RegisteredVariant(<<"eros", "flame">>, {<<"eros", "flame", "edp">>}), RegisteredVariant(<<"eros", "femme", "edt">>, {}) >>],
  [brand |-> "rasasi", aliases |-> {<<"hawas">>}, excluded |-> {<<"hawas", "oil">>},
   variants |-> << RegisteredVariant(<<"hawas", "him">>, {<<"hawas">>, <<"hawas", "men">>}), RegisteredVariant(<<"hawas", "her">>, {<<"hawas", "women">>}), RegisteredVariant(<<"hawas", "ice">>, {}) >>],
  [brand |-> "avenue", aliases |-> {<<"brun", "limited">>}, excluded |-> {}, variants |-> << RegisteredVariant(<<"brun", "limited">>, {<<"brun", "limited", "men">>}) >>],
  [brand |-> "avenue", aliases |-> {<<"brun">>}, excluded |-> {<<"brun", "limited">>}, variants |-> << RegisteredVariant(<<"brun">>, {<<"avenue", "brun">>, <<"brun", "edp">>}) >>] >>
CatalogRow(id, brand, family, name) == [id |-> id, brand |-> brand, family |-> family, name |-> name, line |-> <<>>, aliases |-> {}, conc |-> "none", gtins |-> {}]
MCCatalog == << CatalogRow("eros edp", "versace", 1, <<"eros", "edp">>), [CatalogRow("hawas", "rasasi", 0, <<"hawas", "ice">>) EXCEPT !.aliases = {<<"hawas", "him">>}],
  [CatalogRow("brun", "avenue", 4, <<"brun", "original">>) EXCEPT !.line = <<"brun">>], [CatalogRow("brun2", "avenue", 4, <<"brun", "new">>) EXCEPT !.aliases = {<<"brun">>}],
  [CatalogRow("oud", "xerjoff", 0, <<"dark", "oud">>) EXCEPT !.gtins = {"g1"}], [CatalogRow("oud intense", "xerjoff", 0, <<"dark", "oud", "intense">>) EXCEPT !.conc = "edp"],
  CatalogRow("wood", "none", 0, <<"dark", "wood">>), [CatalogRow("rose", "montale", 0, <<"rose">>) EXCEPT !.aliases = {<<"dark", "rose">>, <<"new">>}],
  CatalogRow("dark", "xerjoff", 0, <<"dark">>) >>
Row(name) == [name |-> name, brand |-> "none", url |-> <<>>, sizes |-> {50}, kind |-> "perfume", sameLine |-> TRUE, gtin |-> "none"]
RowOf(name, brand) == [Row(name) EXCEPT !.brand = brand]
RowAt(name, brand, url) == [RowOf(name, brand) EXCEPT !.url = <<url>>]
MCMatched == {
  RowOf(<<"versace", "eros">>, "versace"), Row(<<"eros", "edp">>), Row(<<"eros", "flame">>), Row(<<"eros", "flame", "edp">>), Row(<<"eros", "femme", "edp">>), Row(<<"eros", "copy">>),
  RowAt(<<"eros">>, "versace", <<"versace", "eros", "flame">>), RowAt(<<"eros", "flame", "men">>, "none", <<"eros">>), RowAt(<<"eros", "edp">>, "none", <<"eros", "edt">>),
  RowAt(<<"flame">>, "versace", <<"item">>), RowOf(<<"armaf", "eros", "flame">>, "armaf"), RowOf(<<"eros", "new">>, "armaf"),
  RowAt(<<"eros", "edp">>, "versace", <<"versace", "eros", "edp">>),
  Row(<<"hawas", "women">>), Row(<<"hawas", "by", "men">>), Row(<<"hawas", "ice", "women">>), RowAt(<<"hawas", "her">>, "rasasi", <<"hawas">>), RowAt(<<"hawas", "new">>, "rasasi", <<"hawas", "ice", "copy">>),
  Row(<<"hawas", "oil">>), Row(<<"hawas", "ice", "her", "gift">>), Row(<<"hawas", "femme">>), RowAt(<<"hawas", "women", "new">>, "none", <<"hawas", "him">>),
  Row(<<"brun">>), Row(<<"brun", "limited">>), Row(<<"brun", "limited", "copy">>), RowAt(<<"brun">>, "avenue", <<"avenue", "brun", "limited">>), RowOf(<<"brun", "new", "limited">>, "avenue"),
  [Row(<<"brun">>) EXCEPT !.sizes = {50, 100}], [Row(<<"brun">>) EXCEPT !.kind = "sample"], [Row(<<"brun">>) EXCEPT !.kind = "other"], [Row(<<"eros">>) EXCEPT !.sameLine = FALSE],
  Row(<<"dark", "oud">>), RowOf(<<"dark", "oud">>, "xerjoff"), RowOf(<<"dark", "oud", "intense">>, "xerjoff"), RowAt(<<"dark", "oud">>, "xerjoff", <<"xerjoff", "dark", "oud", "intense">>),
  RowAt(<<"dark">>, "xerjoff", <<"dark", "oud">>), RowAt(<<"dark", "oud", "edt">>, "none", <<"dark", "oud", "intense">>), [Row(<<"dark", "special">>) EXCEPT !.gtin = "g1"], Row(<<"dark", "rose">>), Row(<<"dark", "wood">>),
  RowAt(<<"dark", "oud", "new">>, "montale", <<"dark", "rose">>), Row(<<>>), RowOf(<<"dark", "wood", "oud">>, "xerjoff"), RowAt(<<"rose">>, "montale", <<"rose">>),
  RowOf(<<"dark", "wood", "new">>, "xerjoff"), RowAt(<<"oud", "intense">>, "xerjoff", <<"oud">>)}
MCQueries == {<<"eros">>, <<"eros", "flame">>, <<"eros", "edp">>, <<"versace", "flame">>, <<"hawas">>, <<"hawas", "her">>, <<"new", "hawas">>, <<"brun">>, <<"avenue", "brun">>, <<"brun", "limited">>,
  <<"dark">>, <<"dark", "oud">>, <<"rose", "dark">>, <<"oud">>, <<>>}

offersVars == <<part, only, lanesVars, indexVars, pzVars, dx, sb, ec, shVars, merge, matching>>

OffersInit ==
  /\ part \in {"lanes", "index", "parfumzentrum", "deloox", "sabina", "easycosmetic", "shopify", "merge", "matcher"}
  /\ LanesInit /\ IndexInit /\ PzInit /\ DxInit /\ SbInit /\ EcInit /\ ShInit /\ MergeInit /\ MatcherInit
  /\ only \in IndexPages /\ (part = "index" \/ (only = "other" /\ ~fts.table))
  /\ (part = "shopify" \/ shop = "bplatz") /\ (part = "merge" \/ ~merge.family)

OffersNext ==
  \/ /\ part = "lanes" /\ LanesNext
     /\ UNCHANGED <<part, only, indexVars, pzVars, dx, sb, ec, shVars, merge, matching>>
  \/ /\ part = "index" /\ IndexNext /\ \A p \in IndexPages \ {only} : stored'[p] = stored[p]
     /\ IF only = "other" THEN finder'.at = "idle"
        ELSE ~lapses'.refused /\ \A q \in Procs \ {Web} : opener'[q] = "down"
     /\ UNCHANGED <<part, only, lanesVars, pzVars, dx, sb, ec, shVars, merge, matching>>
  \/ /\ part = "parfumzentrum" /\ PzNext
     /\ UNCHANGED <<part, only, lanesVars, indexVars, dx, sb, ec, shVars, merge, matching>>
  \/ /\ part = "deloox" /\ DxNext
     /\ UNCHANGED <<part, only, lanesVars, indexVars, pzVars, sb, ec, shVars, merge, matching>>
  \/ /\ part = "sabina" /\ SbNext
     /\ UNCHANGED <<part, only, lanesVars, indexVars, pzVars, dx, ec, shVars, merge, matching>>
  \/ /\ part = "easycosmetic" /\ EcNext
     /\ UNCHANGED <<part, only, lanesVars, indexVars, pzVars, dx, sb, shVars, merge, matching>>
  \/ /\ part = "shopify" /\ ShNext
     /\ UNCHANGED <<part, only, lanesVars, indexVars, pzVars, dx, sb, ec, merge, matching>>
  \/ /\ part = "merge" /\ MergeNext
     /\ UNCHANGED <<part, only, lanesVars, indexVars, pzVars, dx, sb, ec, shVars, matching>>
  \/ /\ part = "matcher" /\ MatcherNext
     /\ UNCHANGED <<part, only, lanesVars, indexVars, pzVars, dx, sb, ec, shVars, merge>>

OffersSpec == OffersInit /\ [][OffersNext]_offersVars
==============================================================================
