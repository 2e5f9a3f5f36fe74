---------------------------- MODULE ProductMatcher ----------------------------
(* ProductMatcher.match of backend/product_matcher.py: which perfume of the          *)
(* catalogue a row of a store is, for a query. A query of a registered family is      *)
(* answered by FamilyMatcher; any other by the indexes over the catalogue, which       *)
(* are to answer what a comparison with every product would.                          *)
EXTENDS FamilyMatcher

CONSTANTS
  Catalog,      \* sequence of products
  Queries,      \* what is searched for
  Selective     \* a posting of at most so many products is selective (64 in the code)

Product == [id : STRING, brand : STRING, family : Nat, name : Text, line : Text, aliases : SUBSET Text,
            conc : Concentrations \cup {"none"}, gtins : SUBSET STRING]
ASSUME MatcherAssumption ==
  /\ Selective \in Nat /\ Catalog \in Seq(Product) /\ Queries \subseteq Text
  /\ \A i \in DOMAIN Catalog : IsFiniteSet(Catalog[i].aliases)

VARIABLE matching
Unasked == [offer |-> <<>>, query |-> <<>>, way |-> "none", id |-> "none", variant |-> Nothing]

Products == DOMAIN Catalog
Names(p) == {Catalog[p].name} \cup Catalog[p].aliases

--------------------------------------------------------------------------------
(* _catalog_product_for_family_variant: the product with the name of the variant (its index *)
(* has the names without concentration), else one of the family, else of the brand, with     *)
(* the longest name in common. Candidates come in the order of a set of strings, which        *)
(* changes from process to process. Without one the id is derived from the variant.          *)
Common(p, variant) ==
  ({Identity(t) : t \in Texts(variant)} \cap {Identity(t) : t \in Names(p) \cup {Catalog[p].line}}) \ {<<>>}
Closest(of, variant) ==
  LET longest(p) == Highest({Len(t) : t \in Common(p, variant)})
      rivals == {p \in of : Common(p, variant) # {}}
  IN {p \in rivals : \A q \in rivals : longest(q) <= longest(p)}
CatalogIds(f, v) ==
  LET variant == Registry[f].variants[v]
      indexed == {p \in Products : Catalog[p].family = f /\ Key(Catalog[p].name) = Identity(variant.name)}
      family == {p \in Products : Catalog[p].family = f}
      exact == {p \in family : Identity(Catalog[p].name) = Identity(variant.name)}
      brand == {p \in Products : Catalog[p].brand = Registry[f].brand}
      found == IF indexed # {} THEN {Min(indexed)}
               ELSE IF exact # {} THEN exact
               ELSE IF Closest(family, variant) # {} THEN Closest(family, variant) ELSE Closest(brand, variant)
  IN IF found = {} THEN {<<"family", f, v>>} ELSE {Catalog[p].id : p \in found}

--------------------------------------------------------------------------------
(* _query_offer_relevance: an unrelated row must not become a result. *)
Relevance(query, offer) ==
  LET asked == ToSet(Key(query))
      given == ToSet(Key(offer.name)) \cup ({offer.brand} \ {"none"})
  IN IF asked = {} \/ given = {} THEN 0 ELSE IF asked \subseteq given THEN 1000 ELSE F1(asked, given)

TextWords(p) == AllWords({Key(t) : t \in Names(p)})
UrlTexts(p) == {Without(Identity(t), Concentrations \ ToSet(Identity(Catalog[p].name))) : t \in Names(p)} \ {<<>>}
UrlWords(p) == AllWords(UrlTexts(p))
ProductSpecificity(p) == Cardinality(ToSet(Specificity(Catalog[p].name, Catalog[p].brand)))

(* _text_score: a name of the product, or a phrase of more than a short word within the name, *)
(* else the common words.                                                                     *)
ShortWords == {"by", "ice", "men", "new", "oud"}     \* of fewer than four letters
Quoted(text, name) == text = name \/ (Phrase(text, name) /\ ~(Len(text) = 1 /\ ToSet(text) \subseteq ShortWords))
TextScore(offer, p) ==
  LET name == Key(offer.name)
      best == Highest({IF Quoted(Key(t), name) THEN 1000 ELSE F1(ToSet(Key(t)), ToSet(name)) :
                         t \in {n \in Names(p) : Key(n) # <<>>}})
  IN IF offer.brand # "none" /\ offer.brand = Catalog[p].brand THEN 450 + (55 * best) \div 100 ELSE (95 * best) \div 100

(* _url_candidate_score: another concentration is another product. (Of two texts that score *)
(* within 30 of each other the code keeps the score of the longer one, here the higher.)     *)
UrlCandidateScore(offer, p) ==
  LET brand == {offer.brand}
      words(part, t) == (ToSet(Identity(part)) \ (Concentrations \ ToSet(t))) \ brand
      score(part, t) == F1(ToSet(t) \ brand, words(part, t))
      fits(part, s) ==
        IF Hard(part) = {} \/ Catalog[p].conc = "none" \/ s = 0 THEN s
        ELSE IF Catalog[p].conc \in Hard(part) THEN s + 30 ELSE (35 * s) \div 100
  IN Highest({fits(part, score(part, t)) : part \in ToSet(offer.url), t \in UrlTexts(p)})

(* The best of some candidates, which come in the order of a set: higher, or as high and *)
(* more specific.                                                                        *)
None == [product |-> 0, score |-> 0, specificity |-> -1]
Preferred(best, p, score) ==
  score > best.score \/ (best.score < score + 30 /\ ProductSpecificity(p) > best.specificity)
BestOf(score, order) ==
  LET step(best, p) ==
        IF Preferred(best, p, score[p])
        THEN [product |-> p, score |-> score[p], specificity |-> ProductSpecificity(p)] ELSE best
      best[k \in 0 .. Len(order)] == IF k = 0 THEN None ELSE step(best[k - 1], order[k])
  IN best[Len(order)]
Pick(score) == {BestOf(score, order) : order \in SetToSeqs(DOMAIN score)}

(* The products of the selective postings of some words, of all of them if none is. (The  *)
(* first eight, or four, of them: the texts of the model have no more words.)             *)
Postings(words, wordsOf) ==
  LET posting(w) == {p \in Products : w \in wordsOf[p]}
      lists == {posting(w) : w \in words} \ {{}}
      selective == {l \in lists : Cardinality(l) <= Selective}
  IN UNION (IF selective # {} THEN selective ELSE lists)

(* _brand_compatible_products, or without a brand what has the rarest word of the query. *)
Compatible(offer) == {p \in Products : offer.brand = "none" \/ Catalog[p].brand \in {offer.brand, "none"}}
EligibleSets(offer, query) ==
  LET words == ToSet(Key(query))
      lists == {{p \in Products : w \in TextWords(p)} : w \in words} \ {{}}
      selective == {l \in lists : Cardinality(l) <= Selective}
      rarest == {l \in selective : \A m \in selective : Cardinality(l) <= Cardinality(m)}
  IN IF offer.brand # "none" \/ Cardinality(words) < 2 \/ selective = {} THEN {Compatible(offer)} ELSE rarest

Answer(p, way) == [product |-> p, way |-> way]
NoAnswer == Answer(0, "none")
TextAnswer(text) == Answer(text.product, IF text.score >= 940 THEN "exact_name" ELSE "token_score")

(* _best_match, after the identifiers: a single product whose name and URL are the row's, *)
(* else the best by name against the best by URL, over the candidates texts and urls.       *)
ExactNames(offer, eligible) == {p \in eligible : Key(offer.name) \in {Key(t) : t \in Names(p)} \ {<<>>}}
MostSpecific(products) == {p \in products : \A q \in products : ProductSpecificity(q) <= ProductSpecificity(p)}
ByText(offer, exact, texts) ==
  LET p == Min(MostSpecific(exact))
  IN IF exact # {} THEN {[product |-> p, score |-> 1000, specificity |-> ProductSpecificity(p)]}
     ELSE Pick([q \in texts |-> TextScore(offer, q)])
Rivals(text, urls) ==
  {p \in urls : text.product # 0 /\ text.score >= 940 => ProductSpecificity(p) > text.specificity}
Settle(text, url) ==
  IF /\ url.score >= 720
     /\ \/ text.product = 0 \/ url.specificity > text.specificity \/ url.score >= text.score + 120
  THEN Answer(url.product, "url_identity")
  ELSE IF text.product = 0 \/ text.score < 860 THEN NoAnswer ELSE TextAnswer(text)
Decide(offer, eligible, texts, urls) ==
  LET exact == ExactNames(offer, eligible)
      sure == {p \in exact : UrlCandidateScore(offer, p) >= 720}
  IN IF Cardinality(exact) = 1 /\ sure # {} THEN {Answer(Min(exact), "exact_name")}
     ELSE UNION {{Settle(text, url) : url \in Pick([p \in Rivals(text, urls) |-> UrlCandidateScore(offer, p)])} :
                   text \in ByText(offer, exact, texts)}

ByIndex(offer, eligible) ==
  LET urlWords == AllWords(ToSet(offer.url)) \ {offer.brand}
  IN Decide(offer, eligible, eligible \cap Postings(ToSet(Key(offer.name)), [p \in Products |-> TextWords(p)]),
            eligible \cap Postings(urlWords, [p \in Products |-> UrlWords(p)]))
ByScan(offer, eligible) == Decide(offer, eligible, eligible, eligible)

BestMatches(offer, query) ==
  LET known == {p \in Products : offer.gtin \in Catalog[p].gtins}
  IN IF Cardinality(known) = 1 THEN {Answer(Min(known), "gtin")}
     ELSE IF offer.name = <<>> THEN {NoAnswer}
     ELSE UNION {ByIndex(offer, eligible) : eligible \in EligibleSets(offer, query)}

--------------------------------------------------------------------------------
(* match: what a row is for a query. *)
Matched(way, id, variant) == [way |-> way, id |-> id, variant |-> variant]
Rejected == Matched("rejected", "none", Nothing)
OfFamily(found) ==
  IF found = Nothing THEN {Rejected}
  ELSE {Matched("family", id, found) : id \in CatalogIds(found.family, found.variant)}
OfCatalog(best) ==
  {IF a.product = 0 THEN Rejected
   ELSE Matched(a.way, Catalog[a.product].id, [family |-> 0, variant |-> a.product]) : a \in best}
Answers(offer, query) ==
  LET f == FamilyFor(query) IN
  IF ~Admissible(offer) THEN {Rejected}
  ELSE IF f # 0 THEN OfFamily(MatchInFamily(offer, query, f))
  ELSE IF Relevance(query, offer) < 720 THEN {Rejected} ELSE OfCatalog(BestMatches(offer, query))

MatcherInit == matching = Unasked
MatchOffer(offer, query) ==
  /\ matching = Unasked
  /\ \E a \in Answers(offer, query) :
       matching' = [offer |-> offer, query |-> query, way |-> a.way, id |-> a.id, variant |-> a.variant]

(* Nothing is kept from one row to the next. *)
NextRow == matching # Unasked /\ matching' = Unasked

MatcherNext == NextRow \/ \E offer \in Offers, query \in Queries : MatchOffer(offer, query)
MatcherSpec == MatcherInit /\ [][MatcherNext]_matching

--------------------------------------------------------------------------------
ByFamily == matching.way = "family"
ByCatalog == matching.way \in {"gtin", "exact_name", "token_score", "url_identity"}
Asked == FamilyFor(matching.query)

(* "Keep the opposite-audience variants out": whichever of the seven ways finds the       *)
(* variant, and whatever the URL says, it is not one of the other audience.               *)
AudienceIsKept ==
  ByFamily =>
    LET family == Registry[matching.variant.family]
    IN Audience(NameOf(matching.offer, family)) = "none"
         \/ AudienceOf(family.variants[matching.variant.variant]) \in {"none", Audience(NameOf(matching.offer, family))}

(* "Preserves separate canonical product identities": an offer with the longer alias of a *)
(* sibling family in its name is not a perfume of the family that the query names,        *)
(* if the sibling family knows it at all.                                                 *)
SiblingsStayApart ==
  ByFamily /\ IsBroad(matching.query, Registry[Asked]) =>
    \A i \in DOMAIN Registry \ {Asked} :
      (\E a \in Registry[i].aliases :
         /\ Len(a) > Len(Key(matching.query)) /\ Phrase(Key(matching.query), a)
         /\ Phrase(a, Key(matching.offer.name)))
      /\ Registry[i].brand = Registry[Asked].brand /\ MatchAlone(matching.offer, matching.query, i) # Nothing
      => matching.variant.family # Asked

(* "A unique exact registered alias is definitive family identity": an offer without a URL *)
(* that has a registered name of a single variant, and no concentration or audience in it,  *)
(* is that variant.                                                                         *)
PlainNamesResolve ==
  ByFamily /\ matching.variant.family = Asked /\ matching.offer.url = <<>>
  /\ ToSet(matching.offer.name) \cap (Concentrations \cup HerWords \cup HisWords) = {} =>
    \A v \in DOMAIN Registry[Asked].variants :
      Named(Registry[Asked], DOMAIN Registry[Asked].variants, NameOf(matching.offer, Registry[Asked])) = {v}
      => matching.variant.variant = v

(* "Candidate generation is indexed and lossless for the acceptance rules": what the         *)
(* indexes answer for a row with a brand is what a comparison with every product could, as    *)
(* long as no word of the row is so frequent that its products are passed over.              *)
AnsweredByScan ==
  matching.way # "gtin" /\ matching.offer.brand # "none" =>
    Answer(matching.variant.variant, matching.way) \in ByScan(matching.offer, Compatible(matching.offer))
EveryPostingCounts(offer) ==
  \A w \in ToSet(offer.name) \cup AllWords(ToSet(offer.url)) :
    /\ Cardinality({p \in Products : w \in TextWords(p)}) <= Selective
    /\ Cardinality({p \in Products : w \in UrlWords(p)}) <= Selective
IndexesLoseNothing == ByCatalog /\ EveryPostingCounts(matching.offer) => AnsweredByScan

(* An answer of the catalogue has the row's own gtin, or its brand and a word of its name    *)
(* or URL.                                                                                   *)
AnswersAreGrounded ==
  ByCatalog =>
    LET p == matching.variant.variant IN
    \/ matching.offer.gtin \in Catalog[p].gtins
    \/ /\ p \in Compatible(matching.offer)
       /\ (TextWords(p) \cup UrlWords(p)) \cap (ToSet(matching.offer.name) \cup AllWords(ToSet(matching.offer.url))) # {}

MatcherType == matching.way \in {"none", "rejected", "family", "gtin", "exact_name", "token_score", "url_identity"}
MatcherInv ==
  /\ MatcherType /\ AudienceIsKept /\ SiblingsStayApart /\ PlainNamesResolve
  /\ IndexesLoseNothing /\ AnswersAreGrounded

(* Violated: an offer whose name is a registered one of a variant is matched to another      *)
(* variant of the family: its concentration is removed from it before the names are looked up. *)
RegisteredNamesResolve ==
  ByFamily /\ matching.variant.family = Asked /\ matching.offer.url = <<>> =>
    \A v \in DOMAIN Registry[Asked].variants :
      matching.offer.name \in Texts(Registry[Asked].variants[v]) => matching.variant.variant = v

(* Violated: what the indexes answer for a row is not what a comparison with every product     *)
(* could answer: the products of its frequent words are passed over once it has a rare one.     *)
IndexesAreLossless == ByCatalog => AnsweredByScan
==============================================================================
