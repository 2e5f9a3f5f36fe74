---------------------------- MODULE FamilyMatcher ----------------------------
(* ProductMatcher of backend/product_matcher.py, the part that decides which       *)
(* registered perfume of a family an offer is. A text is a sequence of words, a     *)
(* word of two words ("eau de parfum", "for her") is one.                          *)
EXTENDS Listing, SequencesExt, FiniteSetsExt

CONSTANTS
  Registry,     \* sequence of families, in the order of the file
  Offers        \* offers that are given to the matcher

Concentrations == {"edp", "edt"}                  \* no part of a catalogue key
Labels == {"men", "women"}                        \* no part of an identity
HerWords == {"women", "her", "femme"}
HisWords == {"men", "him", "homme"}
Editorial == Labels \cup {"by"}
UrlNoise == HerWords \cup HisWords \cup {"copy", "limited"}
Nothing == [family |-> 0, variant |-> 0]

Text == Seq(STRING)
ShopOffer == [name : Text, brand : STRING, url : Seq(Text), sizes : SUBSET Nat,
          kind : {"perfume", "sample", "other"}, sameLine : BOOLEAN, gtin : STRING]
Variant == [name : Text, aliases : SUBSET Text]
Family == [brand : STRING, aliases : SUBSET Text, excluded : SUBSET Text, variants : Seq(Variant)]
ASSUME FamilyAssumption ==
  /\ Offers \subseteq ShopOffer /\ Registry \in Seq(Family)
  /\ \A i \in DOMAIN Registry :
       /\ Registry[i].aliases # {} /\ IsFiniteSet(Registry[i].aliases)
       /\ \A v \in DOMAIN Registry[i].variants : IsFiniteSet(Registry[i].variants[v].aliases)

--------------------------------------------------------------------------------
(* catalog_variant_key, _url_catalog_identity_text, _remove_brand,                 *)
(* _variant_specificity_key: what each leaves of a text.                            *)
Without(text, words) == Picked(text, {i \in DOMAIN text : text[i] \notin words})
Key(text) == Without(text, Concentrations)
Identity(text) == Without(text, Labels)
Specificity(text, brand) == Without(Identity(text), HerWords \cup HisWords \cup {brand})

Phrase(words, text) ==
  \E i \in 1 .. Len(text) : i + Len(words) - 1 <= Len(text) /\ \A k \in DOMAIN words : text[i + k - 1] = words[k]

(* Twice the common words by all words, in thousandths. *)
F1(a, b) == IF a \cup b = {} THEN 0 ELSE (2000 * Cardinality(a \cap b)) \div (Cardinality(a) + Cardinality(b))
Highest(scores) == Max(scores \cup {0})

Texts(variant) == {variant.name} \cup variant.aliases
AllWords(texts) == UNION {ToSet(t) : t \in texts}
Audience(text) ==
  LET hers == ToSet(text) \cap HerWords # {}
      his == ToSet(text) \cap HisWords # {}
  IN IF hers = his THEN "none" ELSE IF hers THEN "donna" ELSE "uomo"
AudienceOf(variant) ==
  LET words == AllWords({Key(t) : t \in Texts(variant)})
      hers == words \cap HerWords # {}
      his == words \cap HisWords # {}
  IN IF hers = his THEN "none" ELSE IF hers THEN "donna" ELSE "uomo"

--------------------------------------------------------------------------------
(* _family_for_query: an exact alias of any family before an alias within the query. *)
FamilyFor(query) ==
  LET exact == {i \in DOMAIN Registry : Key(query) \in Registry[i].aliases}
      within == {i \in DOMAIN Registry : \E a \in Registry[i].aliases : Phrase(a, Key(query))}
  IN IF Key(query) = <<>> THEN 0 ELSE IF exact # {} THEN Min(exact) ELSE IF within # {} THEN Min(within) ELSE 0

IsBroad(query, family) == Key(query) \in family.aliases

First(indices) == IF indices = {} THEN 0 ELSE Min(indices)
Named(family, eligible, text) == {i \in eligible : text \in {Identity(a) : a \in Texts(family.variants[i])}}

(* _requested_variant: none for a broad query. *)
Requested(query, family) ==
  IF IsBroad(query, family) THEN 0
  ELSE First(Named(family, DOMAIN family.variants, Identity(Without(Key(query), {family.brand}))))

(* The name of an offer without the brand, also without one that is not the family's. *)
NameOf(offer, family) == Without(Key(offer.name), {offer.brand, family.brand} \ {"none"})

(* Not the variants of the other audience. *)
EligibleVariants(offer, family) ==
  LET audience == Audience(NameOf(offer, family))
  IN {i \in DOMAIN family.variants : audience = "none" \/ AudienceOf(family.variants[i]) \in {"none", audience}}

UrlKey(part, family) == Without(Identity(part), {family.brand})

(* A URL of another variant: it has an alias of two words or more that is no part of the *)
(* variant's own name.                                                                    *)
UrlConflicts(offer, family, eligible, i) ==
  \E p \in ToSet(offer.url), j \in eligible : \E a \in Texts(family.variants[j]) :
    /\ family.variants[j].name # family.variants[i].name
    /\ Len(Identity(a)) >= 2 /\ Phrase(Identity(a), UrlKey(p, family))
    /\ \A t \in Texts(family.variants[i]) : ~ToSet(Identity(a)) \subseteq ToSet(Identity(t))

(* The ways to read a name that is no registered one, in their order: without editorial *)
(* words, without the labels of the audience, an alias within the name, the only alias   *)
(* that has all the words of the name.                                                    *)
ByPhrase(family, eligible, text) ==
  {i \in eligible : \E a \in Texts(family.variants[i]) : Key(a) # <<>> /\ Phrase(Key(a), text)}
ByWords(family, eligible, text) ==
  LET words == ToSet(text) \ (AllWords(family.aliases) \cup HerWords \cup HisWords \cup Editorial)
      all == {i \in eligible : \E a \in Texts(family.variants[i]) : words \subseteq ToSet(Key(a))}
  IN IF words # {} /\ Cardinality(all) = 1 THEN all ELSE {}
ReadName(family, eligible, text) ==
  LET bare == Without(text, Editorial)
      unlabelled == Without(bare, {"her", "him"})
      readings == << IF bare # text THEN Named(family, eligible, bare) ELSE {},
                     IF unlabelled # text THEN Named(family, eligible, unlabelled) ELSE {},
                     ByPhrase(family, eligible, text), ByWords(family, eligible, text) >>
      good == {k \in 1 .. 4 : readings[k] # {}}
  IN IF good = {} THEN 0 ELSE Min(readings[Min(good)])

--------------------------------------------------------------------------------
(* What a part of the URL says for a variant. *)
UrlScore(part, family, i) ==
  LET key == UrlKey(part, family)
      raw == ToSet(key)
      clean == IF raw \subseteq UrlNoise THEN raw ELSE raw \ UrlNoise
      phrase == \E a \in Texts(family.variants[i]) : Len(Identity(a)) >= 2 /\ Phrase(Identity(a), key)
  IN IF phrase THEN 1000
     ELSE Highest({F1(ToSet(Specificity(a, family.brand)), words) : a \in Texts(family.variants[i]), words \in {raw, clean}})
SpecificityOf(family, i) == Cardinality(ToSet(Specificity(family.variants[i].name, family.brand)))

(* The best variant over the parts of the URL in order: higher, or as high and more specific. *)
Better(best, score, specificity) ==
  /\ score >= 720
  /\ \/ score > best.score
     \/ best.score < score + 30 /\ specificity > best.specificity
UrlBest(offer, family, eligible) ==
  LET variants == Len(family.variants)
      step(best, part, i) ==
        LET score == UrlScore(part, family, i)
            specificity == SpecificityOf(family, i)
        IN IF i \in eligible /\ UrlKey(part, family) # <<>> /\ Better(best, score, specificity)
           THEN [variant |-> i, score |-> score, specificity |-> specificity] ELSE best
      best[k \in 0 .. Len(offer.url) * variants] ==
        IF k = 0 THEN [variant |-> 0, score |-> 0, specificity |-> 0]
        ELSE step(best[k - 1], offer.url[(k - 1) \div variants + 1], ((k - 1) % variants) + 1)
  IN best[Len(offer.url) * variants]

(* How well the URL bears out the variant read from the name. *)
NameUrlScore(offer, family, i) ==
  Highest({F1(ToSet(Identity(a)), words) : a \in Texts(family.variants[i]),
             words \in UNION {{ToSet(UrlKey(p, family)), ToSet(UrlKey(p, family)) \ {"copy"}} : p \in ToSet(offer.url)}})

(* The URL against the name: not if it cannot tell the two variants apart. *)
UrlDecides(offer, family, named, best) ==
  LET key(i) == Specificity(family.variants[i].name, family.brand)
  IN \/ named = 0
     \/ /\ ~(family.variants[named].name # family.variants[best.variant].name /\ key(named) # <<>>
             /\ key(named) = key(best.variant))
        /\ \/ best.score >= NameUrlScore(offer, family, named) + 200
           \/ best.score >= 900 /\ best.specificity >= SpecificityOf(family, named)
           \/ best.specificity > SpecificityOf(family, named)

(* _family_variant_for_offer: the variant its name is read as, unless the URL is of another. *)
Verdict(offer, family, eligible, exact, named, best) ==
  LET conflict == offer.brand # "none" /\ offer.brand # family.brand IN
  IF NameOf(offer, family) \in {<<>>} \cup family.excluded \/ eligible = {} THEN 0
  ELSE IF Cardinality(exact) = 1 /\ ~UrlConflicts(offer, family, eligible, named) THEN named
  ELSE IF conflict /\ exact = {} THEN 0
  ELSE IF best.variant # 0 /\ UrlDecides(offer, family, named, best) THEN best.variant ELSE named
VariantFor(offer, family) ==
  LET candidate == NameOf(offer, family)
      eligible == EligibleVariants(offer, family)
      exact == Named(family, eligible, candidate)
      named == IF exact # {} THEN Min(exact) ELSE ReadName(family, eligible, candidate)
  IN Verdict(offer, family, eligible, exact, named, UrlBest(offer, family, eligible))

(* _match_family: the variant must be the requested one; a query that names neither the *)
(* family nor a variant must only have words of the variant.                             *)
Fits(query, family, variant) ==
  LET requested == Requested(query, family)
      words == ToSet(Key(Identity(Without(Key(query), {family.brand})))) \ {family.brand}
  IN \/ IsBroad(query, family)
     \/ requested # 0 /\ family.variants[requested].name = family.variants[variant].name
     \/ /\ requested = 0 /\ words # {}
        /\ words \subseteq AllWords({Key(Identity(t)) : t \in Texts(family.variants[variant])})
Fitting(query, f, variant) ==
  IF variant # 0 /\ Fits(query, Registry[f], variant) THEN [family |-> f, variant |-> variant] ELSE Nothing
MatchFamily(offer, query, f) == Fitting(query, f, VariantFor(offer, Registry[f]))

--------------------------------------------------------------------------------
(* Families of the same brand with a longer alias around a broad query, which the offer *)
(* has in its name or URL.                                                               *)
Siblings(offer, query, f) ==
  LET longer(i) == {a \in Registry[i].aliases : Len(a) > Len(Key(query))}
  IN {i \in DOMAIN Registry \ {f} :
        /\ Registry[i].brand = Registry[f].brand
        /\ \E a \in longer(i) : Phrase(Key(query), a)
        /\ \E a \in longer(i), t \in {offer.name} \cup ToSet(offer.url) : Phrase(a, Key(t))}

(* match, the guards before any family: other sizes, no perfume, another concentration or *)
(* another line by title and URL, a sample.                                               *)
Hard(text) == ToSet(text) \cap Concentrations
Admissible(offer) ==
  /\ Cardinality(offer.sizes) <= 1
  /\ offer.kind = "perfume" /\ offer.sameLine
  /\ LET url == UNION {Hard(p) : p \in ToSet(offer.url)}
     IN Hard(offer.name) = {} \/ url = {} \/ Hard(offer.name) \cap url # {}

MatchAlone(offer, query, f) == MatchFamily(offer, query, f)

(* For a broad query the siblings are tried first, the one with the longest alias first. *)
MatchInFamily(offer, query, f) ==
  LET siblings == IF IsBroad(query, Registry[f]) THEN Siblings(offer, query, f) ELSE {}
      known == {i \in siblings : MatchFamily(offer, query, i) # Nothing}
      length(i) == Highest({Len(a) : a \in Registry[i].aliases})
      longest == {i \in known : \A j \in known : length(j) <= length(i)}
  IN MatchFamily(offer, query, IF known = {} THEN f ELSE Min(longest))
==============================================================================
