CONSTANTS
  Pages = {pg1}
  Workers = {}
  Refreshers = {r1, r2}
  Yields = {"priced", "soldout", "soldout_priced", "nameonly", "zero", "transient", "gone", "placeholder"}
  PricedFresh = 3
  MissingFresh = 1
  NoPage = NoPage
  NoPrice = NoPrice
SPECIFICATION SpecRefresh
SYMMETRY MCSymmetry
PROPERTIES ErrorNeverReplacesOffer
