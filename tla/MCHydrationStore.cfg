CONSTANTS
  pg1 = pg1
  pg2 = pg2
  Pages = {pg1, pg2}
  Workers = {w1}
  Refreshers = {}
  PricedFresh = 1
  MissingFresh = 1
  Yields = {"priced"}
  NoPage = NoPage
  NoPrice = NoPrice
  NStores = 1
  StoreOf <- TwoPages
  StoreCap = 1
  LeaseTime = 1
  Backoff <- OneBackoff
  NonProduct = {pg2}
  Deloox = {pg2}
  Navigation = {pg2}
  NoToken = NoToken
SPECIFICATION Spec
INVARIANTS StoreCapInv

