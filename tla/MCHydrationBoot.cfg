CONSTANTS
  pg1 = pg1
  pg2 = pg2
  Pages = {pg1}
  Workers = {w1}
  Refreshers = {}
  PricedFresh = 1
  MissingFresh = 1
  Yields = {"priced"}
  NoPage = NoPage
  NoPrice = NoPrice
  NStores = 1
  StoreOf <- OneStore
  StoreCap = 1
  LeaseTime = 1
  Backoff <- OneBackoff
  NonProduct = {}
  Deloox = {}
  Navigation = {}
  NoToken = NoToken
SPECIFICATION FairSpec
PROPERTIES NeverStrandedAfterRestart
