CONSTANTS
  pg1 = pg1
  pg2 = pg2
  Pages = {pg1}
  Workers = {w1, w2}
  Refreshers = {}
  PricedFresh = 1
  MissingFresh = 1
  Yields = {"priced", "nameonly", "transient", "gone"}
  NoPage = NoPage
  NoPrice = NoPrice
  NStores = 1
  StoreOf <- OneStore
  StoreCap = 1
  LeaseTime = 1
  Backoff <- ShortBackoff
  NonProduct = {}
  Deloox = {pg1}
  Navigation = {}
  NoToken = NoToken
SPECIFICATION Spec
SYMMETRY MCSymmetry
PROPERTIES LiveLeaseIsKept LateWorkerChangesNothing
