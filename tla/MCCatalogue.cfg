CONSTANTS
  Parts = {"lock", "frontier", "runs", "search", "refresh"}
  home = home
  list = list
  c1 = c1
  c2 = c2
  c3 = c3
  web = web
  fam = fam
  scheduler = scheduler
  pg = pg
  Conns = {c1, c2, c3}
  Processes = {web, fam}
  ProcessOf <- MCProcessOf
  Patience = 1
  NoConn = NoConn
  Nodes = {home, list}
  Seeds = {home}
  Links <- MCLinks
  Paging <- MCPaging
  NodeRank <- MCRank
  Runs = {r1, r2}
  BatchSize = 1
  MaxDepth = 1
  Fanout = 1
  MaxTries = 2
  NodeLease = 1
  Revisit = 1
  NodeBackoff = 1
  NQueries = 1
  NoRun = NoRun
  Stores = {e}
  Callers = {scheduler, resync}
  Reporters = {scheduler}
  FeedStores = {e}
  Urls = {u, x}
  Foreign = {x}
  Filtered = {e}
  Crawlers = {e}
  Listings = {x}
  Chunk = 1
  MinOld = 2
  Ratio = 1
  RunStale = 1
  NoCaller = NoCaller
  Clients = {c}
  Jobs = {i, j}
  Shops = {s}
  JobLimit = 1
  Pages = {pg}
  Workers = {}
  Refreshers = {f1, f2}
  Yields = {"priced", "soldout", "soldout_priced", "nameonly", "zero", "transient", "gone", "placeholder"}
  PricedFresh = 3
  MissingFresh = 1
  NoPage = NoPage
  NoPrice = NoPrice
  NStores = 1
  StoreOf <- MCStoreOf
  StoreCap = 1
  LeaseTime = 1
  Backoff <- MCBackoff
  NonProduct = {}
  Deloox = {}
  Navigation = {}
  NoToken = NoToken
SPECIFICATION CatalogueSpec
INVARIANTS RefreshInv PriceIsAsOldAsItsRow LockInv FrontierInv RunsInv JobsInv
PROPERTIES PriceChangesByObservation LockIsATurn FrontierIsLeased ExpandedBeforeDone OmittedUrlsStay RecoveryKeepsResults CompletedStoresFrozen
SYMMETRY MCSymmetry
