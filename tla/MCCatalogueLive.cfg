CONSTANTS
  Parts = {"lock", "frontier", "runs", "hydration"}
  home = home
  list = list
  c1 = c1
  c2 = c2
  c3 = c3
  web = web
  fam = fam
  scheduler = scheduler
  pg = pg
  Conns = {c1, c2}
  Processes = {web, fam}
  ProcessOf <- MCProcessOf
  Patience = 1
  NoConn = NoConn
  Nodes = {home}
  Seeds = {home}
  Links <- MCLinks
  Paging <- MCPaging
  NodeRank <- MCRank
  Runs = {r1}
  BatchSize = 1
  MaxDepth = 1
  Fanout = 1
  MaxTries = 2
  NodeLease = 1
  Revisit = 1
  NodeBackoff = 1
  NQueries = 2
  NoRun = NoRun
  Stores = {e}
  Callers = {scheduler, resync}
  Reporters = {scheduler}
  FeedStores = {}
  Urls = {u}
  Foreign = {}
  Filtered = {}
  Crawlers = {}
  Listings = {}
  Chunk = 1
  MinOld = 2
  Ratio = 1
  RunStale = 1
  NoCaller = NoCaller
  Clients = {c}
  Jobs = {i}
  Shops = {s}
  JobLimit = 1
  Pages = {pg}
  Workers = {w1}
  Refreshers = {}
  Yields = {"priced", "transient"}
  PricedFresh = 1
  MissingFresh = 1
  NoPage = NoPage
  NoPrice = NoPrice
  NStores = 1
  StoreOf <- MCStoreOf
  StoreCap = 1
  LeaseTime = 1
  Backoff <- MCBackoff
  NonProduct = {}
  Deloox = {pg}
  Navigation = {}
  NoToken = NoToken
SPECIFICATION CatalogueFairSpec
PROPERTIES NeverStranded WaitEnds FrontierRecovers QueriesAreRotated StatusSettles
