CONSTANTS
  Clients = {c}
  Jobs = {i}
  Shops = {s}
  JobLimit = 1
  Kinds = {k, l}
  MaxJobs = 2
  Tasks = {d, n, o}
  Preferred = {d}
  NoScraper = {n}
  Orphans = {o}
  BatchLimit = 2
  PoolSize = 1
  Wait = 1
  Others <- MCOthers
  NOthers = 3
  Deloox = "deloox"
  Notino = "notino"
  NFamilies = 2
  NAliases <- MCAliases
  PersistRetries = 2
  Baselines = {b}
  Smokes = {m}
  Legacy = {b}
  Exporters = {w}
  NStores = 1
  StaleAfter = 1
  NoExporter = NoExporter
  NoBaseline = NoBaseline
SPECIFICATION WebSpec
PROPERTY NoWriteStartsInSearch
