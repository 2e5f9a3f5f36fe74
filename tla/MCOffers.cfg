CONSTANTS
  LaneOf <- MCLaneOf
  Permits <- MCPermits
  MaxRows = 1
  LiveStores = {"notino"}
  IndexPages = {"deloox", "parfumzentrum", "notino", "sabina", "easycosmetic", "other"}
  Kind <- MCKind
  Procs = {web, family}
  Web = web
  Impatient = {web, family}
  PzPages = {"p1", "p2"}
  PzText <- MCPzText
  PzSite <- MCPzSite
  DxPages = {"p1", "p2"}
  DxSurfaces = {"s1", "s2", "s3"}
  SurfaceRank <- MCSurfaceRank
  DxSearchPages = 3
  SbPages = {"p1", "p2"}
  SbStrong = {"p1"}
  SbProduct <- MCSbProduct
  SbEndpoints = 2
  SbMaps = {"m1", "m2"}
  EcPages = {"p1"}
  EcVariants <- MCEcVariants
  EcVariant <- MCEcVariant
  Shops = {"bplatz", "parfumcity", "orioudh", "perfumemarket"}
  ShPages = {"p1", "p2"}
  ShVariants = 2
  RawRows <- MCRows
  MaxOffers = 3
  Registry <- MCRegistry
  Catalog <- MCCatalog
  Offers <- MCMatched
  Queries <- MCQueries
  Selective = 2
SPECIFICATION OffersSpec
INVARIANTS LanesInv IndexInv RetailInv MergeInv MatcherInv
PROPERTY StoresKeepPromise
