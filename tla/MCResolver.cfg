\* Two reads share a question and the last unit of a pool; two
\* submissions run beside them.
CONSTANTS
  p1 = p1
  p2 = p2
  b1 = b1
  b2 = b2
  Call = {p1, p2, b1, b2}
  Capability = {"place", "submit"}
  Catalogue <- Registry
  Pool = {"amap_lbs"}
  Limit <- MonthlyLimit
  Adapter = {"amap", "open_meteo", "osm", "browser"}
  Configured = {"amap", "osm", "browser"}
  Metered = {"amap"}
  Request <- Requested
  Params = {"same"}
  MaxAttempts = 2
  MonthLength = 2
  MaxNow = 2
  NoPool = NoPool
  NoContext = NoContext
SPECIFICATION FairSpec
CHECK_DEADLOCK FALSE
INVARIANTS
  QuotaWithinLimit
  BooksBalance
  SentOnceWithConsent
  LadderIsLast
PROPERTIES
  CacheHoldsAnswers
  EveryCallAnswered
  ServesCalls
