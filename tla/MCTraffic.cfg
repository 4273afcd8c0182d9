SPECIFICATION TrafficSpec
CONSTANTS
  k1 = k1 k2 = k2
  Nil = Nil
  Tenants = {north, south}
  Quota = 1
  MaxRequests = 2
  Keys = {k1, k2}
  Threads = {t1, t2}
  Limit <- OneEach
  Window = 2
  Capacity = 1
  NoKey = NoKey
  MaxTime = 4
  Fetchers = {t1, t2}
  Hosts = {h1, h2, h3}
  Public = {h1, h2}
  Restricted = {}
  MinInterval = 2
  MaxCrawlDelay = 1
  MAX_REDIRECTS = 1
  CrawlDelays = {0, 2}
  Unseen = Unseen
  MaxInstant = 3
  MaxRuns = 3
INVARIANTS TypesOK TenantIsolated Recorded OvershootBounded Polite
PROPERTY RefusalEarned
CHECK_DEADLOCK FALSE
