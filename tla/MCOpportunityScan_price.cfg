SPECIFICATION Spec
CONSTANTS
  p = p  q = q  t1 = t1  t2 = t2  v1 = v1  v2 = v2  s1 = s1  s2 = s2  r = r
  None = None
  Token = {t1, t2}
  Pool = {p, q}
  Caller = {s1, s2, r}
  Scan = {s1, s2}
  Reader = {r}
  Level = {0, 50, 200, 20000}
  Ttl = 1
  MaxRetries = 1
  MaxTime = 2
  Lists <- BothLists
  Venue = {v1, v2}
  VenueOf <- Venues
  V3 = {p, q}
  Estimate <- Estimates
  Price = {100, 105}
  Unit = 100
  Concurrency = 2
  Timeout = 1
  TradeSize = 3000
  GasUsd = 10
  FailureUsd = 2
  FeeBps = 30
  BufferBps = 10
  MaxMoves = 0
  Settings <- QuietSettings
INVARIANT BuysCheaper
CHECK_DEADLOCK FALSE
