SPECIFICATION PartsSpec
CONSTANTS
  p = p  q = q  t1 = t1  t2 = t2  v1 = v1  v2 = v2  s1 = s1  s2 = s2  r = r
  None = None
  Token = {t1, t2}
  Pool = {p, q}
  Caller = {s1, s2, r}
  Scan = {s1, s2}
  Reader = {r}
  Level = {0, 50, 200, 20000}
  Ttl = 1
  MaxRetries = 1
  MaxTime = 2
  Lists <- BothLists
  Venue = {v1, v2}
  VenueOf <- Venues
  V3 = {q}
  Estimate <- Estimates
  Price = {100, 105}
  Unit = 100
  Concurrency = 2
  Timeout = 1
  TradeSize = 3000
  GasUsd = 10
  FailureUsd = 2
  FeeBps = 30
  BufferBps = 10
  MaxMoves = 1
  Settings <- SafetySettings
  Fingerprint = {f1}
  Slot = {s1, s2}
  NoSlot = NoSlot
  NoFp = NoFp
  MaxOpp = 2
  MaxStalls = 1
  PipelineSettings <- PipelineSafetySettings
INVARIANTS OneRequestPerToken ListedLiquidity CandidatesSound QueuedOnce KillBlocksApproval
PROPERTIES ScanEnds ExpiredStays RowsResolve
CHECK_DEADLOCK FALSE
