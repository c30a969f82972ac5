SPECIFICATION PartsSpec
CONSTANTS
  NoData = NoData
  HourSignals <- SomeHours
  BtcAnswers <- SomeBtc
  WrpAnswers <- SomeWrp
  AvaxAnswers <- SomeAvax
  Inventories <- SomeInventories
  Cooldown = 1
  Ask = {q1, q2}
  Token = {avax, wrp}
  Listed = {avax}
  Null = null
  Race = 1
  Slow = 1
  Fresh = 2
  Stale = 3
  Batch = 0
  Doubtful = 1
  Feed = 1
  Minute = 2
  PriceSettings <- SomeAsks
  Desk = {"d1", "d2"}
  Key <- Keys
  Address <- Addresses
  Tiered = {"v3"}
  Pair <- Pairs
  Typed = {"z"}
  NoPool = nopool
  MaxFinds = 1
  DeskSettings <- SomeDesks
  User = {u1, u2}
  Admin = admin
  Hand = {"h1", "h2"}
  NoAccount = noaccount
  Amounts = {4}
  Shares = {3}
  Slip = 1
  Swaps = 1
  LiquiditySettings <- SomeHands
  Operator = {op1, op2}
  Param = {"maxFailedTxPerHour", "maxTradeSizeUsd"}
  Value = {1, 2}
  Fits <- Schema
  Default <- Defaults
  WalletKey = {k1}
  EnvKey = unset
  FileKey = k0
  Unset = unset
  MaxSaves = 2
  ConsoleSettings = {"GLOBAL", "CHAIN", "venue", "token", "flag", "params", "nothing"}
  Caller = {c1, c2}
  Login = {l1, l2, l3, l4, l5}
  LoginWindow = 3
  MaxAttempts = 2
INVARIANTS ApprovedOnEvidence PriorityRespected ExplanationAgrees
INVARIANTS PricesRecent PoolsAsFound RemovalPays SavedTakesEffect AttemptsLimited
PROPERTIES ReleasedOnPurpose
CHECK_DEADLOCK FALSE
