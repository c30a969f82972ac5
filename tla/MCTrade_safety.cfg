SPECIFICATION PartsSpec
CONSTANTS
  Caller = {p1, p2}
  NoCaller = NoCaller
  NoNonce = NoNonce
  MaxStarts = 4
  Settings <- SafetySettings
  K = 2
  Pips = 10
  BitRatio <- Bits
  MinTick <- Lowest
  Pools <- SomePools
  SellPools <- SomeSellPools
  Amounts = {1, 3, 8, 20, 50, 120, 300}
  Searches = {160}
  GasCost = 0
  MaxSteps = 8
  MaxIter = 10
  Opp = {o1, o2}
  Nobody = nobody
  Loan = 10
  Premium = 1
  Quotes <- SomeQuotes
  Moves <- Deviations
  Reserve = 20
  FlashSettings <- SomeSettings
  Reserves <- SomeReserves
  OtherRate = 50
  TradeSize = 100
  Drifts = {0, 4, 10}
  RouteSettings <- SomeRoutes
INVARIANTS MutualExclusion NonceFresh
INVARIANTS RoundTripLoses ProfileTrue SizeHonest LoansRepaid RowTellsChain TradeAsScored
PROPERTIES LockFreed FlashEnds
CHECK_DEADLOCK FALSE
