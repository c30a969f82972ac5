SPECIFICATION PartsSpec
CONSTANTS
  f1 = f1
  f2 = f2
  f3 = f3
  c1 = c1
  c2 = c2
  Failure = {f1, f2, f3}
  Chain = {c1, c2}
  ChainOf <- OnTwoChains
  Hour = 2
  Limits <- Limits12
  Settings <- SafetySettings
  Pool = {p1, p2}
  Timer = {t1, t2}
  Interval = 2
  MaxQueue = 2
  MaxToggles = 2
  MaxCrashes = 1
  Poll = {q1, q2}
  MaxBlock = 3
  BackStep = 1
  WorkerSettings <- SomeWorkerSettings
INVARIANTS HotIsRejected AutoKill StaleBriefly
PROPERTIES CounterDecays ActivationScans RowsStayFresh
CHECK_DEADLOCK FALSE
