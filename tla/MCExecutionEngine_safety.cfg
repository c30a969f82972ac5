CONSTANTS
  o1 = o1
  o2 = o2
  f1 = f1
  Opp = {o1, o2}
  Worker = {w1, w2}
  NoWorker = NoWorker
  NoOpp = NoOpp
  Fingerprint = {f1}
  FpOf <- OneFingerprint
  MaxTries = 2
  MaxStalls = 1
  Settings <- AllSettings
SPECIFICATION FairSpec
INVARIANTS TradeInOrder CodeTellsTruth
PROPERTIES VerdictFinal ImplementsTrade ExecutionsSettle
CHECK_DEADLOCK FALSE
