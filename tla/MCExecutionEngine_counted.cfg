CONSTANTS
  o1 = o1
  o2 = o2
  f1 = f1
  Opp = {o1}
  Worker = {w1, w2}
  NoWorker = NoWorker
  NoOpp = NoOpp
  Fingerprint = {f1}
  FpOf <- OneFingerprint
  MaxTries = 2
  MaxStalls = 1
  Settings <- CountedSettings
SPECIFICATION Spec
INVARIANT FailedTxCounted
CHECK_DEADLOCK FALSE
