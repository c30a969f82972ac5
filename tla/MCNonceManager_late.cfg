CONSTANTS
  Caller = {p1, p2, p3}
  NoCaller = NoCaller
  NoNonce = NoNonce
  MaxStarts = 4
  Settings <- LateSettings
SPECIFICATION Spec
INVARIANT SequentialNonces
CHECK_DEADLOCK FALSE
