CONSTANTS
  Caller = {p1, p2, p3}
  NoCaller = NoCaller
  NoNonce = NoNonce
  MaxStarts = 4
  Settings <- GapSettings
SPECIFICATION Spec
INVARIANT CounterFollowsSubmissions
CHECK_DEADLOCK FALSE
