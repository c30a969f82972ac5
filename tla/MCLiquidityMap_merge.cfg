SPECIFICATION Spec
CONSTANTS
  Position = {p1}
  MaxBlock = 4
  MaxLiquidity = 2
  MaxScans = 3
  QuickRange = 1
  FullRange = 2
  Settings <- QuietSettings
INVARIANT MergesOnce
CHECK_DEADLOCK FALSE
