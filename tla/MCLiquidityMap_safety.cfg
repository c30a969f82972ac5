SPECIFICATION Spec
CONSTANTS
  Position = {p1}
  MaxBlock = 5
  MaxLiquidity = 2
  MaxScans = 3
  QuickRange = 1
  FullRange = 2
  Settings <- SafetySettings
INVARIANTS MapExact WindowsJoin
CHECK_DEADLOCK FALSE
