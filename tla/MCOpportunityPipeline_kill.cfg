SPECIFICATION PipelineSpec
CONSTANTS
  Fingerprint = {f1}
  Slot = {s1, s2}
  NoSlot = NoSlot
  NoFp = NoFp
  MaxOpp = 2
  MaxStalls = 1
  PipelineSettings <- OperatorSettings
PROPERTY KillHaltsExecution
