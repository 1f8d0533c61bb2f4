SPECIFICATION Spec
CONSTANTS
  Assets <- TwoAssets
  ChainsOf <- McChains
  Interval = 5
  Timeout = 1
  MaxGap = 9
  Modes = {"loop", "once", "task"}
  LastClock = 11
  MaxFaults = 1
INVARIANTS TableIsTrue CadenceIsKept
PROPERTY StopEnds
CHECK_DEADLOCK FALSE
