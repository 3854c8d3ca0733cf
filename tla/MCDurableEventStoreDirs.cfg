SPECIFICATION Spec
CONSTANTS
  Writers = {"p1", "p2"}
  Events <- TwoEvents
  Depth = 2
  Nobody = "nobody"
  MaxCalls = 3
  MaxIOFaults = 1
  MaxShortWrites = 0
  MaxProcessCrashes = 1
  MaxPowerFailures = 1
INVARIANT
  AckedReachable
CHECK_DEADLOCK FALSE
