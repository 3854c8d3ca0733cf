SPECIFICATION Spec
CONSTANTS
  w1 = w1
  w2 = w2
  w3 = w3
  d1 = d1
  d2 = d2
  Nobody = Nobody
  Workers = {w1, w2}
  Coordinators = {"c1"}
  CoordinatorOf <- OneCoordinator
  ProcessOf <- OneProcess1
  Certified = {"c1"}
  Digests = {d1, d2}
  ClientOrderId <- DistinctIds
  VerifyMatch = TRUE
  MaxCalls = 2
  MaxIOFaults = 0
  MaxShortWrites = 1
  MaxCrashes = 0
  MaxForeign = 0
INVARIANT
  DurableBeforeNetwork
CHECK_DEADLOCK FALSE
