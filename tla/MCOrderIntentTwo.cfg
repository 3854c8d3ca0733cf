SPECIFICATION FairSpec
CONSTANTS
  w1 = w1
  w2 = w2
  w3 = w3
  d1 = d1
  d2 = d2
  Nobody = Nobody
  Workers = {w1, w2, w3}
  Coordinators = {"c1", "c2", "c3"}
  CoordinatorOf <- TwoCoordinators
  ProcessOf <- OneProcess
  Certified = {"c1", "c2"}
  Digests = {d1, d2}
  ClientOrderId <- CollidingIds
  VerifyMatch = TRUE
  MaxCalls = 3
  MaxIOFaults = 1
  MaxShortWrites = 0
  MaxCrashes = 1
  MaxForeign = 0
INVARIANTS
  AtMostOnceSubmission
  DurableBeforeNetwork
  OneIntentPerClientOrderId
  JournalTruthful
PROPERTY
  CallsReturn
CHECK_DEADLOCK FALSE
