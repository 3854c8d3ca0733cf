SPECIFICATION Spec
CONSTANTS
  w1 = w1
  w2 = w2
  w3 = w3
  d1 = d1
  d2 = d2
  Nobody = Nobody
  Workers = {w1, w2}
  Coordinators = {"c1"}
  CoordinatorOf <- OneCoordinator
  ProcessOf <- OneProcess1
  Certified = {"c1"}
  Digests = {d1, d2}
  ClientOrderId <- DistinctIds
  VerifyMatch = TRUE
  MaxCalls = 3
  MaxIOFaults = 1
  MaxShortWrites = 1
  MaxCrashes = 1
  MaxForeign = 1
INVARIANTS
  TypeOK
  AtMostOnceSubmission
  JournalTruthful
  ResultTruthful
PROPERTIES
  OnlyAllowedTransitions
  ImplementsSubmitOnce
SYMMETRY ThreadSymmetry
CHECK_DEADLOCK FALSE
