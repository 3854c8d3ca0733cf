SPECIFICATION FairSpec
CONSTANTS
  Writers = {"p1", "p2"}
  Events <- FourEvents
  Depth = 2
  Nobody = "nobody"
  MaxCalls = 3
  MaxIOFaults = 1
  MaxShortWrites = 1
  MaxProcessCrashes = 1
  MaxPowerFailures = 1
INVARIANTS
  TypeOK
  ConfirmedDurable
  NeverInvalidRecords
  DirectoryFirst
PROPERTY
  CallsReturn
CHECK_DEADLOCK FALSE
