SPECIFICATION FairSpec
CONSTANTS
  Trades = {"t1", "t2"}
  SymbolOf <- OneSymbol
  SideOf <- LongAndShort
  Capital = 10
  Principal = 4
  Required = 5
  EntryPrice = 2
  EntryFee = 1
  ExitFee = 1
  ExitPrices = {1, 7}
  None = "none"
  MaxIOFaults = 2
  MaxShortWrites = 1
  MaxCrashes = 2
INVARIANTS
  TypeOK
  EpochReplayable
  LedgerBalances
  OneOpenPerSymbol
  ReportedDurable
  MemoryFollowsLedger
  CompatibilityOnce
PROPERTY
  PositionsResolve
CHECK_DEADLOCK FALSE
