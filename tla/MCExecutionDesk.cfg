SPECIFICATION Spec
CONSTANTS
    Decisions = {d1}
    Sizes = {8}
    Estimates = {6}
    Prices = {"low", "high"}
    Advisor = "advisor"
    Watcher = "watcher"
    MaxQty = 8
    MaxIntents = 4
    AmountStep = 4
    Shaved <- MCShaved
    Triggers <- MCTriggers
    MaxPasses = 2
    MaxFaults = 1
    MaxCrashes = 1
    None = None
INVARIANTS
    TypeOK
    OneOrderPerDecision
    ClosedAcknowledged
    OneLateOrder
    HoldingsAccounted
CHECK_DEADLOCK FALSE
