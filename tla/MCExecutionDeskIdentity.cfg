SPECIFICATION Spec
CONSTANTS
    Decisions = {d1}
    Sizes = {8}
    Estimates = {6}
    Prices = {"low", "high"}
    Advisor = "advisor"
    Watcher = "watcher"
    MaxQty = 8
    MaxIntents = 4
    AmountStep = 4
    Shaved <- MCShaved
    Triggers <- AnyPrice
    MaxPasses = 2
    MaxFaults = 0
    MaxCrashes = 0
    None = None
INVARIANT
    OneCloseIdentity
CHECK_DEADLOCK FALSE
