SPECIFICATION Spec
CONSTANTS
    Commands = {c1, c2}
    r1 = r1
    r2 = r2
    r3 = r3
    Requests <- MCRequests
    KeyOf <- MCKeyOf
    Authentic <- MCRequests
    Expiry <- MCExpiry
    Projectors = {p1, p2}
    Validity = 1
    None = None
    MaxClock = 1
    MaxAttested = 2
    MaxFaults = 1
SYMMETRY Symmetry
INVARIANTS
    TypeOK
    RepliesJournaled
    OneEventEach
    ExpiredIsFinal
    AvailableExtends
PROPERTY
    AnchorMonotone
CHECK_DEADLOCK FALSE
