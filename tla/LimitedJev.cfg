SPECIFICATION LimitedSpec
CONSTANTS
    Callers = {a1, a2}
    MaxSpend = 1
    MaxCalls = 1
    Window = 1
    Costs = {0, 1}
    MaxCost = 1
    MaxClock = 3
    MaxRetriesOption = 1
    RetryAfters = {0}
    NoHeader = NoHeader
SYMMETRY Symmetry
INVARIANTS
    TypeOK
    ExposureBounded
    RateBounded
    RefusesExactlyWhenFull
    RequestsAfterTrip
    RequestRateBounded
CHECK_DEADLOCK FALSE
