SPECIFICATION FairClientSpec
CONSTANTS
    Callers = {a1}
    MaxRetriesOption = 0
    RetryAfters = {0, 3, 100}
    NoHeader = NoHeader
    MaxClock = 8
INVARIANTS
    ClientTypeOK
    RetriesJustified
    WaitsHonoured
    OutcomeExplained
PROPERTIES
    CallEnds
CHECK_DEADLOCK FALSE
