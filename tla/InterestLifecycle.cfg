SPECIFICATION FairLifecycleSpec
CONSTANTS
    Topics = {t1}
    Conns = {s1, k1}
    Sockets = {s1}
    Predicates = {p1}
    Workers = {r, w1}
    Refresher = r
    TTL = 7
    Second = 1
    Lag = 1
    MaxMisses = 1
    Drain = 1
    PipelineBreaks = TRUE
    NoPredicate = NoPredicate
INVARIANTS
    OpenSocketsKeepInterests
    GoneSocketsExpire
PROPERTIES
    ImplementsSubscriptions
    NoResurrection
    GoneSocketsLeaveNoTrace
CHECK_DEADLOCK FALSE
