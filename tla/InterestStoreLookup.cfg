SPECIFICATION Spec
CONSTANTS
    Topics = {t1}
    Conns = {c1, c2}
    Predicates = {p1}
    Workers = {w1, w2}
    TTL = 2
    PipelineBreaks = FALSE
    NoPredicate = NoPredicate
SYMMETRY Symmetry
PROPERTIES
    LookupComplete
CHECK_DEADLOCK FALSE
