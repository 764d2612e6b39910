SPECIFICATION Spec
CONSTANTS
    Topics = {t1, t2}
    Conns = {c1, c2}
    Predicates = {p1}
    Workers = {w1}
    TTL = 3
    PipelineBreaks = FALSE
    NoPredicate = NoPredicate
SYMMETRY Symmetry
INVARIANTS
    TypeOK
    IndexOutlivesInterests
    ConnOutlivesInterests
PROPERTIES
    HiddenOnlyByRacingPrune
    OrphanedOnlyByRacingDrop
CHECK_DEADLOCK FALSE
