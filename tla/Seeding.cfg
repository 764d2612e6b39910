SPECIFICATION SeedingSpec
CONSTANTS
    t1 = t1
    c1 = c1
    c2 = c2
    Topics = {t1}
    Conns = {c1, c2}
    Predicates = {demo, p1}
    Demo = demo
    Workers = {w1, w2, u}
    Seeders = {w1, w2}
    Seeds <- SeedsOfAll
    TTL = 2
    PipelineBreaks = FALSE
    NoPredicate = NoPredicate
SYMMETRY Symmetry
PROPERTIES
    OverwritesAreRaces
CHECK_DEADLOCK FALSE
