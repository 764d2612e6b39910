SPECIFICATION FeedSpec
CONSTANTS
    Publishers = {p1, p2}
    Viewers = {v1, v2}
    Size = 2
    Buffer = 3
    MaxSeq = 4
    Cap = 2
    NoConn = NoConn
INVARIANTS
    FeedTypeOK
    RecentIsNewest
    FeedHasNoDuplicates
    FeedDisorderBounded
    FeedMissesOnlyGaps
PROPERTIES
    ImplementsLog
    AddFinishes
CHECK_DEADLOCK FALSE
