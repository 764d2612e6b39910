SPECIFICATION ServerSpec
CONSTANTS
    Messages = {m1}
    Subscribers = {s1, s2}
    TopScore = 2
    Threshold = 2
    Viewers = {v1}
INVARIANTS
    FeedTellsNobodyFromNoMatch
CHECK_DEADLOCK FALSE
