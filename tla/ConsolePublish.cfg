SPECIFICATION ServerSpec
CONSTANTS
    Messages = {m1}
    Subscribers = {s1, s2, s3}
    TopScore = 2
    Threshold = 2
    Viewers = {v1}
INVARIANTS
    UndisturbedPublishesAreRecorded
    DoubleRecordsAreRaces
    NoDeliveryOnAGap
PROPERTIES
    ProcessEnds
CHECK_DEADLOCK FALSE
