SPECIFICATION Spec
CONSTANTS
    Publishers = {p1}
    Viewers = {v1}
    Size = 2
    Buffer = 1
    MaxSeq = 2
INVARIANTS
    NoPublisherPanics
CHECK_DEADLOCK FALSE
