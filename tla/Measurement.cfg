SPECIFICATION Spec
CONSTANTS
    m1 = m1
    Messages <- OneMessage
    Interests = {i1, i2}
    SizeFlags <- Flags
    RepeatFlags = {0, 2}
    DefaultRepeats = 2
    BaseCost = 1
    QuestionCost = 1
    TopProb = 1
    Threshold = 1
    Interval = 2
    Slack = 1
    MaxSpend = 14
    MaxCalls = 2
    Window = 3
    Costs = {3, 5}
    MaxCost = 5
    MaxClock = 6
SYMMETRY Symmetry
INVARIANTS
    ReplayAgrees
    ChangesCrossTheThreshold
PROPERTIES
    PacedRunsAreNotRefused
    RunsWithinEstimateAreNotRefused
CHECK_DEADLOCK FALSE
