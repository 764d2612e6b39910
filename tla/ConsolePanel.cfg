SPECIFICATION PanelSpec
CONSTANTS
    Topics = {t1, t2}
    NoTopic = NoTopic
    Configured = {t1}
    Fallback = t1
    Ids = {1, 2}
    Slots = {q1, q2, q3}
SYMMETRY Symmetry
INVARIANTS
    PanelTypeOK
    PanelShowsTopic
PROPERTIES
    DefaultNamesAreFresh
CHECK_DEADLOCK FALSE
