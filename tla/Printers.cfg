SPECIFICATION Spec
CHECK_DEADLOCK FALSE
CONSTANTS
    MaxN = 16
    max_p = 3
    Limit = 7
    MAX = 40
    MaxAhead = 4
INVARIANTS
    PastTheLimit
    InStep
    MainHeldBack
PROPERTIES
    InOrder
    ReachesEnd
