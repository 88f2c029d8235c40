SPECIFICATION Spec
CHECK_DEADLOCK FALSE
CONSTANTS
    Workers = {w1, w2}
    Callers = {c1, c2}
    Tasks = {t1, t2, t3}
    Free = Free
INVARIANTS
    PendingAccountedFor
    NoLostWakeup
PROPERTIES
    FutureReady
