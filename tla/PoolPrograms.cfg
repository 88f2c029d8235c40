SPECIFICATION Spec
CHECK_DEADLOCK FALSE
CONSTANTS
    CHUNK = 2
    BATCH = 5
    MaxRounds = 8
    Cores = {0, 1, 2, 3, 4}
    Lines = 3
    warn_threshhold = 1
    MaxReads = 2
    TinyReads = {t1, t2}
    FileLines = 5
    threshold = 3
    max_size = 4
    Getters = {g1}
    Writers = {w1, w2}
    Unlocked = free
    UINT = 4
    Lengths = {0, 2, 3, 6, 7, 8, 13}
    batch_size = 3
    thread_count = 2
    Mantissa = 16
INVARIANTS
    NothingVanishes
    NoSleepOnFullBatch
    ReadsAccountedFor
    LimitsAndOrder
    RangesTile
PROPERTIES
    EndReachesConsumer
    LinesReadSumEnds
