SPECIFICATION Spec
CONSTANTS
    VALID_TIME = 2
    MERGE_THRES = 1
    Bounds = {2}
    TP_MAX = TP_MAX
    TP_MIN = TP_MIN
    NO_BOUND = NO_BOUND
    MAX_BURSTS = 4
    HORIZON = 6
INVARIANTS
    TypeOK
    ForecastIsRecentMax
    MergedCoversUnmerged
    SentinelsUnused
    LongBurstIsChain
CHECK_DEADLOCK FALSE
