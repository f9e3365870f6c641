SPECIFICATION FairSpec
CONSTANTS
    t1 = t1
    t2 = t2
    Threads <- TwoThreads
    Launchers <- TwoThreads
    Allocators = {t2}
    MaxFd = 3
    MAX_ATTEMPT = 2
    QUOTA = 1
    Forecasts = {0}
    MAX_ELAPSED = 1
    NONE = NONE
INVARIANT
    TypeOK
PROPERTIES
    ReplyIsMine
    LaunchReturns
\* The process may end, and may hang for good.
CHECK_DEADLOCK FALSE
