SPECIFICATION FairSpec
CONSTANTS
    h1 = h1
    h2 = h2
    r1 = r1
    r2 = r2
    Conns <- TwoConns
    ReqIds <- TwoIds
    Quotas = {1}
    Overuses = {0}
    Bursts = {0}
    SchedulerEnds = FALSE
    MAX_AGE = 2
    NONE = NONE
PROPERTY LaunchAnswered
