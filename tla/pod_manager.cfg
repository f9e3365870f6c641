SPECIFICATION Spec
CONSTANTS
    h1 = h1
    h2 = h2
    r1 = r1
    r2 = r2
    Conns <- TwoConns
    ReqIds <- TwoIds
    Quotas = {2}
    Overuses = {1}
    Bursts = {0, 1}
    SchedulerEnds = TRUE
    MAX_AGE = 3
    NONE = NONE
SYMMETRY Interchangeable
INVARIANTS TypeOK RequestsConserved GateHasKeeper RequestCoversBurst
