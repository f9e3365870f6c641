SPECIFICATION Spec
CONSTANTS
    c1 = c1
    c2 = c2
    c3 = c3
    NONE = NONE
    Clients <- TwoClients
    Known <- TwoClients
    InitialConfig <- TwoLines
    ConfigLines = {}
    ReqIds = {1}
    MAX_IN_FLIGHT <- OneInFlight
    WINDOW_SIZE = 3
    FRAC_UNIT = 3
    QUOTA = 2
    MIN_QUOTA = 1
    Overuses = {0, 1}
    Bursts = {0}
    RequestTypes <- QuotaOnly
    Sockets = {1, 2}
    FirstSocket <- TwoSockets
    Mortal = {}
    MAX_ENDS = 0
    ClockTies = TRUE
    HORIZON = 4
INVARIANT
    ReturnEndsHold
