SPECIFICATION HistorySpec
CONSTANTS
    c1 = c1
    c2 = c2
    r1 = r1
    r2 = r2
    NONE = NONE
    Clients <- MCClients
    Known <- MCClients
    InitialConfig <- MCConfig
    ConfigLines = {}
    ReqIds <- MCIds
    MAX_IN_FLIGHT <- MCInFlight
    WINDOW_SIZE = 2
    FRAC_UNIT = 2
    QUOTA = 1
    MIN_QUOTA = 1
    Overuses = {1}
    Bursts = {0}
    RequestTypes <- MCQuotaOnly
    Sockets = {1, 2}
    FirstSocket <- MCSockets
    Mortal = {}
    MAX_ENDS = 0
    ClockTies = FALSE
    HORIZON = 3
SYMMETRY Interchangeable
INVARIANTS
    HistoryTypeOK
    TokenExclusive
    UsageIsEqualShare
    LimitOvershootBounded
PROPERTIES
    RequestsConserved
    RequirementsFirst
    HoldIsPatient
    ImplementsTokenServer
