SPECIFICATION FairSpec
CONSTANTS
    c1 = c1
    c2 = c2
    c3 = c3
    NONE = NONE
    Clients <- ThreeClients
    Known <- KnownAtStart
    InitialConfig <- LinesAtStart
    ConfigLines <- LaterLines
    ReqIds = {1}
    MAX_IN_FLIGHT <- ThirdSilent
    WINDOW_SIZE = 1
    FRAC_UNIT = 1
    QUOTA = 1
    MIN_QUOTA = 1
    Overuses = {0}
    Bursts = {0}
    RequestTypes <- SecondAsksAll
    Sockets = {1, 2, 3}
    FirstSocket <- ThreeSockets
    Mortal <- ComeAndGo
    MAX_ENDS = 1
    ClockTies = FALSE
    HORIZON = 2
INVARIANT
    CandidatesKnown
PROPERTIES
    RequestsConserved
    NoStarvation
