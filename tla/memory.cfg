SPECIFICATION Spec
CONSTANTS
    p1 = p1
    p2 = p2
    a1 = a1
    Procs <- TwoProcs
    Ptrs <- OnePtr
    MaxFd = 4
    Sizes = {2}
    Kinds = {"pitch", "unhooked"}
    WORD = 8
    LIMIT = 4
    MAX_ATTEMPT = 2
    MAX_REPEATED = 1
    NONE = NONE
SYMMETRY Interchangeable
INVARIANTS
    TypeOK
    TotalIsSumOfAccounts
    AccountPerConnection
    QuietBooksBalance
    ExitRecoversMemory
