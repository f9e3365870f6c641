SPECIFICATION Spec
CONSTANTS
    p1 = p1
    p2 = p2
    a1 = a1
    Procs <- TwoProcs
    Ptrs <- OnePtr
    MaxFd = 4
    Sizes = {1, 2}
    Kinds = {}
    WORD = 8
    LIMIT = 2
    MAX_ATTEMPT = 1
    MAX_REPEATED = 1
    NONE = NONE
SYMMETRY Interchangeable
INVARIANT NeverOverAllocated
