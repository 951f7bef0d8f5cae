CONSTANTS
    k1 = k1
    k2 = k2
    f1 = f1
    f2 = f2
    Keys = {k1, k2}
    Fps = {f1, f2}
    Requests <- MCRequests
    NoFp = NoFp
    NoKey = NoKey
    NoPending = NoPending
    MaxSeq = 3
    MaxTerms = 1
    MaxStarts = 1
    MaxRequeues = 1
    Sigterm = TRUE

SPECIFICATION Spec

PROPERTY DrainHandsOutNothing

CHECK_DEADLOCK FALSE
