CONSTANTS
    k1 = k1
    k2 = k2
    f1 = f1
    f2 = f2
    Keys = {k1, k2}
    Fps = {f1, f2}
    Requests <- MCRequests
    NoFp = NoFp
    NoKey = NoKey
    NoPending = NoPending
    MaxSeq = 2
    MaxTerms = 2
    MaxStarts = 1
    MaxRequeues = 1
    Sigterm = FALSE

SPECIFICATION Spec

INVARIANTS
    IndexExact
    NoRequestStranded
    NoLeakedMark

PROPERTIES
    RemovalAccounted

CHECK_DEADLOCK FALSE
