CONSTANTS
    d1 = d1
    d2 = d2
    f1 = f1
    f2 = f2
    r1 = r1
    NoFp = NoFp
    Drafters = {d1, d2}
    Scenes <- MCObserved

SPECIFICATION Spec

INVARIANTS
    OnlyHumansRefuse
    OneIssuePerPattern
    ReviewQueueBounded
    DisjointInASweep

CHECK_DEADLOCK FALSE
