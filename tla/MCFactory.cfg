CONSTANTS
    MaxFailures = 2
    Scenes <- SCurated

SPECIFICATION FairSpec

INVARIANTS
    VerdictIsItsOwn
    LatestIsNewest

PROPERTIES
    EntryHoldsFixes
    FixGetsDecided
    HeldFixReachesEntry

CHECK_DEADLOCK FALSE
