CONSTANTS
    n = n
    m = m
    Edits = {n, m}
    Scenes <- MCScenes

SPECIFICATION FairSpec

PROPERTY CondemnedLosesLabel

PROPERTY ProvenGetsLabel

PROPERTY EditsAreKept

CHECK_DEADLOCK FALSE
