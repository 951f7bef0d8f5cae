CONSTANTS
    a = a
    b = b
    Unparseable = Unparseable
    Unknown = Unknown
    Scenes <- MCScenes

SPECIFICATION FairSpec

INVARIANT IndexIsOneRevision

PROPERTY CatchesUp

CHECK_DEADLOCK FALSE
