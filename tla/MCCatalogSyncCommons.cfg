CONSTANTS
    a = a
    b = b
    Unparseable = Unparseable
    Unknown = Unknown
    Scenes <- MCBoth

SPECIFICATION FairSpec

PROPERTY CommonsCatchUp

CHECK_DEADLOCK FALSE
