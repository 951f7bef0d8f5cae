CONSTANTS
    n = n
    m = m
    Edits = {n, m}
    Scenes <- MCAccepted

SPECIFICATION Spec

INVARIANT AcceptedIsRead

CHECK_DEADLOCK FALSE
