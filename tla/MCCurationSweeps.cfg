CONSTANTS
    d1 = d1
    d2 = d2
    f1 = f1
    f2 = f2
    r1 = r1
    NoFp = NoFp
    Drafters = {d1}
    Scenes <- MCScenes

SPECIFICATION FairSpec

INVARIANT OneGapPerResource

INVARIANT QueueBounded

PROPERTY AskedOnce

PROPERTY RefusalIsHeeded

PROPERTY WarrantedIsProposed

CHECK_DEADLOCK FALSE
