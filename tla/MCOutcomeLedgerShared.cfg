CONSTANTS
    p1 = p1
    p2 = p2
    f1 = f1
    g1 = g1
    t1 = t1
    e1 = e1
    e2 = e2
    u1 = u1
    u2 = u2
    r1 = r1
    Procs = {p1, p2}
    Fps = {f1, g1}
    AlertFps = {f1}
    Triggers = {t1}
    Entries = {e1, e2}
    Users = {u1}
    Rooms = {r1}
    NoFp = NoFp
    NoTrigger = NoTrigger
    NoEntry = NoEntry
    NoOpen = NoOpen
    NoVote = NoVote
    NoSilence = NoSilence
    NoVerify = NoVerify
    MaxEarly = 1
    Events <- MCResolves
    MaxWindow = 1
    MaxEvents = 1
    MaxLine = 99
    MaxLag = 0
    MaxCalls = 3
    MaxTime = 1
    Faults = {}

SPECIFICATION Spec

PROPERTY HistoryNeverShrinks

CHECK_DEADLOCK FALSE
