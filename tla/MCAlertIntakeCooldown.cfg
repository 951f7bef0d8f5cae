CONSTANTS
    f1 = f1  f2 = f2
    k1 = k1  k2 = k2
    g1 = g1  x = x  z = z
    NoFp = NoFp  NoBatch = NoBatch  NoCooldown = NoCooldown
    Alerts <- MCAlerts
    Fps <- MCFps
    Groups <- MCGroups
    Titles <- MCTitles
    Keys <- MCKeys
    DedupWindow = 2
    HoldWindow = 1
    Debounce = 2
    MaxWait = 2
    MaxBatch = 3
    Cooldown = 3
    SweepEvery = 1
    MaxAlerts = 3
SPECIFICATION Spec
PROPERTY NewCriticalNotSuppressed
CHECK_DEADLOCK FALSE
