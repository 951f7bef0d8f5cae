SPECIFICATION Spec
CONSTANTS
    r1 = r1
    r2 = r2
    r3 = r3
    w1 = w1
    w2 = w2
    k1 = k1
    k2 = k2
    p1 = p1
    p2 = p2
    Processes = {p1, p2}
    Workers = {w1, w2}
    Roots = {r1, r2, r3}
    None = None
    Keys = {k1, k2}
    Fallbacks = {r2}
    TTL = 0
    MaxNotes = 2
    MaxWrites = 2
    MaxCalls = 3
    MaxTokens = 4
    Estimates = {1, 3}
    Scenes <- Usual
SYMMETRY Symmetric
CHECK_DEADLOCK FALSE
INVARIANTS
    CapsCountWrites
    OneWriterOnePR
    BudgetSettles
    RestartKeepsThreads
