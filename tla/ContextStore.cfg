SPECIFICATION Spec
CONSTANTS
    w1 = w1
    w2 = w2
    t1 = t1
    t2 = t2
    error = error
    toolCall = toolCall
    h1 = h1
    h2 = h2
    None = None
    NoThread = NoThread
    Workers = {w1, w2}
    Threads = {t1, t2}
    Keys = {error, toolCall}
    Priority <- MCPriority
    Handles = {h1, h2}
    MaxEvents = 2
    DedupWindow = 1
    MaxBatch = 2
    MaxCalls = 4
    MaxDeaths = 1
SYMMETRY MCSymmetry
INVARIANTS
    HandedIsStored
    IndexInSync
    OvershootIsBounded
    ClaimedOnce
CHECK_DEADLOCK FALSE
