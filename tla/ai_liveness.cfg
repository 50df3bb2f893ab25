CONSTANTS
    w1 = w1
    w2 = w2
    r1 = r1
    m1 = m1
    m2 = m2
    k1 = k1
    c1 = c1
    None = None
    Workers = {w1, w2}
    Requests = {r1}
    Machines = {m1, m2}
    RawKeys = {k1}
    Configs = {c1}
    Expected = {1, 2}
    MaxTx = 3
    MaxClock = 0
    Window = 1
    Others = {}
SPECIFICATION FairSpec
INVARIANTS
    StartedByAssignee
PROPERTIES
    EveryCommandEnds
CHECK_DEADLOCK FALSE
