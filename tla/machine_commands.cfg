CONSTANTS
    h1 = h1
    h2 = h2
    k1 = k1
    s1 = s1
    s2 = s2
    None = None
    Handlers = {h1, h2}
    Requests <- CommandAndRetry
    MaxVersion = 1
    MaxClock = 0
    Skew = 1
    Retention = 2
    Drift = 0
    Processing = 0
    Margin = 2
    Overlap = 1
    Keys = {k1}
    Bodies = {1}
    Snapshots = {s1, s2}
    MaxTx = 3
SPECIFICATION FairSpec
INVARIANTS
    OneCommandPerRequest
    RetriesAgree
PROPERTIES
    EveryRequestEnds
CHECK_DEADLOCK FALSE
