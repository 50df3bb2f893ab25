CONSTANTS
    w1 = w1
    w2 = w2
    w3 = w3
    k1 = k1
    good = good
    other = other
    bad = bad
    None = None
    Workers = {w1, w2}
    Keys = {k1}
    Bodies = {good, other, bad}
    Rulesets <- RollingRelease
    MaxCalls = 3
SPECIFICATION Spec
INVARIANTS
    ReplayIgnoresCurrentRules
CHECK_DEADLOCK FALSE
