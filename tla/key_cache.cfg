CONSTANTS
    t1 = t1
    t2 = t2
    old = old
    new = new
    Threads = {t1, t2}
    Kids = {old, new}
    First = {old}
    Cache = 1
    MaxLoad = 1
    MaxClock = 5
SPECIFICATION Spec
INVARIANTS
    TypeOK
    RefusedForCause
PROPERTIES
    WithdrawnKeyExpires
SYMMETRY Symmetry
CHECK_DEADLOCK FALSE
