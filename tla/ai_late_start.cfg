CONSTANTS
    w1 = w1
    w2 = w2
    r1 = r1
    m1 = m1
    m2 = m2
    k1 = k1
    k2 = k2
    c1 = c1
    c2 = c2
    None = None
    Workers = {w1, w2}
    Requests = {r1}
    Machines = {m1}
    RawKeys = {k1}
    Configs = {c1}
    Expected = {1, 2}
    MaxTx = 2
    MaxClock = 1
    Window = 1
    Others = {"ReadyForAction", "Succeeded", "TerminalFailure"}
SPECIFICATION Spec
PROPERTIES
    StartsBeforeDeadline
SYMMETRY Symmetry
CHECK_DEADLOCK FALSE
