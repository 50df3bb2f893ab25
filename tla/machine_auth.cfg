CONSTANTS
    h1 = h1
    h2 = h2
    Handlers = {h1, h2}
    Requests <- OneNonce
    MaxVersion = 2
    MaxClock = 4
    Skew = 1
    Retention = 2
    Drift = 1
    Processing = 1
    Margin = 3
    Overlap = 1
SPECIFICATION Spec
INVARIANTS
    TypeOK
    EndedSignerRefused
    RefusedForCause
PROPERTIES
    AcceptedOnce
SYMMETRY Symmetry
CHECK_DEADLOCK FALSE
