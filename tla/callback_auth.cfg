CONSTANTS
    c1 = c1
    c2 = c2
    workflow = workflow
    Callers = {c1, c2}
    Services = {workflow}
    Assigned = workflow
    MaxAttempts = 2
    MaxVersion = 2
    MaxClock = 1
    Window = 2
SPECIFICATION FairSpec
INVARIANTS
    TypeOK
    AuthorityHolds
    SettledOnce
    CurrentCallbackServed
PROPERTIES
    EveryCallbackEnds
CHECK_DEADLOCK FALSE
