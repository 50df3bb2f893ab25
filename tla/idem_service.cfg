CONSTANTS
    w1 = w1
    w2 = w2
    w3 = w3
    k1 = k1
    k2 = k2
    b1 = b1
    b2 = b2
    s1 = s1
    s2 = s2
    None = None
    Workers = {w1, w2, w3}
    Keys = {k1}
    Bodies = {b1, b2}
    Snapshots = {s1, s2}
    Careless = {w1}
    MaxTx = 3
SPECIFICATION FairSpec
INVARIANTS
    TypeOK
    ReservationExclusive
    RaceLoserFindsWinner
    AnswersAgree
PROPERTIES
    CommittedIsFinal
    ImplementsOnce
    EveryCommandEnds
CHECK_DEADLOCK FALSE
