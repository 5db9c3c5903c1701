SPECIFICATION FairSpec
CONSTANTS
    p1 = p1
    p2 = p2
    p3 = p3
    c1 = c1
    c2 = c2
    c3 = c3
    Producers = {p1, p2, p3}
    Consumers = {c1}
    N = 2
    FileLines = 4
    Strlen <- MCStrlen
    L = 5
    s_mode = "<"
    LockMax = 1
    MayStop = FALSE
CHECK_DEADLOCK FALSE
INVARIANT
    OverrunOnlyAfterEOF
PROPERTIES
    EveryLineReachesTheRing
    Termination
