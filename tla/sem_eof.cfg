SPECIFICATION SemSpec
CONSTANTS
    p1 = p1
    p2 = p2
    p3 = p3
    c1 = c1
    c2 = c2
    c3 = c3
    Producers = {p1, p2, p3}
    Consumers = {c1}
    N = 2
    FileLines = 4
    Strlen <- MCStrlen
    L = 5
    s_mode = ">"
    LockMax = 9
    MayStop = FALSE
    MaxLaunches = 1
SYMMETRY Threads
CHECK_DEADLOCK FALSE
INVARIANTS
    PermitCount
    FaultOnlyAfterEOF
