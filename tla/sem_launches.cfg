SPECIFICATION SemSpec
CONSTANTS
    p1 = p1
    p2 = p2
    p3 = p3
    c1 = c1
    c2 = c2
    c3 = c3
    Producers = {p1}
    Consumers = {c1}
    N = 2
    FileLines = 4
    Strlen <- MCStrlen
    L = 5
    s_mode = "="
    LockMax = 9
    MayStop = TRUE
    MaxLaunches = 2
INVARIANTS
    LossIsATail
    SemTypeOK
    ExitLeavesNoName
    StaleNameStopsTheRun
