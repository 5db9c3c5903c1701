SPECIFICATION Spec
CONSTANTS
    s1 = s1
    s2 = s2
    c1 = c1
    c2 = c2
    c3 = c3
    Servers = {s1, s2}
    Clients = {c1, c2}
    Programs <- MCCrashPrograms
    QueueMax = 2
    FilesMax = 1
    MaySignal = TRUE
SYMMETRY AllSymmetry
INVARIANTS
    TypeOK
    OwnAnswer
    OneMessageOnTheWay
    NothingEarlyIsLeft
CHECK_DEADLOCK FALSE
