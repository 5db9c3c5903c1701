SPECIFICATION Spec
CONSTANTS
    p1 = p1
    p2 = p2
    p3 = p3
    c1 = c1
    c2 = c2
    c3 = c3
    Producers = {p1, p2}
    Consumers = {c1, c2, c3}
    N = 2
    FileLines = 3
    Strlen <- MCStrlen
    L = 5
    s_mode = ">"
    LockMax = 1
    MayStop = TRUE
SYMMETRY Threads
CHECK_DEADLOCK FALSE
INVARIANTS
    TypeOK
    EachLineInOnePlace
    SlotExclusion
    PrintedOnce
    AtMostNConsumersReturn
PROPERTIES
    NothingStoredAfterEnd
    RelayRefinement
