SPECIFICATION FairSpec
CONSTANTS
    s1 = s1
    s2 = s2
    c1 = c1
    c2 = c2
    c3 = c3
    Servers = {s1}
    Clients = {c1, c2, c3}
    Programs <- MCPrograms
    QueueMax = 2
    FilesMax = 3
    MaySignal = FALSE
PROPERTIES
    EarlyIsServed
    EndStopsTheServer
CHECK_DEADLOCK FALSE
