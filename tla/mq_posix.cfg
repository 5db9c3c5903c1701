SPECIFICATION Spec
CONSTANTS
    c1 = c1
    c2 = c2
    c3 = c3
    Clients = {c1, c2, c3}
    Nobody = Nobody
    Programs <- MCPrograms
    QueueMax = 2
    LastFd = 7
    MaySignal = TRUE
SYMMETRY AllSymmetry
INVARIANTS
    AnswersFindTheirClients
    OneByOneIsSafe
CHECK_DEADLOCK FALSE
