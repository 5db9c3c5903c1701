SPECIFICATION FairSpec
CONSTANTS
    k1 = k1
    k2 = k2
    Clients = {k1, k2}
    NoClient = NoClient
    Unset = Unset
    Names = {"ann", "bob"}
    Via <- MCVia
    MAX_CLIENTS = 2
    MaxOps = 2
    MaxGone = 1
    Period = 2
INVARIANTS
    RegistryIsSound
    AnswersAreRead
PROPERTIES
    DispatchEnds
CHECK_DEADLOCK FALSE
