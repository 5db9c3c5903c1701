SPECIFICATION PosixSpec
CONSTANTS
    k1 = k1
    k2 = k2
    k3 = k3
    NoClient = NoClient
    Clients = {k1, k2, k3}
    Cuts = 2
    Chairs = 2
    FifoLen = 2
    Posix = TRUE
    MaxKilled = 1
SYMMETRY ClientPerms
INVARIANTS
    EmptyInvitationMeansLoss
PROPERTIES
    NobodyLeavesHalfCut
    ShopUntilALoss
    EarlyClientsAreNotCut
