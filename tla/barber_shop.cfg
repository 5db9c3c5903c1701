SPECIFICATION FairSpec
CONSTANTS
    k1 = k1
    k2 = k2
    k3 = k3
    NoClient = NoClient
    Clients = {k1, k2, k3}
    Cuts = 2
    Chairs = 2
    FifoLen = 6
    Posix = FALSE
INVARIANTS
    TypeOK
    RoomIsConsistent
    PlacesAreBounded
PROPERTIES
    ShopRefinement
    EveryoneIsServed
