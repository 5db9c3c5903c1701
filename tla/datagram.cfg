SPECIFICATION Spec
CONSTANTS
    k1 = k1
    k2 = k2
    k3 = k3
    Clients = {k1, k2, k3}
    NoClient = NoClient
    Unset = Unset
    Names = {"ann", "bob"}
    Via <- MCVia
    MAX_CLIENTS = 2
    MaxOps = 3
    MaxGone = 1
    MaxDropped = 1
SYMMETRY LocalClients
INVARIANTS
    OperationsInOnePlace
PROPERTIES
    SilentStaysSilent
CHECK_DEADLOCK FALSE
