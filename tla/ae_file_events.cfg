SPECIFICATION AeSpec
CONSTANTS
    NFile = 4
    MaxClients = 3
    c1 = c1
    c2 = c2
    Client <- MCClient
    NoClient = NoClient
SYMMETRY MCSymmetry
INVARIANTS
    AeTypeOK
    MaxfdIsHighest
    EpollMatchesTable
PROPERTIES
    ResizeKeepsRegistrations
