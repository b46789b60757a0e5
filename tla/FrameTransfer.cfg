SPECIFICATION Spec
CONSTANTS
    Extent = 7
    Sizes = {0, 7, 8}
    MaxSessions = 3
    MaxFaults = 3
    Layouts <- Boundaries
INVARIANTS
    TypeOK
    ChunksReadBack
    ChunksAreOneRead
    RootIsTheTree
    CleanTransfer
PROPERTIES
    ImplementsDelivery
    SessionsEnd
