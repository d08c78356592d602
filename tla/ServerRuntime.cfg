CONSTANTS
    Clients = {c1, c2}
    MaxClients = 1
    MaxOpens = 2
SPECIFICATION FairSpec
INVARIANTS
    TypeOK
    StopFindsTheHandle
    ShutdownInOrder
PROPERTY StopCompletes
CHECK_DEADLOCK FALSE
