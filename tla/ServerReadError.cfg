CONSTANTS
    Clients = {c1, c2}
    MaxClients = 1
    MaxOpens = 2
SPECIFICATION FairSpec
PROPERTY ReadErrorIsNoEnd
CHECK_DEADLOCK FALSE
