CONSTANTS
    Clients = {c1, c2}
    MaxClients = 1
    MaxOpens = 2
SPECIFICATION FairSpec
INVARIANT EndedSessionsReleased
CHECK_DEADLOCK FALSE
