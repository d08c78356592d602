CONSTANTS
    Sockets = {1, 2, 3}
    Contexts = {1, 2, 3}
SPECIFICATION FairWebSpec
INVARIANTS
    WebTypeOK
    OneConnection
    ListeningWorks
PROPERTY SeeksConnection
