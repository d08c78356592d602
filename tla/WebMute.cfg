CONSTANTS
    Sockets = {1, 2}
    Contexts = {1}
SPECIFICATION FairWebSpec
INVARIANT MutedIsSilent
