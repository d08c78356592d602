CONSTANTS
    Sockets = {1, 2, 3}
    Contexts = {1}
SPECIFICATION FairWebSpec
PROPERTY NoEndlessReconnection
