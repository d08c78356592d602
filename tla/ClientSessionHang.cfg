CONSTANTS
    Broadcasters = {capture}
    QueueCapacity = 2
    MaxMessages = 1
SPECIFICATION FairSpec
PROPERTY JoinEnds
CHECK_DEADLOCK FALSE
