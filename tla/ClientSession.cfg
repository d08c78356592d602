CONSTANTS
    Broadcasters = {capture, asr}
    QueueCapacity = 2
    MaxMessages = 4
SPECIFICATION FairSpec
INVARIANTS
    TypeOK
    NoMissedMessage
PROPERTIES
    JoinEndsUnlessRaced
    GoneClientIsCleanedUp
    FifoSpec
CHECK_DEADLOCK FALSE
