CONSTANTS
    Threads = {capture, main}
    Capacity = 2
    MaxPushes = 5
SPECIFICATION FairSpec
INVARIANTS
    TypeOK
    InOrder
    Accounting
    NoLostWakeup
    DrainedWhenSeenClosed
PROPERTIES
    CloseStopsWorker
    FifoSpec
