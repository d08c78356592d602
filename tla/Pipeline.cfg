CONSTANTS
    ProcessingCapacity = 1
    MonitorCapacity = 1
    AsrCapacity = 1
    MaxFrames = 2
SPECIFICATION FairSpec
INVARIANTS
    TypeOK
    FramesAccounted
    ShutdownOrder
PROPERTY StopCompletes
CHECK_DEADLOCK FALSE
