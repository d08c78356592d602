CONSTANTS
    QueueCapacity = 2
    AsrCapacity = 1
    MaxFrames = 3
SPECIFICATION FairSpec
INVARIANTS
    TypeOK
    StoryInOrder
    LossesShow
PROPERTY PageCatchesUp
CHECK_DEADLOCK FALSE
