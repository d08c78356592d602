CONSTANTS
    MaxSize = 7
    HeaderSize = 3
    Period = 3
    MaxFrames = 11
SPECIFICATION Spec
INVARIANTS
    TypeOK
    AcceptedIsWhole
    EndLeavesReadableFile
CHECK_DEADLOCK FALSE
