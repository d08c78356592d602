CONSTANTS
    QueueCapacity = 1
    MaxRecords = 3
    MaxRuns = 2
    MaxDays = 2
SPECIFICATION Spec
INVARIANTS
    TypeOK
    LinesNameTheirAudio
    RecordsAccounted
CHECK_DEADLOCK FALSE
