CONSTANTS
    QueueCapacity = 1
    MaxRecords = 3
    MaxRuns = 2
    MaxDays = 2
SPECIFICATION Spec
INVARIANT EachLineKeepsItsAudio
CHECK_DEADLOCK FALSE
