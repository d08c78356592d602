CONSTANTS
    Threads = {capture, main}
    Capacity = 2
    MaxPushes = 2
SPECIFICATION FairSpec
INVARIANT DrainedBeforeDone
