SPECIFICATION FairSpec
CONSTANTS
    Tasks = {1, 2}
    QueueMaxSize = 1
    Concurrency = 1
    MaxAttempts = 2
    RecoveryBatch = 2
    MaxItems = 3
    MaxFaults = 1
INVARIANTS
    TypeOK
    TrackedFailuresAreKept
    NothingIsLost
PROPERTIES
    DoneOnce
    EveryTaskSettles
CHECK_DEADLOCK FALSE
