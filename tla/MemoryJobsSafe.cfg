SPECIFICATION FairSpec
CONSTANTS
    NumJobs = 1
    Workers = {w1, w2, w3}
    Concurrency = 2
    MaxRetries = 2
    MaxRecoveryAttempts = 1
    BatchSize = 1
    Recoverers = {"tick", "cron"}
    Faulty = {"select", "claim", "fail", "bury", "read", "requeue", "mark", "punish", "crash"}
    MaxFaults = 1
    MaxLetters = 2
INVARIANTS
    RunningIsWorkedOn
    FailedIsRecorded
    OneWorkerPerJob
PROPERTIES
    WorkersRespectCancel
    LettersAreDecided
