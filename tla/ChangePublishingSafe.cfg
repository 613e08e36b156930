SPECIFICATION FairSpec
CONSTANTS
    Procs = {a, b}
    Ticks = {a1, b1}
    a = a
    b = b
    a1 = a1
    b1 = b1
    ProcOf <- MCProcOf
    Callers = {c1}
    Free = Free
    Orphan = Orphan
    BatchSize = 2
    MaxAttempts = 2
    MaxJobs = 1
    MaxDecisions = 2
    MaxFaults = 1
INVARIANTS
    OneWorkerPerJob
    QueuedRequestHasJob
    SingleLeader
PROPERTIES
    ApprovedIsPublished
    JobsEnd
