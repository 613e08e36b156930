SPECIFICATION FairSpec
CONSTANTS
    Runners = {r1, r2}
    Approver = Approver
    Nobody = Nobody
    NoPipeline = NoPipeline
    Levels = {"full-auto", "approve-ship", "approve-impl", "manual"}
    MaxTotalPhases = 10
    MaxImplReviewLoops = 2
    MaxCancels = 1
    MaxCrashes = 1
INVARIANTS
    GatedUntilRestart
    ShipFollowsChecks
PROPERTIES
    PipelineSettles
CHECK_DEADLOCK FALSE
