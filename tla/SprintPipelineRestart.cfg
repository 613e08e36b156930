SPECIFICATION Spec
CONSTANTS
    Runners = {r1, r2}
    Approver = Approver
    Nobody = Nobody
    NoPipeline = NoPipeline
    Levels = {"full-auto", "approve-ship", "approve-impl", "manual"}
    MaxTotalPhases = 10
    MaxImplReviewLoops = 3
    MaxCancels = 0
    MaxCrashes = 1
INVARIANTS
    GatedPhaseIsApproved
CHECK_DEADLOCK FALSE
