SPECIFICATION FairSpec
CONSTANTS
    MaxRestarts = 2
    NoNode = NoNode
INVARIANTS
    TypeOK
    HumanSawTheDraft
PROPERTIES
    HumanReviewsBeforeCompletion
    NoRepeatedWork
    CancelStopsWork
    RejectionIsFinal
    DeliveredUntilRestart
    ImplementsLifecycle
    ExecutionEnds
CHECK_DEADLOCK FALSE
