SPECIFICATION Spec
CONSTANTS
    MaxRestarts = 1
    NoNode = NoNode
INVARIANTS
    SomebodyCarriesIt
CHECK_DEADLOCK FALSE
