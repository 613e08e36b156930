SPECIFICATION Spec
CONSTANTS
    Requests = {a, b, c}
    Changed = {c}
    c = c
    Nobody = Nobody
    MaxFaults = 2
INVARIANTS
    RunsOnce
    ReplayIsOwn
PROPERTIES
    BusyIsTrue
CHECK_DEADLOCK FALSE
