SPECIFICATION FairSpec
CONSTANTS
    Callers = {a, b, c}
    Absent = Absent
INVARIANTS
    OneHolder
PROPERTIES
    CallsEnd
CHECK_DEADLOCK FALSE
