SPECIFICATION Spec
CONSTANTS
    Callers = {c1, c2}
    Slots = {s1, s2}
    MaxStarts = 2
    MaxCalls = 2
    MaxQueued = 1
    None = None
CHECK_DEADLOCK FALSE
INVARIANTS
    ReleasedHandlerIsQuiet
    OperationsAreCanceled
    NothingSurvivesAStop
PROPERTIES
    CallsReturn
