CONSTANTS
    c1 = c1
    c2 = c2
    Calls = {c1, c2}
    SyncCalls = {c2}
    NoCall = NoCall
    MaxOutstanding = 2
    FailureThreshold = 1
    MaxGeneration = 1
    MaxSessions = 2
SPECIFICATION Spec
INVARIANTS
    PumpOwnsAnOpenSession
    SentInAcceptanceOrder
    DestroyedLeafOwesNoResult
CHECK_DEADLOCK FALSE
