CONSTANTS
    c1 = c1
    Calls = {c1}
    SyncCalls = {}
    NoCall = NoCall
    MaxOutstanding = 1
    FailureThreshold = 1
    MaxGeneration = 1
    MaxSessions = 2
SPECIFICATION Spec
INVARIANT ReplacementWaitsForTheOldLeaf
CHECK_DEADLOCK FALSE
