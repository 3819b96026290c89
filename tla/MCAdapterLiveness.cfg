CONSTANTS
    c1 = c1
    Calls = {c1}
    SyncCalls = {c1}
    NoCall = NoCall
    MaxOutstanding = 1
    FailureThreshold = 1
    MaxGeneration = 1
    MaxSessions = 2
SPECIFICATION FairSpec
PROPERTIES
    PumpServesTheQueue
    RetirementEnds
CHECK_DEADLOCK FALSE
