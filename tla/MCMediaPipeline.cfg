SPECIFICATION Spec
CONSTANTS
    MaxFrames = 1
    MaxOpens = 3
    MaxDisturbances = 3
    MaxRequests = 2
    HostCost = 2
INVARIANTS
    FrameStaysInItsLease
    FrameFollowsItsOpened
    EventsLeadToTheOpenStream
    EndedSourceHasNoStream
    NoKindIsForgotten
    ReportMatchesTheOperation
    ReplacementFollowsTheClose
    ReportedRateIsStreamed
