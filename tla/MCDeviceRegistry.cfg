SPECIFICATION Spec
CONSTANTS
    e1 = e1
    e2 = e2
    s1 = s1
    s2 = s2
    Keys <- MCKeys
    Endpoints = {e1, e2}
    Serials = {s1, s2}
    None = None
    Reports <- MCReports
INVARIANTS
    EndpointOwnedByOneAdapter
    SoleClaimantOwnsEndpoint
PROPERTIES
    ErasedOnlyByItsSuccessor
