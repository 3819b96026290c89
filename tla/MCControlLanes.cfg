SPECIFICATION Spec
CONSTANTS
    e1 = e1
    s1 = s1
    r1 = r1
    r2 = r2
    Keys <- MCKeys
    Endpoints = {e1}
    Serials = {s1}
    None = None
    Reports <- MCReports
    Requests = {r1, r2}
    Workers = {w1, w2}
    MaxPending = 2
    Blocked = {}
    Command <- MCCommand
INVARIANTS
    ResolvedAliasesShareTheLane
