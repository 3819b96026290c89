SPECIFICATION Spec
CONSTANTS
    Requests = {r1, r2, r3}
    Lanes = {l1, l2}
    Workers = {w1, w2}
    MaxPending = 2
    Blocked = {l1}
    None = None
INVARIANTS
    LaneIsExclusive
    FifoPerLane
    StopLeavesNothingBehind
PROPERTIES
    BlockedLaneStarvesNoOther
    StopReturns
