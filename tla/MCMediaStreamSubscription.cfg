CONSTANTS
    p1 = p1
    p2 = p2
    c1 = c1
    c2 = c2
    Publishers = {p1, p2}
    Cancellers = {c1, c2}
    Subscriber = Subscriber
    Worker = Worker
    None = None
    MaxGeneration = 2
    MaxPublished = 3
    Sizes = {1, 3}
    MaxFrames = 1
    MaxBytes = 2
SPECIFICATION Spec
INVARIANTS
    QueueWithinLimits
    CallbacksAreSerialized
    ReturnedCancelFencesCallbacks
    DropsAreReported
PROPERTIES
    SinkSeesWellFormedStreams
    CallsReturn
CHECK_DEADLOCK FALSE
