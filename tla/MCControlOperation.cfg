SPECIFICATION Spec
CONSTANTS
    Threads = {t1, t2, t3}
    Handlers = {h1, h2}
    CancelHandlers = {c1, c2}
    None = None
PROPERTIES
    KeepsItsPromise
    WaitersReturn
CHECK_DEADLOCK FALSE
