CONSTANTS
    NoThread = NoThread
    Threads = {t1, t2}
    Allowed = {"overlap", "leave"}
    Retries = 1
    Given = {"PORT"}
    MaxRead = 8
    Messages <- AllMessages
SPECIFICATION Spec
SYMMETRY Symmetry
INVARIANTS
    StatusTruth
    InitFirst
    ToldOnce
    PidHasWatcher
    NobodyForgotten
PROPERTIES
    PromiseKept
CHECK_DEADLOCK FALSE
