\* Two guest threads on one mutex and one condition variable.
SPECIFICATION PthreadSpec
CONSTANTS
    NoThread = NoThread
    Threads = {t1, t2}
    MaxDepth = 2
    Starts = {"static"}
    SerialFirstUse = FALSE
    TryFirst = FALSE
CHECK_DEADLOCK FALSE
INVARIANT ReinitBeforeUse
