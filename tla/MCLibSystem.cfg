\* Three guest threads.  The threshold of 100 references is scaled down to 10,
\* which the threads cannot reach with two references each.
SPECIFICATION Spec
CONSTANTS
    Main = Main
    NoThread = NoThread
    MainStack = MainStack
    NoStack = NoStack
    Threads = {t1, t2, t3}
    Stacks = {1, 2}
    MaxDepth = 2
    Starts = {"static", "zero", "call"}
    SerialFirstUse = TRUE
    TryFirst = FALSE
    Immortal = 10
    MaxKept = 2
    MaxSem = 1
CHECK_DEADLOCK FALSE
INVARIANTS
    MutualExclusion
    NobodyForgotten
    OnceRunsOnce
    LivesWhileOwned
    StableStorage
    StartsOnItsOwn
PROPERTIES
    CallsReturn
