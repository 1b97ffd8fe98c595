SPECIFICATION Spec
CONSTANTS
    Threads = {t1, t2}
    NoThread = NoThread
    MaxObjects = 1
    Calls <- TimerCalls
    HandleLimit = 1
    MaxHandle = 1
    MaxWaits = 2
    MaxWait = 2
    MaxDepth = 2
    MaxCount = 2
    MaxApcs = 2
    MaxInvocation = 3
    MaxNesting = 2
    MaxGeneration = 2
    Timeouts <- Timed
    Delays <- Soon
    Horizon = 2
SYMMETRY ThreadSymmetry
CHECK_DEADLOCK FALSE
INVARIANTS CallbacksAreExact
PROPERTIES DecidedWaitsKeepTheirResult
