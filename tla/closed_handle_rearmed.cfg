SPECIFICATION Spec
CONSTANTS
    Threads = {t1, t2}
    NoThread = NoThread
    MaxObjects = 2
    Calls <- ClosedHandleCalls
    HandleLimit = 2
    MaxHandle = 2
    MaxWaits = 2
    MaxWait = 2
    MaxDepth = 2
    MaxCount = 2
    MaxApcs = 2
    MaxInvocation = 2
    MaxNesting = 2
    MaxGeneration = 2
    Timeouts <- Infinite
    Delays <- Soon
    Horizon = 1
SYMMETRY ThreadSymmetry
CHECK_DEADLOCK FALSE
INVARIANTS UndecidedWaitsHoldHandles
