SPECIFICATION Spec
CONSTANTS
    Threads = {t1, t2, t3}
    NoThread = NoThread
    MaxObjects = 2
    Calls <- SignalCalls
    HandleLimit = 2
    MaxHandle = 2
    MaxWaits = 3
    MaxWait = 3
    MaxDepth = 2
    MaxCount = 2
    MaxApcs = 1
    MaxInvocation = 1
    MaxNesting = 2
    MaxGeneration = 1
    Timeouts <- Infinite
    Delays <- None
    Horizon = 0
SYMMETRY ThreadSymmetry
CHECK_DEADLOCK FALSE
INVARIANTS TypeOK NoLostWakeup UndecidedWaitsHoldHandles
PROPERTIES FirstComeFirstServed SignalsAreNotShared
