SPECIFICATION FairSpec
CONSTANTS
    Threads = {t1, t2}
    NoThread = NoThread
    MaxObjects = 1
    Calls <- TimeoutCalls
    HandleLimit = 1
    MaxHandle = 1
    MaxWaits = 2
    MaxWait = 2
    MaxDepth = 2
    MaxCount = 2
    MaxApcs = 1
    MaxInvocation = 1
    MaxNesting = 3
    MaxGeneration = 1
    Timeouts <- Timed
    Delays <- Soon
    Horizon = 1
CHECK_DEADLOCK FALSE
INVARIANTS AlertableCallsEndTruthfully
PROPERTIES TimedWaitsReturn
