SPECIFICATION SpecSections
CONSTANTS
    Threads = {t1, t2, t3}
    NoThread = NoThread
    MaxObjects = 2
    Calls <- SectionCalls
    HandleLimit = 2
    MaxHandle = 2
    MaxWaits = 3
    MaxWait = 3
    MaxDepth = 2
    MaxCount = 0
    MaxApcs = 0
    MaxInvocation = 0
    MaxNesting = 0
    MaxGeneration = 0
    Timeouts <- Infinite
    Delays <- None
    Horizon = 0
    Addresses = {a1, a2}
    NoAddress = NoAddress
    MaxSections = 2
SYMMETRY Symmetry
CHECK_DEADLOCK FALSE
INVARIANTS NoLostWakeup MutexCoherent HandlesExact ExitsAreClean SectionsAreExact
PROPERTIES AbandonmentIsReported SectionsAreLocks
