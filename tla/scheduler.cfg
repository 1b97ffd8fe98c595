SPECIFICATION Spec
CONSTANTS
    MaxThread = 3
    ThreadLimit = 3
    MaxSuspend = 2
    Priorities = {0}
    Callbacks = 1
    MaxLoads = 1
    Calls <- AllCalls
INVARIANTS TypeOK SuspendCoherent ContextsExact GuestMayRun LoaderExact
PROPERTIES WaitingMeansNobodyCanRun ExitsReleaseTheLoader
CHECK_DEADLOCK FALSE
