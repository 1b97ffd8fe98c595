SPECIFICATION Spec
CONSTANTS
    MaxThread = 2
    ThreadLimit = 2
    MaxSuspend = 0
    Priorities = {0, 1}
    Callbacks = 1
    MaxLoads = 0
    Calls <- DetachCalls
PROPERTIES WaitingMeansNobodyCanRun
CHECK_DEADLOCK FALSE
