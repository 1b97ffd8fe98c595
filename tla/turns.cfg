SPECIFICATION FairSpec
CONSTANTS
    MaxThread = 3
    ThreadLimit = 3
    MaxSuspend = 1
    Priorities = {0, 1}
    Callbacks = 0
    MaxLoads = 1
    Calls <- TurnCalls
PROPERTIES EqualsTakeTurns
CHECK_DEADLOCK FALSE
