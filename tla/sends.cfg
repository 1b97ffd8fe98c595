SPECIFICATION Spec
CONSTANTS
    N = 3
    ContinuationLimit = 1
    InvocationLimit = 2
    DepthLimit = 1
    PostLimit = 1
    Calls <- ThreeRoles
INVARIANTS TypeOK SendsHaveOneAnswerer QueueStatusExact CirclesStopForAReason
PROPERTIES SentBeforePosted
