SPECIFICATION Spec
CONSTANTS
    Threads = {t1, t2}
    Units = {u1, u2}
    MaxToken = 4
    MaxDepth = 2
    MaxReplies = 3
    MaxGeneration = 2
    MaxParked = 1
    Host <- CallHost
SYMMETRY UnitSymmetry
CHECK_DEADLOCK FALSE
INVARIANTS TypeOK TokensAreUnique ProvidersKeepTheirCalls ResumedCallsAreAnswerable
PROPERTIES CallsAreAStack
