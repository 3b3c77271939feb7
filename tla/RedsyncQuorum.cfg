\* Two callers with Mutex objects of their own and three pools: the quorum.
CONSTANTS
    a = a
    b = b
    m = m
    Callers = {a, b}
    MutexOf <- OwnMutex
    Free = Free
    NumPools = 3
    Tries = 1
    Expiry = 3
    Drift = 2
    Slack = 1
    ClockErr = 1
    Delayable = {}
    MaxLate = 0
    MaxTime = 3
SPECIFICATION Spec
SYMMETRY Symmetry
INVARIANTS MutualExclusion QuorumBacksLease
PROPERTIES NoForeignDelete
