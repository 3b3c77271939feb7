\* Two callers that share one Mutex object, as its nodeMutex invites them to.
CONSTANTS
    a = a
    b = b
    m = m
    Callers = {a, b}
    MutexOf <- SharedMutex
    Free = Free
    NumPools = 1
    Tries = 1
    Expiry = 3
    Drift = 2
    Slack = 1
    ClockErr = 1
    Delayable = {}
    MaxLate = 0
    MaxTime = 3
SPECIFICATION Spec
INVARIANTS MutualExclusion
