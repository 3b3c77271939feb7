\* Two callers with Mutex objects of their own: an Extend that takes too long.
CONSTANTS
    a = a
    b = b
    m = m
    Callers = {a, b}
    MutexOf <- OwnMutex
    Free = Free
    NumPools = 1
    Tries = 1
    Expiry = 3
    Drift = 2
    Slack = 1
    ClockErr = 1
    Delayable = {}
    MaxLate = 0
    MaxTime = 5
SPECIFICATION Spec
PROPERTIES ExtendTrueIsExclusive
