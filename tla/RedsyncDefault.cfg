\* One pool, as NewMutex of the package makes it: retries and late commands.
CONSTANTS
    a = a
    b = b
    m = m
    Callers = {a, b}
    MutexOf <- OwnMutex
    Free = Free
    NumPools = 1
    Tries = 2
    Expiry = 3
    Drift = 2
    Slack = 1
    ClockErr = 1
    Delayable = {"setnx", "touch"}
    MaxLate = 1
    MaxTime = 3
SPECIFICATION FairSpec
INVARIANTS TypeOK
PROPERTIES LockReturns ImplementsLeaseLock
