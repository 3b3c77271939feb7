\* Two timers, a ring of three buckets, walks that end before the next tick, and a
\* task engine that runs one task at a time.
CONSTANTS
    t1 = t1
    t2 = t2
    None = None
    Timers = {t1, t2}
    RingSize = 3
    QueueCap = 1
    MaxLag = 0
    MaxTick = 4
    Levels = {1}
    Delays <- Delays3
SPECIFICATION FairSpec
INVARIANTS TypeOK ExecutedOnce CancelHonest OnTime
PROPERTIES StopReturns
