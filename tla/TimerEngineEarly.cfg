\* A delay of more than a turn of the ring.
CONSTANTS
    t1 = t1
    t2 = t2
    None = None
    Timers = {t1, t2}
    RingSize = 3
    QueueCap = 1
    MaxLag = 0
    MaxTick = 5
    Levels = {1}
    Delays <- LongDelays
SPECIFICATION Spec
INVARIANTS NeverEarly
