\* Levels 0 (no bound) and 2: the one task that schedules another cannot fill
\* the channel; two calls of Shutdown.
CONSTANTS
    parent = parent
    child = child
    t1 = t1
    t2 = t2
    Outside = Outside
    Tasks = {parent, child, t1, t2}
    ParentOf <- Parents
    Levels = {0, 2}
    Stoppers = {s1, s2}
SPECIFICATION FairSpec
INVARIANTS TypeOK BoundedConcurrency
PROPERTIES WaitDrains ShutdownEnds NothingStuck ImplementsExecutor
