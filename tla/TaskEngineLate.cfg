\* One call of Shutdown and calls of Schedule that overlap it.
CONSTANTS
    parent = parent
    child = child
    t1 = t1
    t2 = t2
    Outside = Outside
    Tasks = {t1, t2}
    ParentOf <- Parents
    Levels = {0, 1}
    Stoppers = {s1}
SPECIFICATION Spec
INVARIANTS StoppedMeansRefused
