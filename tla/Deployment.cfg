\* Two runs of kate new for one target, one of them for each choice of
\* components; the project with all of them or with none is installed. Two
\* processes of its service, two requests and two signals.
CONSTANTS
    k1 = k1
    Runs = {k1, k2}
    Selections <- MCSelections
    Installed <- MCInstalled
    Procs = {p1, p2}
    c1 = c1
    c2 = c2
    Calls = {c1, c2}
    To <- MCTo
    None = None
    MaxSignals = 2
SPECIFICATION FairSpec
INVARIANTS NeverHalf TargetKept NoStagingLeft TypeOK BackendsOpen StopsCutNothing UpgradeHandsOver PidFileHonest
PROPERTIES StopsEnd DirectoriesStay
CHECK_DEADLOCK FALSE
