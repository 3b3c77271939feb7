\* Two processes, as during an upgrade.
CONSTANTS
    Writers = {w1, w2}
    Lines = {a}
    None = None
    MaxRotateCount = 2
    ShortDays = {}
    MaxDay = 2
    MaxOpens = 1
SPECIFICATION Spec
INVARIANTS NeverExits
