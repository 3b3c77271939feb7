\* One process, which may die and be started again.
CONSTANTS
    Writers = {w1}
    Lines = {a, b, c}
    None = None
    MaxRotateCount = 2
    ShortDays = {}
    MaxDay = 4
    MaxOpens = 2
SPECIFICATION FairSpec
INVARIANTS TypeOK
PROPERTIES WritesSucceed CloseReturns ImplementsLineLog
