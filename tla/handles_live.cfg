SPECIFICATION LiveSpec
CONSTANTS
    NumHandles = 3
    Regions <- TwoRegions
    Limit4G = 9
    LockMod = 2
    Requests = {1, 3}
    MainOps <- MoveOps
    IsrOps <- LockOps
    Private = FALSE
INVARIANT DeliverInv
PROPERTIES CallsReturn InterruptsReturn
