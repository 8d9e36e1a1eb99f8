SPECIFICATION Spec
CONSTANTS
    NumHandles = 3
    Regions <- Touching
    Limit4G = 9
    LockMod = 2
    Requests = {1, 2}
    MainOps <- FixedOps
    IsrOps <- FixedOps
    Private = TRUE
INVARIANT PromiseInv
