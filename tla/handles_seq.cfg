SPECIFICATION Spec
CONSTANTS
    NumHandles = 3
    Regions <- Touching
    Limit4G = 2
    LockMod = 2
    Requests = {0, 1, 2}
    MainOps <- AllOps
    IsrOps <- NoOps
    Private = TRUE
INVARIANTS TypeOK Disjoint Covered PoolHoldsNothing
PROPERTIES FreedIsFree ReallocDelivers KeepsPromise
