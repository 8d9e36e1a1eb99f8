SPECIFICATION Spec
CONSTANTS
    MainOps <- AllOps
    IsrOps <- KeepOps
    MaxChunks = 2
    MaxLocks = 2
INVARIANTS TypeOK HolderHasA20
PROPERTIES StateRestored CopiedWithA20 EnableIsTrue
