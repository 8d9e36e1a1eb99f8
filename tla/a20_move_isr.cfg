SPECIFICATION Spec
CONSTANTS
    MainOps <- AllOps
    IsrOps = {"local"}
    MaxChunks = 2
    MaxLocks = 2
PROPERTIES CopiedWithA20
