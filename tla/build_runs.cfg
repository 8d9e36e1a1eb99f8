SPECIFICATION Spec
CONSTANTS
    MaxRuns = 4
CHECK_DEADLOCK FALSE
INVARIANTS TypeOK LastBuildKept NothingStale
