SPECIFICATION LiveSpec
CONSTANTS
    Images <- BothImages
CHECK_DEADLOCK FALSE
INVARIANTS TypeOK SafeIsSafe DriversFirst
PROPERTIES EndsAsChosen
