SPECIFICATION ClosuresSpec
CONSTANTS
    Programs <- WhileBreak
    MaxIterations = 2
    MaxCalls = 1
    MaxClosures = 1
INVARIANTS
    StorageOutlivesUsers
CHECK_DEADLOCK FALSE
