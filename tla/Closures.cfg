SPECIFICATION ClosuresSpec
CONSTANTS
    Programs <- Sources
    MaxIterations = 2
    MaxCalls = 2
    MaxClosures = 3
INVARIANTS
    ResolvesLexically
    PointsIntoOwnEnvironment
    StorageOutlivesUsers
    StorageReleased
CHECK_DEADLOCK FALSE
