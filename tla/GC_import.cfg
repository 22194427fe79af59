SPECIFICATION GCSpec
CONSTANTS
    Main = main
    NULL = null
    Objects = {main, o1, o2}
    FibreObjs = {main}
    ImportsAfterGC = TRUE
    HoldsRunningFibre = TRUE
    MaxRefs = 2
    MaxCycles = 3
    MaxImports = 1
INVARIANTS
    InUseIsLive
