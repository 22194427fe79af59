SPECIFICATION GCSpec
CONSTANTS
    Main = main
    NULL = null
    Objects = {main, f1, o1}
    FibreObjs = {main, f1}
    ImportsAfterGC = FALSE
    HoldsRunningFibre = TRUE
    MaxRefs = 2
    MaxCycles = 2
    MaxImports = 1
INVARIANTS
    InUseIsLive
    TriColour
PROPERTIES
    CollectionIsExact
    ScannedOnce
