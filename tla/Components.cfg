SPECIFICATION Spec
CONSTANTS
    NotInteger = NotInteger
    Text <- StringText
    ValueTypes <- KeyTypes
    Keys <- MapKeys
    Items <- ListItems
    CodePoints <- EdgeCodePoints
    StrayBytes <- Stray
    MaxLength = 3
    MaxMutations = 2
    Bound = 3
    Modules = {1, 2}
    Programs <- CompiledFunctions
    Sizes <- AllSizes
    MaxRequests = 2
    ObjectClass = object
    Natives = {list}
    Manageds = {m1}
    Signatures = {s1, s2, s3, s4}
    Hashes <- CollidingHashes
    NumEntries = 3
    MaxAttempts = 1
    MaxMethods = 2
    NULL = null
    UserModules = {a, b, c}
    HostModules = {a}
    ImportFibres = {f}
    MaxInitCalls = 2
INVARIANTS
    CountedLoopExact
    MapLoopExact
    MapKeysDistinct
    StringLoopExact
    StringSliceWhole
    SliceAsInterpreter
    FrameSlotsExact
    CategorySuitable
    MethodResolution
    RegistryExact
    EarlyOnlyInCycle
CHECK_DEADLOCK FALSE
