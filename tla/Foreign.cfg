SPECIFICATION ForeignSpec
CONSTANTS
    Main = main
    Fibres = {main, f1, f2}
    Messages = {err, rterr}
    RuntimeError = rterr
    NullVal = nullval
    NoException = noexc
    NULL = null
    MaxNative = 3
    FailsInForeignCall = FALSE
    WithToString = {err}
INVARIANTS
    VMsExact
PROPERTIES
    HostCallsKept
    AbortLands
