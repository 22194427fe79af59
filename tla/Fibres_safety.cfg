SPECIFICATION Spec
CONSTANTS
    Main = main
    Fibres = {main, f1, f2, f3}
    Messages = {err, rterr}
    RuntimeError = rterr
    NullVal = nullval
    NoException = noexc
    NULL = null
SYMMETRY FibreSymmetry
INVARIANTS
    TypeOK
    RunsOnCurrentStack
    SuspendedIsResumable
    StackLifetime
    StateMatchesFrame
PROPERTIES
    TerminalIsForever
    WaitingWokenByChild
    ErrorReachesCaller
    ImplementsCoroutines
