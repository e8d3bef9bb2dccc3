SPECIFICATION FlagSpec
CONSTANTS
    f1 = f1
    f2 = f2
    c1 = c1
    c2 = c2
    c3 = c3
    NoHandle = NoHandle
    NoFlag = NoFlag
    Flags <- MCFlags
    Coroutines <- MCCoroutines
SYMMETRY MCSymmetry
INVARIANTS
    NoLostSignal
    AwaitReturnsTrue
    OnlySuspendedAreResumed
    FlagInv
PROPERTIES
    ImplementsEvent
CHECK_DEADLOCK FALSE
