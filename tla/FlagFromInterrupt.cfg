SPECIFICATION Spec
CONSTANTS
    c1 = c1
    c2 = c2
    c3 = c3
    NoHandle = NoHandle
    Coroutines <- MCCoroutines
CHECK_DEADLOCK FALSE
INVARIANTS
    OnlySuspendedAreResumed
    NobodyForgotten
    SleepsUpOnlyIfMissed
    InterruptInv
