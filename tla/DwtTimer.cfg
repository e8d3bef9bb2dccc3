SPECIFICATION Spec
CONSTANTS
    c1 = c1
    c2 = c2
    NoHandle = NoHandle
    Coroutines <- MCCoroutines
    Durations <- MCDurations
    CoreClocks <- MCClocks
    Word = 16
    Second = 10
    MaxRep = 127
    MaxPoll = 2
    MaxCycles = 30
INVARIANTS
    NowIsExact
    PunctualInALap
PROPERTIES
    NeverEarlyInTime
CHECK_DEADLOCK FALSE
