SPECIFICATION FairTimerSpec
CONSTANTS
    c1 = c1
    c2 = c2
    NoHandle = NoHandle
    Coroutines <- MCCoroutines
    Durations <- MCDurations
    TimePoints <- MCTimePoints
    MaxRep = 31
    MaxTime = 3
INVARIANTS
    WaiterIsParked
PROPERTIES
    NeverEarly
    CancelledStaysCancelled
    FiresWhenDue
CHECK_DEADLOCK FALSE
