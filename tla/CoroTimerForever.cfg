SPECIFICATION TimerSpec
CONSTANTS
    c1 = c1
    c2 = c2
    NoHandle = NoHandle
    Coroutines <- MCCoroutines
    Durations <- MCForever
    TimePoints <- MCTimePoints
    MaxRep = 31
    MaxTime = 3
PROPERTIES
    NeverEarly
CHECK_DEADLOCK FALSE
