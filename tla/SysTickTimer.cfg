SPECIFICATION TimerSpec
CONSTANTS
    r1 = r1
    r2 = r2
    Readers <- MCReaders
    Word = 2
    Start <- MCStart
    MaxTicks = 8
    Frequencies <- MCFrequencies
    TicksPerSecond = 2
    Unit = 12
    MaxDelay = 4
    MaxInits = 2
    MaxCycles = 5
SYMMETRY MCSymmetry
INVARIANTS
    ClockInv
    TimeKept
PROPERTIES
    ReadsAreAtomic
    NeverGoesBack
    LostOnlyAfterWholePeriod
