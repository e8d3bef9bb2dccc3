SPECIFICATION DwtSpec
CONSTANTS
    Word = 32
    Second = 10
    CoreClocks <- MCOneClock
    MaxCycles = 33
PROPERTIES
    NeverGoesBack
