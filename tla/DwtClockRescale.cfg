SPECIFICATION DwtSpec
CONSTANTS
    Word = 32
    Second = 10
    CoreClocks <- MCTwoClocks
    MaxCycles = 31
PROPERTIES
    NeverGoesBack
