SPECIFICATION ConfSpec
CONSTANT MaxEdits = 2
INVARIANTS
    NeedsComeFirst
    EditDecides
    EnabledIsUsable
CHECK_DEADLOCK FALSE
