SPECIFICATION TaskSpec
CONSTANTS
    f1 = f1
    f2 = f2
    f3 = f3
    t1 = t1
    t2 = t2
    p1 = p1
    p2 = p2
    r1 = r1
    r2 = r2
    NoHandle = NoHandle
    NoTask = NoTask
    Frames <- MCFrames
    Tasks <- MCTasks
    Primitives <- MCPrimitives
    Resources <- MCResources
    Default = r1
    Capacity = 2
SYMMETRY MCSymmetry
INVARIANTS
    UndefinedOnlyIfMisused
    MemoryAccounted
    PoolOnlyFills
    TaskInv
PROPERTIES
    LeaksOnlyByDroppingOrForgetting
CHECK_DEADLOCK FALSE
