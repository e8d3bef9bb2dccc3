SPECIFICATION FairQueueSpec
CONSTANTS
    m1 = m1
    m2 = m2
    c1 = c1
    c2 = c2
    NoObject = NoObject
    NoHandle = NoHandle
    Messages <- MCMessages
    Fragile <- MCFragile
    Coroutines <- MCCoroutines
    Capacity = 2
    MaxSent = 5
INVARIANTS
    SlotDiscipline
    OccupancyExact
    DestroyedOnce
    StaleViewsAreSafe
    NeverResumedWithoutItem
    ParkedIsWaiter
    WaiterIsParked
    QueueInv
PROPERTIES
    ImplementsBoundedFifo
    NoLostWakeup
CHECK_DEADLOCK FALSE
