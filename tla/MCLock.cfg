SPECIFICATION FairSpec
CONSTANTS
    Clients = {c1, c2, c3}
    QueueDepth = 1
    Workers = 1
    MaxFaults = 1
    SlowHolders = FALSE
INVARIANTS NoMissedWakeup CloseDrainsQueue
PROPERTIES ImplementsLock WaiterGetsThrough CloseTerminates
CHECK_DEADLOCK FALSE
