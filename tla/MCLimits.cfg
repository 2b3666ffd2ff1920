SPECIFICATION LimitsSpec
CONSTANTS
    Callers = {1, 2, 3}
    Limits = {1, 2}
    Sandboxes = {s1, s2}
    Conns = {1, 2, 3}
    MaxLimits <- MCMaxLimits
INVARIANTS ParkedMeansFull OneEvictionPerSandbox CountIsExact
PROPERTIES StartsWithinLimit AdmittedWithinLimit RoomIsUsed EntryLeaves
CHECK_DEADLOCK FALSE
