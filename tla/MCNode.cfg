SPECIFICATION Spec
CONSTANTS
    Slots = {n1, n2}
    Lifecycles = {l1, l2}
    NewSize = 1
    ReusedSize = 1
    MaxFaults = 1
    Requests = {r1, r2}
    DuplicateStarts = TRUE
SYMMETRY NodeSymmetry
INVARIANTS SlotsExclusive ClosedPoolIsEmpty NetworkOwner RunningIsAddressable NothingLeaks NoStrandedSlot
PROPERTIES DrainWaitsForCheckpoint
CHECK_DEADLOCK FALSE
