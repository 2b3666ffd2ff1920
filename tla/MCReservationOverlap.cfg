SPECIFICATION Spec
CONSTANTS
    Sandboxes = {a, b}
    Requests = {r1, r2, r3}
    None = None
    Failed = Failed
    Limit = 1
    OverlappingResume = TRUE
    SlowStarts = FALSE
SYMMETRY RequestSymmetry
INVARIANTS ConcurrencyLimit
CHECK_DEADLOCK FALSE
