SPECIFICATION Spec
CONSTANTS
    Requests = {r1, r2}
    Evictor = Evictor
    AutoPause = FALSE
    SlowTransitions = FALSE
    Outages = TRUE
    MaxExec = 2
    MaxTrans = 4
    MaxFaults = 0
SYMMETRY RequestSymmetry
INVARIANTS KillAckedMeansStopped
CHECK_DEADLOCK FALSE
