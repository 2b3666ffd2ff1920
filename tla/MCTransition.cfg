SPECIFICATION Spec
CONSTANTS
    Requests = {r1, r2}
    Evictor = Evictor
    AutoPause = TRUE
    SlowTransitions = FALSE
    Outages = FALSE
    MaxExec = 2
    MaxTrans = 4
    MaxFaults = 1
SYMMETRY RequestSymmetry
INVARIANTS SoleWorker PauseAckedMeansPaused
PROPERTIES RemovesOwnRecord JoinWaitsForCompletion
CHECK_DEADLOCK FALSE
