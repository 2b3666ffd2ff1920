SPECIFICATION Spec
CONSTANTS
    Sandboxes = {s1}
    Sweepers = {w1, w2}
    Healers = {h1}
    Durations = {1, 3}
    StaleCutoff = 1
    Grace = 1
    BatchSize = 1
    AllowShorter = FALSE
    SlowAdds = FALSE
    MaxExec = 2
    MaxUpdates = 1
    ClientsUntil = 3
    MaxTime = 4
SYMMETRY SweeperSymmetry
INVARIANTS StoredIsIndexed ExpiredRunningIsDue FailedRemovalIsDue PromisedTimeKept
CHECK_DEADLOCK FALSE
