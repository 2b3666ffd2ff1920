SPECIFICATION FairSpec
CONSTANTS
    Sandboxes = {s1, s2}
    Sweepers = {w1}
    Healers = {h1}
    Durations = {1, 2}
    StaleCutoff = 1
    Grace = 1
    BatchSize = 1
    AllowShorter = TRUE
    SlowAdds = TRUE
    MaxExec = 1
    MaxUpdates = 1
    ClientsUntil = 1
    MaxTime = 5
PROPERTIES ExpiredGoesAway
CHECK_DEADLOCK FALSE
