SPECIFICATION FairSpec
CONSTANTS
    Requests = {r1}
    Evictor = Evictor
    AutoPause = TRUE
    SlowTransitions = FALSE
    Outages = TRUE
    MaxExec = 1
    MaxTrans = 3
    MaxFaults = 1
PROPERTIES StaleRecordRemoved
CHECK_DEADLOCK FALSE
