SPECIFICATION FairSpec
CONSTANTS
    Requests = {r1}
    Evictor = Evictor
    AutoPause = FALSE
    SlowTransitions = TRUE
    Outages = TRUE
    MaxExec = 1
    MaxTrans = 6
    MaxFaults = 2
PROPERTIES StaleRecordRemoved WaiterReturns OnlyAllowedTransitions
CHECK_DEADLOCK FALSE
