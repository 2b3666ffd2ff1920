SPECIFICATION FairSpec
CONSTANTS
    Nodes = {n1, n2}
    Executions = {e1, e2}
    AutoPause = {e1}
    SlowStarts = FALSE
    EarlyRemovals = FALSE
    MaxFaults = 1
INVARIANTS RouteKept
PROPERTIES ReconcileSparesListed ListedVMsStop
CHECK_DEADLOCK FALSE
