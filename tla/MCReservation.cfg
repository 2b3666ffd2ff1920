SPECIFICATION OrderedSpec
CONSTANTS
    Sandboxes = {a, b}
    Requests = {1, 2, 3}
    None = None
    Failed = Failed
    Limit = 1
    OverlappingResume = FALSE
    SlowStarts = FALSE
INVARIANTS ConcurrencyLimit SingleStarter NoStaleResult
PROPERTIES JoinedExecutionWasStored ImplementsLimiter JoinerReturns
CHECK_DEADLOCK FALSE
