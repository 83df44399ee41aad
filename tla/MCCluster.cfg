CONSTANTS
    a = a
    b = b
    Plans <- MCPlans
    MaxRetries = 1
    Refreshes = {r1, r2}
    TimeRange <- MCTimeRange
    MaxTime = 4

SPECIFICATION Spec
INVARIANTS
    AnsweredFromThisRun
    OrphansAreCancelled
    StableEpochsAreFound
PROPERTIES
    ExecutionsEnd
CHECK_DEADLOCK FALSE
