CONSTANTS
    AdbcLoads = {a1}
    JdbcLoads = {j1}
    MaxConcurrency = 1
    BatchSize = 2
    MaxRows = 3
SPECIFICATION SourceSpec
INVARIANT ErrorsReachTheLoad
CHECK_DEADLOCK FALSE
