CONSTANTS
    Cases <- MCCases
    QueryOf <- MCQueryOf
    MetaOf <- MCMetaOf
    DataOf <- MCDataOf
    AllRows <- All
    Order <- MCOrder
    MinRowsForSkew = 2
    Statements <- MCStatements
    TimeColumn <- MCTimeColumn
    Content <- MCContent
    InstantsPerDay = 1
    FirstDay = 0
    LastDay = 9
    N = 4
    ReaderOf <- Readers
    Capacity = 1
    StreamCapacity = 1
    MaxBatches = 2
    Queries = {q1, q2}
    Permits = 1
    Conns = {c1}
    ChanSize = 2
    MaxResult = 3
    NoConn = noConn
    AdbcLoads = {a1}
    JdbcLoads = {j1}
    MaxConcurrency = 1
    BatchSize = 2
    MaxRows = 3
    x1 = x1
    x2 = x2
    x3 = x3
    Callers = {x1, x2, x3}
    TaskOf <- TwoTasks
    Peers = {w1, w2}
    MaxConnections = 1
    Threads = 2
    MaxCalls = 4
SPECIFICATION RowsSpec
CHECK_DEADLOCK FALSE
INVARIANTS
    AnswersAreExact
    ColocatedQueriesSucceed
    PlanIsWired
    PrunedAnswersAreExact
    BoundedQueriesAreAdmitted
    SuccessIsWhole
    CleanEndIsWhole
    LoadsAreWhole
    ConnectsOnce
PROPERTIES
    PipelineWindsDown
    QueriesReturnPermits
    SourcesWindDown
    CallsReturnOrCircle
