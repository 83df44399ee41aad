CONSTANTS
    x1 = x1
    x2 = x2
    x3 = x3
    Callers = {x1, x2, x3}
    TaskOf <- OneLevel
    Peers = {w1}
    MaxConnections = 1
    Threads = 4
    MaxCalls = 3
SPECIFICATION PoolSpec
CHECK_DEADLOCK FALSE
PROPERTY CallsReturn
