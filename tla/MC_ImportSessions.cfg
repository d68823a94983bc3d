SPECIFICATION SessionsSpec
CONSTANTS
    a = a
    b = b
    c = c
    Files <- ABC
    Orders = {1, 2}
    OrderOf <- TwoOrders
    Histories <- Resumed
    Parallelism = 2
    MaxRetries = 0
    Interval = 2
    Transactional = FALSE
    SaveMayFail = FALSE
    Commands = {"Cancel"}
    Targets = {}
    MaxResizes = 0
    MaxWorkers = 2
    MaxSessions = 2
INVARIANTS
    ResultsAccounted
    RequeueNeverBlocks
PROPERTIES
    CheckpointsAreHonest
