SPECIFICATION Spec
CONSTANTS
    a = a
    b = b
    Files <- AB
    Orders = {1}
    OrderOf <- OneOrder
    Histories <- FromScratch
    Parallelism = 2
    MaxRetries = 1
    Interval = 2
    Transactional = FALSE
    SaveMayFail = TRUE
    Commands = {"Pause", "Cancel", "ForceQuit"}
    Targets = {0, 3}
    MaxResizes = 1
    MaxWorkers = 3
SYMMETRY FilesAreSymmetric
INVARIANTS
    LastCheckpointIsQuiet
    QueueSizeIsExact
    ClosedIsProcessed
    OkMeansAllProcessed
