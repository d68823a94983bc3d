SPECIFICATION FairSpec
CONSTANTS
    a = a
    b = b
    Files <- AB
    Orders = {1}
    OrderOf <- OneOrder
    Histories <- Resumptions
    Parallelism = 1
    MaxRetries = 0
    Interval = 2
    Transactional = TRUE
    SaveMayFail = FALSE
    Commands = {"Pause", "Cancel", "ForceQuit"}
    Targets = {2}
    MaxResizes = 1
    MaxWorkers = 2
PROPERTIES
    ImportReturns
