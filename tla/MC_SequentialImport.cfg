SPECIFICATION Spec
CONSTANTS
    a = a
    b = b
    c = c
    Files = {a, b, c}
    FilesOf <- MCFilesOf
    Parallelism = 2
    MaxRetries = 2
    Interval = 2
    Setups <- MCSetups
    MaxSessions = 2
INVARIANTS
    SavedIsDurable
    OkMeansSettled
    LastSaveStands
PROPERTIES
    ImportEnds
