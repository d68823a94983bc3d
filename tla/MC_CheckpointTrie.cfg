SPECIFICATION Spec
CONSTANTS
    b = b
    c = c
    None = None
    Files <- BAndC
    Orders = {1, 2}
    OrderOf <- InOrder1
    Index <- IndexOf
    OldCheckpoints <- BDone
    PerChunk = 2
    NumChunks = 2
    Periodic = TRUE
    MaxSessions = 2
CHECK_DEADLOCK FALSE
INVARIANTS
    NothingInvented
    CrashKeepsProgress
PROPERTIES
    SavedIsLoaded
    ImporterNeverForgets
