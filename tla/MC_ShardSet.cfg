SPECIFICATION Spec
CONSTANTS
    f1 = f1
    f2 = f2
    a = a
    b = b
    c = c
    w1 = w1
    w2 = w2
    Files = {f1, f2}
    Shards = {a, b, c}
    Threads = {w1, w2}
    KeyOf <- MCKeyOf
    Setups <- MCSetups
    MaxSessions = 2
    None = None
SYMMETRY WorkersAlike
CONSTRAINT
    CreatesInTurn
ACTION_CONSTRAINT
    PopsInTurn
INVARIANTS
    OneHandlePerFile
    EvictionKeepsUp
    CompletedPrefixIsWhole
    LedgerIsDurable
PROPERTIES
    ReconcileKeepsWork
