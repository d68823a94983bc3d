SPECIFICATION Spec
CONSTANTS
    f1 = f1
    f2 = f2
    a = a
    b = b
    c = c
    w1 = w1
    w2 = w2
    Files = {f1, f2}
    Shards = {a, b}
    Threads = {w1, w2}
    KeyOf <- MCKeyOf
    Setups <- EvictingSetups
    MaxSessions = 2
    None = None
INVARIANTS
    LedgerIsDurable
