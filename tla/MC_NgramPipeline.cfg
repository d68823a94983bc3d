SPECIFICATION Spec
CONSTANTS
    VarintBase = 2
    MaxGroups = 3
    Words <- MCWords
    Letters <- MCLetters
    Hash <- MCHash
    PrefixHash <- MCPrefixHash
    Files = {"words", "pairs"}
    OrderOf <- MCOrderOf
    Tagged = {"tag_"}
    w1 = w1
    w2 = w2
    Workers = {w1, w2}
    Setups <- MCSetups
    MaxAttempts = 2
    MaxOrder = 2
    MaxSessions = 2
    None = None
SYMMETRY WorkersAlike
INVARIANTS
    TypeOK
    KeysAreReadable
    StoredIsSum
    LookupFindsStored
PROPERTIES
    StatsAreExact
    MergedIsWhole
