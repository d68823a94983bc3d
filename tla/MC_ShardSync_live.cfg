SPECIFICATION FairSpec
CONSTANTS
    Workers = {w1}
    Checkpointers = {c1}
    Waiters = {v1}
    Counts = {n1}
    Docs = {d1}
    c1 = c1
    d1 = d1
    n1 = n1
    v1 = v1
    w1 = w1
INVARIANT AsyncCheckpointDurable
PROPERTY SyncingEnds
PROPERTY CommitsGoThrough
