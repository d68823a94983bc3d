SPECIFICATION Spec
CONSTANTS
    Workers = {w1, w2}
    Checkpointers = {c1, c2}
    Waiters = {v1}
    Counts = {n1}
    Docs = {d1}
    c1 = c1
    c2 = c2
    d1 = d1
    n1 = n1
    v1 = v1
    w1 = w1
    w2 = w2
SYMMETRY Symmetry
INVARIANT SyncingHasOneOwner
INVARIANT ParallelCheckpointDurable
INVARIANT CleanKeepsCommits
