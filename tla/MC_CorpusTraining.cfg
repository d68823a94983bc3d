SPECIFICATION FairSpec
CONSTANTS
    VarintBase = 4
    MaxGroups = 3
    Setups <- MCSetups
CHECK_DEADLOCK FALSE
INVARIANTS
    CorpusInOrder
    ModelIsExact
PROPERTIES
    TrainingReturns
