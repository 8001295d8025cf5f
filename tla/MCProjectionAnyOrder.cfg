SPECIFICATION FairSpec
CONSTANTS
    w1 = w1
    w2 = w2
    o1 = o1
    None = None
    Workers <- TwoWorkers
    Rebuilders <- OneRebuilder
    MaxEvents = 1
    MaxRepeats = 1
    MaxBatch = 2
    CreatedFirst = FALSE
INVARIANTS
    TypeOK
    RowIsAuthentic
    FailedMessagesAreKept
PROPERTIES
    EffectsAreClaimed
    RowFallsBackOnlyOnCreation
    CreationIsProjected
