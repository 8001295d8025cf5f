SPECIFICATION FairSpec
CONSTANTS
    w1 = w1
    w2 = w2
    o1 = o1
    None = None
    Workers <- OneWorker
    Rebuilders <- NoRebuilder
    MaxEvents = 1
    MaxRepeats = 0
    MaxBatch = 1
    CreatedFirst = TRUE
PROPERTIES
    LiveMatchIsProjected
