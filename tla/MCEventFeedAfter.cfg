SPECIFICATION Spec
CONSTANTS
    r1 = r1
    w1 = w1
    w2 = w2
    None = None
    Readers <- OneReader
    Workers <- TwoWorkers
    Adapters <- OnlyLambda
    Commands <- FeedCommands
    MaxEvents = 2
INVARIANTS
    PageStartsAfterCursor
