SPECIFICATION FairSpec
CONSTANTS
    r1 = r1
    w1 = w1
    w2 = w2
    None = None
    Readers <- OneReader
    Workers <- TwoWorkers
    Adapters <- OnlyServer
    Commands <- FeedCommands
    MaxEvents = 2
INVARIANTS
    TypeOK
    CopyIsPrefix
    CursorNeverSkips
    AnswersAreFresh
    SnapshotAgreesWithFeed
PROPERTIES
    CatchesUp
