SPECIFICATION FairSpec
CONSTANTS
    w1 = w1
    w2 = w2
    None = None
    Workers <- TwoWorkers
    Requests <- LedgerRequests
    MaxScore = 1
INVARIANTS
    TypeOK
    LockedReadIsCurrent
    GaplessLedger
    ScoreIsDerived
    ReversalsAreSound
    ExactlyOnce
    AnswerCarriesItsSnapshot
    OutboxFollowsLedger
PROPERTIES
    LinearizableLedger
    InternalErrorsAreExplained
    OneEventAtATime
    EveryRequestEnds
