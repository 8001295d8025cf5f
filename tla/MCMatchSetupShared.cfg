SPECIFICATION FairSpec
CONSTANTS
    w1 = w1
    w2 = w2
    m1 = m1
    m2 = m2
    p1 = p1
    p2 = p2
    p3 = p3
    p4 = p4
    p5 = p5
    None = None
    Workers <- TwoWorkers
    Matches <- TwoMatches
    Drafted <- TwoMatches
    Participants <- FivePlayers
    Requests <- SharedRequests
    PlayersPerSide <- TwoASide
    FirstRows <- FirstFree
INVARIANTS
    TypeOK
PROPERTIES
    RosterIsFrozen
    EveryRequestEnds
