SPECIFICATION Spec
CONSTANTS
    w1 = w1
    w2 = w2
    m1 = m1
    m2 = m2
    p1 = p1
    p2 = p2
    p3 = p3
    p4 = p4
    p5 = p5
    None = None
    Workers <- OneWorker
    Matches <- OneMatch
    Drafted <- OneMatch
    Participants <- FivePlayers
    Requests <- LineupRequests
    PlayersPerSide <- TwoASide
    FirstRows <- NoRows
INVARIANTS
    LineupsAreServed
