SPECIFICATION FairSpec
CONSTANTS
    h1 = h1
    h2 = h2
    k1 = k1
    k2 = k2
    u1 = u1
    o1 = o1
    m1 = m1
    None = None
    Handlers <- TwoHandlers
    Keys <- TwoKeys
    FirstKeys <- OldKey
    Users <- OneUser
    Organizations <- OneOrganization
    Matches <- OneMatch
    Organizer <- OrganizerOfMatch
    Operations <- RoutedOperations
    Permits <- RoutedPermits
    Changes <- ScorerChanges
    Requests <- AccessRequests
    TTL = 1
    Timeout = 1
INVARIANTS
    TypeOK
    AnswersFollowMemberships
PROPERTIES
    WithdrawnKeysFade
    PublishedKeysCount
    EveryRequestEnds
