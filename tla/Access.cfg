SPECIFICATION MCSpec
CONSTANTS
    boss = boss
    aide = aide
    s1 = s1
    s2 = s2
    s3 = s3
    c1 = c1
    l1 = l1
    p1 = p1
    p2 = p2
    Users <- MCUsers
    Owner = boss
    Sessions <- MCSessions
    Requests <- MCRequests
    NoSession = NoSession
    Customers <- MCCustomers
    Links <- MCLinks
    NoLink = NoLink
    MaxOpens = 2
INVARIANTS
    AccessTypeOK
    ExchangesOverlap
PROPERTIES
    OverForGood
    LockedOutForGood
    ClosedLinkWindsDown
SYMMETRY SomeRequests
CHECK_DEADLOCK FALSE
