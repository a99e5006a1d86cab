CONSTANTS
    p1 = p1
    p2 = p2
    shop = shop
    NoOne = NoOne
    Products = {p1, p2}
    Locations = {shop}
    Shop = shop
    Requests = {r1, r2, r3}
    Orders <- MCOrders
    Opening <- MCOpening
    Confirms = {FALSE, TRUE}
    MaxRows = 8
    j1 = j1
    j2 = j2
    w1 = w1
    w2 = w2
    NoFile = NoFile
    Jobs <- MCJobs
    Workers <- MCWorkers
    MaxFaults = 2
SPECIFICATION MCSpec
INVARIANTS
    LockProtects
    FilesMatchJobs
PROPERTIES
    ActsSerially
    EveryRequestEnds
    EndedStays
    AcceptedEnds
CHECK_DEADLOCK FALSE
