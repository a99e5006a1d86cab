CONSTANTS
    p1 = p1
    p2 = p2
    here = here
    away = away
    Products2 = FALSE
    Locations2 = FALSE
    Others = FALSE
    Products <- MCProducts
    Locations <- MCLocations
    Quantities = {1, 3}
    Prices = {5}
    Rates = {1}
    RateScale = 3
    GstRate = 50
    GstLocations = {}
    Confirms = {FALSE}
    RepeatedLines = FALSE
    MaxPayload = 2
    MaxRows = 7
    MaxPurchases = 1
    MaxLines = 2
    MaxCollections = 2
    MaxRefunds = 1
SPECIFICATION MCSpec
INVARIANTS
    TypeOK
    PendingMatchesLedger
    ValueFollowsTotal
    NoPendingResidue
    PurchaseReportsAgree
CHECK_DEADLOCK FALSE
