CONSTANTS
    p1 = p1
    p2 = p2
    here = here
    away = away
    Products2 = FALSE
    Locations2 = FALSE
    Others = FALSE
    Products <- MCProducts
    Locations <- MCLocations
    Quantities = {1}
    Prices = {5, 17}
    Rates = {1}
    RateScale = 3
    GstRate = 10
    GstLocations = {}
    Confirms = {TRUE, FALSE}
    RepeatedLines = TRUE
    MaxPayload = 2
    MaxRows = 8
    MaxPurchases = 2
    MaxLines = 2
    MaxCollections = 2
    MaxRefunds = 1
SPECIFICATION MCSpec
INVARIANTS
    DeletedHoldsNothing
    
    HeldMatchesRecords
    EligibleCorrectionPosts
CHECK_DEADLOCK FALSE
