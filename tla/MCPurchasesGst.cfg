CONSTANTS
    p1 = p1
    p2 = p2
    here = here
    away = away
    Products2 = FALSE
    Locations2 = FALSE
    Others = FALSE
    Products <- MCProducts
    Locations <- MCLocations
    Quantities = {1, 2}
    Prices = {996}
    Rates = {1}
    RateScale = 1
    GstRate = 10
    GstLocations = {}
    Confirms = {FALSE}
    RepeatedLines = TRUE
    MaxPayload = 2
    MaxRows = 10
    MaxPurchases = 1
    MaxLines = 1
    MaxCollections = 1
    MaxRefunds = 1
SPECIFICATION MCSpec
INVARIANTS
    GstNeverOverReversed
CHECK_DEADLOCK FALSE
