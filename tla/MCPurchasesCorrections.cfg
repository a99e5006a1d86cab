CONSTANTS
    p1 = p1
    p2 = p2
    here = here
    away = away
    Products2 = TRUE
    Locations2 = TRUE
    Others = TRUE
    Products <- MCProducts
    Locations <- MCLocations
    Quantities = {1}
    Prices = {5}
    Rates = {1}
    RateScale = 3
    GstRate = 10
    GstLocations = {}
    Confirms = {FALSE}
    RepeatedLines = FALSE
    MaxPayload = 1
    MaxRows = 13
    MaxPurchases = 1
    MaxLines = 1
    MaxCollections = 2
    MaxRefunds = 1
SPECIFICATION MCSpec
INVARIANTS
    UndoneContributesNothing
    NothingOnSupersededProduct
PROPERTIES
    EditKeepsReceivedStock
CHECK_DEADLOCK FALSE
