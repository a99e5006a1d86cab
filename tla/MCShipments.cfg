CONSTANTS
    p1 = p1
    p2 = p2
    here = here
    away = away
    TwoProducts = FALSE
    Products <- MCProducts
    Locations <- MCLocations
    Quantities = {1, 2}
    Confirms = {TRUE}
    RepeatedLines = FALSE
    MaxPayload = 2
    MaxRows = 11
    MaxShipments = 1
    MaxLines = 2
    MaxReceipts = 2
    MaxInFlight = 1
SPECIFICATION MCSpec
INVARIANTS
    TypeOK
    StatusTellsTransit
    ShipmentsKeepPoolValue
    DeletedShipmentHoldsNothing
    TransitValueCovered
    InTransitReportMatchesLedger
PROPERTIES
    StockFollowsFreshLoads
CHECK_DEADLOCK FALSE
