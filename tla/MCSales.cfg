CONSTANTS
    p1 = p1
    p2 = p2
    here = here
    TwoProducts = TRUE
    Products <- MCProducts
    Locations <- MCLocations
    SalesLocations <- MCLocations
    Quantities = {1, 2}
    Confirms = {FALSE}
    RepeatedLines = FALSE
    MaxPayload = 2
    MaxRows = 8
    MaxSales = 2
    MaxLines = 2
    Upfront = TRUE
    MaxDeliveries = 2
SPECIFICATION MCSpec
SYMMETRY MCSymmetry
INVARIANTS
    TypeOK
    SoldMatchesRecords
    SalesKeepPoolExact
CHECK_DEADLOCK FALSE
