CONSTANTS
    p1 = p1
    p2 = p2
    here = here
    away = away
    Wide = TRUE
    Products <- MCProducts
    Locations <- MCLocations
    Quantities = {1, 3}
    Confirms = {FALSE}
    MaxRows = 5
    MaxAdjustments = 2
SPECIFICATION MCSpec
INVARIANTS
    AdjustmentFollowsRecord
    EntriesKeepPoolExact
CHECK_DEADLOCK FALSE
