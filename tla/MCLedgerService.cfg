CONSTANTS
    p1 = p1
    p2 = p2
    here = here
    there = there
    Products <- MCProducts
    Locations <- MCLocations
    Batches <- MCBatches
    CallerConfirms = {FALSE}
    MaxRows = 8
SPECIFICATION ServiceSpec
INVARIANTS
    LedgerTypeOK
    NoDrift
    PhysicalNeverNegative
    UndoLeavesNothing
    UndoHasNoTransientShortage
    ReportsAccountForStock
CHECK_DEADLOCK FALSE
