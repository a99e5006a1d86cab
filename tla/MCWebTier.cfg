CONSTANTS
    r1 = r1
    r2 = r2
    r3 = r3
    NoToken = NoToken
    Tokens = {t1}
    Arrivals <- MCRequests
    Skews <- MCSkews
    MaxAge = 1
    MaxStall = 4
    MaxTime = 6
    k1 = k1
    k2 = k2
    name = name
    code = code
    None = None
    Requests <- MCRequests
    Ids <- MCIds
    Fields <- MCFields
    Values = {0, 1}
SPECIFICATION MCSpec
SYMMETRY MCSymmetry
INVARIANTS
    TokenOpensOnce
    ArrivalsAreTraced
    FilesFollowRows
    TrailTellsChanges
CHECK_DEADLOCK FALSE
