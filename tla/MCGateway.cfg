CONSTANTS
    r1 = r1
    r2 = r2
    r3 = r3
    r4 = r4
    r5 = r5
    r6 = r6
    k1 = k1
    i1 = i1
    NoKey = NoKey
    Requests <- MCRequests
    Path <- MCPath
    Header <- MCHeader
    ApiKeys = {k1}
    Items = {i1}
    Item <- MCItem
    Limit = 1
    MaxWindow = 1
SPECIFICATION Spec
INVARIANTS TimelyPassesBounded OnlyCrashLeaksKeys NoKeyNoEffect PenaltyFollowsRow
SYMMETRY MCSymmetry
