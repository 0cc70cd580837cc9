SPECIFICATION Spec
CONSTANTS
    k1 = k1
    p1 = p1
    Procs = {p1, p2}
    Keys = {k1}
    Jobs = {j1, j2}
    Capacity = 2
    MaxShards = 2
    MaxSegments = 2
    ShardCount <- MCShardCount
    LegacyStores <- MCLegacyStores
    NoProc = NoProc
    Empty = Empty
    Torn = Torn
    NoData = NoData
SYMMETRY MCSymmetry
INVARIANT
    FilteredKeysPresent
