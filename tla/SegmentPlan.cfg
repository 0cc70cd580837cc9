SPECIFICATION TierStoreSpec
CONSTANTS
    k1 = k1
    p1 = p1
    Procs = {p1}
    Keys = {k1, k2}
    Jobs = {j1, j2}
    Capacity = 1
    MaxShards = 2
    MaxSegments = 3
    ShardCount <- MCShardCount
    LegacyStores <- MCLegacyStores
    NoProc = NoProc
    Empty = Empty
    Torn = Torn
    NoData = NoData
SYMMETRY MCSymmetry
INVARIANTS
    TypeOK
    PlannedSlotsPrivate
    SlotInv
PROPERTIES
    SegmentImplementsTier
