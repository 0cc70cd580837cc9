SPECIFICATION TrackerSpec
CONSTANTS
    Keys = {k1, k2}
    Sessions = {s1, s2, s3}
    Tiers = {fs}
    Transfers = {store}
    MaxInflight = 2
    MaxEntries = 1
    MaxTime = 2
    NoBlock = NoBlock
    Never = Never
SYMMETRY MCSymmetry
INVARIANTS
    TrackerTypeOK
    OwnershipAgrees
    ActiveBlocksNotIdle
    NothingForgotten
    ActiveBlocksLastResort
