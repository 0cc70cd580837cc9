SPECIFICATION PlanSpec
CONSTANTS
    Configs <- MCConfigs
    NumBlocks = 3
    NumCpuBlocks = 4
    Factor = 2
    LastLogical = 2
    SlotOf <- MCSlotOf
    NoLayout = NoLayout
    NoByte = NoByte
    NoHolder = NoHolder
INVARIANTS
    TransfersExact
