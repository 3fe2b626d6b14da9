SPECIFICATION FairSpec
CONSTANTS
    Warehouses = {w1}
    Statements = {s1, s2, s3}
    MaxSize = 1
    Sizes <- MCSizes
    AutoSuspends = {0, 600}
    Capacity <- MCCapacity
    None = None
INVARIANTS
    TypeOK
    SlotAccounting
    WorkConserving
PROPERTIES
    ImplementsSlotPool
    WaitersAnswered
    SuspensionCompletes
