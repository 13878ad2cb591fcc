SPECIFICATION MCSpec
CONSTANTS
    Contents = {1, 2}
    MaxGen = 3
    SeedLimit = 1
    Retries = 1
    Bounds <- SmallBounds
    Providers = {1, 2, 3, 4}
    MaxCopies = 2
    Confirms = {1, 2}
    SlotBounds <- SmallSlotBounds
INVARIANTS ReplacementInv SlotsInv
PROPERTIES WritesFenced ReplacementsSettle
CHECK_DEADLOCK FALSE
