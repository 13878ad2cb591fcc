SPECIFICATION MCSpec
CONSTANTS
    Copies = {1, 2}
    Ingress = 1
    MaxAttempts = 2
    MaxPulls = 3
    MaxFaults = 3
    MaxCrashes = 2
    MaxRetries = 2
    s1 = s1
    s2 = s2
    u1 = u1
    u2 = u2
    None = None
    Sids = {s1, s2}
    Urls = {u1, u2}
    StoreAttempts = 2
    StoreRounds = 1
    StoreTransfers = 2
    StoreFaults = 1
    StoreCrashes = 1
    StoreMoves = 1
    StoreDrops = 1
INVARIANTS IngressRole TransferInv BodyNotForgotten
PROPERTY TransfersEnd
CHECK_DEADLOCK FALSE
