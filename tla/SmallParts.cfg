SPECIFICATION MCSpec
CONSTANTS
    u1 = u1  u2 = u2  u3 = u3  k1 = k1  k2 = k2  e1 = e1  e2 = e2
    NoEntry = NoEntry
    NoKey = NoKey
    Entries = {e1, e2}
    Users = {u1, u2, u3}
    Keys = {k1, k2}
    None = None
    WalletAttempts = 2
    MaxTxs = 2
    MaxFaults = 3
    MaxCrashes = 2
    c1 = c1
    r1 = r1
    op1 = op1
    op2 = op2
    MaxTasks = 5
    Operators = {op1, op2}
    Nil = Nil
    Clients = {c1}
    Runners = {r1}
    MaxContents = 1
    MaxVersions = 1
    MaxEvictions = 2
    MaxPresence = 3
    CacheFaults = 1
    CacheCrashes = 1
    LRU = TRUE
    Callers = {1, 2, 3}
    Singles = {1, 2}
    Providers = {1, 2}
    Bound = {1}
    Skew = 1
    MaxClock = 3
    ObsBounds <- MCObsBounds
    Addresses = {1, 2}
    Starters = {"auto", "manual", "retry"}
    MaxTests = 2
    SpeedBounds <- MCSpeedBounds
INVARIANTS NoLostWakeup PaidOnce ScheduleInv ProviderInv
PROPERTIES ImplementsLock FailuresActionable WorkProceeds
CHECK_DEADLOCK FALSE
