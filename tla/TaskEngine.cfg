SPECIFICATION FairSpec
CONSTANTS
    plan = plan
    copy1 = copy1
    copy2 = copy2
    k1 = k1
    k2 = k2
    op1 = op1
    op2 = op2
    MaxTasks = 1
    MaxClaims = 5
    MaxAttempts = 3
    w1 = w1
    w2 = w2
    Slots = {w1, w2}
    Idents = {copy1}
    PlanIdents = {}
    Keys = {k1, k2}
    NoKey = NoKey
    Operators = {}
    Nil = Nil
INVARIANTS RecoverFirst EffectBudget EffectFenced SettledOnce
PROPERTIES AbandonedClaimRecovered
CHECK_DEADLOCK FALSE
