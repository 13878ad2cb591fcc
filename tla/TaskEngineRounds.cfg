SPECIFICATION Spec
CONSTANTS
    plan = plan
    copy1 = copy1
    copy2 = copy2
    k1 = k1
    k2 = k2
    op1 = op1
    op2 = op2
    MaxTasks = 3
    MaxClaims = 1
    MaxAttempts = 1
    w1 = w1
    w2 = w2
    Slots = {w1}
    Idents = {plan, copy1, copy2}
    PlanIdents = {plan}
    Keys = {}
    NoKey = NoKey
    Operators = {op1, op2}
    Nil = Nil
INVARIANT Rounds
SYMMETRY MCSymmetry
CHECK_DEADLOCK FALSE
