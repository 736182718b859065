SPECIFICATION Spec
CONSTANTS
    op1 = op1
    op2 = op2
    r1 = r1
    r2 = r2
    d1 = d1
    d2 = d2
    Op = {op1, op2}
    Needs <- MCNeeds
    Replay = {r1, r2}
    MaxOps = 2
    Device = {d1}
    Named = {d1}
    PageSize = 1
    MaxSequence = 2
INVARIANT BootstrapIsComplete
CHECK_DEADLOCK FALSE
