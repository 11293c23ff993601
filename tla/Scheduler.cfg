SPECIFICATION SchedulerSpec
CHECK_DEADLOCK FALSE
CONSTANTS
    a = a
    line1 = line1
    i1 = i1
    n1 = n1
    x = x
    y = y
    BpId = {a}
    Order <- MCOrder
    Loc <- MCLoc
    Inst <- MCInst
    DbCond <- MCDbCond
    Ns = {n1}
    NsOf <- MCNsOf
    TrueCond = one
    Cond = {one, bad}
    BadCond = {bad}
    Var = {x, y}
    BadVar = {y}
    NoVar = noVar
    NoCond = noCond
    NoBp = noBp
    Rewinds = {TRUE, FALSE}
    Asserts <- MCAsserts
    MaxBps = 2
INVARIANTS
    SchedulerTypeOK
    InsertedTracked
