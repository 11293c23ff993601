SPECIFICATION FairSpec
CONSTANTS
    a = a
    b = b
    c = c
    line1 = line1
    line2 = line2
    i1 = i1
    i2 = i2
    n1 = n1
    BpId = {a, b}
    Order <- MCOrder2
    Loc <- MCLoc
    Inst <- MCInst
    DbCond <- MCDbCond
    Ns = {n1}
    NsOf <- MCNsOf
    TrueCond = one
    Cond = {one, bad}
    BadCond = {bad}
    Var = {}
    BadVar = {}
    NoVar = noVar
    NoCond = noCond
    NoBp = noBp
    Rewinds = {FALSE}
    Asserts <- MCAsserts
    MaxBps = 3
    Requests = {"add id", "remove id", "continue", "single", "step over", "step back"}
    Patient = TRUE
PROPERTIES
    AllEvaluatedSingly
    AssertionEvaluated
    EvaluationEnds
