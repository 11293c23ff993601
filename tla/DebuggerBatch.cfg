SPECIFICATION FairSpec
CONSTANTS
    a = a
    b = b
    c = c
    line1 = line1
    line2 = line2
    i1 = i1
    i2 = i2
    n1 = n1
    BpId = {a, b, c}
    Order <- MCOrder3
    Loc <- MCLoop
    Inst <- MCLoopInst
    DbCond <- MCDbCond
    Ns = {n1}
    NsOf <- MCNsOf
    TrueCond = one
    Cond = {one}
    BadCond = {}
    Var = {}
    BadVar = {}
    NoVar = noVar
    NoCond = noCond
    NoBp = noBp
    Rewinds = {FALSE}
    Asserts = {}
    MaxBps = 3
    Requests = {"add location", "continue"}
    Patient = TRUE
PROPERTIES
    AllEvaluated
