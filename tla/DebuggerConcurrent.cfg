SPECIFICATION FairSpec
CHECK_DEADLOCK FALSE
CONSTANTS
    a = a
    b = b
    c = c
    line1 = line1
    line2 = line2
    i1 = i1
    i2 = i2
    n1 = n1
    BpId = {a, b}
    Order <- MCOrder2
    Loc <- MCLocs
    Inst <- MCInst
    DbCond <- MCDbCond
    Ns = {n1}
    NsOf <- MCNsOf
    TrueCond = one
    Cond = {one}
    BadCond = {}
    Var = {}
    BadVar = {}
    NoVar = noVar
    NoCond = noCond
    NoBp = noBp
    Rewinds = {FALSE}
    Asserts = {}
    MaxBps = 3
    Requests = {"add location", "remove location", "continue", "step over", "reverse", "pause", "stop", "disconnect"}
    Patient = FALSE
INVARIANTS
    InsertedOnce
    SortedWhenIdle
PROPERTIES
    DetachFrees
