SPECIFICATION Spec
CHECK_DEADLOCK FALSE
CONSTANTS
    x0 = x0
    x1 = x1
    y = y
    b0 = b0
    b1 = b1
    b2 = b2
    Signal = {x0, x1}
    v0 = v0
    v1 = v1
    Value = {v0, v1}
    NoValue = noValue
    Undefined = undefined
    Group <- MCGroup
    DataBp = {b0, b1}
    SignalOf <- MCSignalOf
    NoWatch = noWatch
    ClientType = {"breakpoint"}
    Depth = {1}
    MaxWatches = 4
    MaxTime = 2
SYMMETRY ValueSymmetry
INVARIANTS
    OneWatch
    SharedCell
