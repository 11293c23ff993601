SPECIFICATION Spec
CHECK_DEADLOCK FALSE
CONSTANTS
    x0 = x0
    x1 = x1
    y = y
    b0 = b0
    b1 = b1
    b2 = b2
    Signal = {x0, y}
    v0 = v0
    v1 = v1
    Value = {v0, v1}
    NoValue = noValue
    Undefined = undefined
    Group <- MCGroup
    DataBp = {}
    SignalOf <- MCSignalOf
    NoWatch = noWatch
    ClientType = {"clock_edge"}
    Depth = {2}
    MaxWatches = 3
    MaxTime = 4
SYMMETRY ValueSymmetry
INVARIANTS
    DelayedValue
