CONSTANTS
    Traces <- MCTraces
    Clocks <- MCClocks
    TimeMod = 16
    StartTimes = {0, 5}
    JumpTimes = {1, 7, 12}
    MaxRequests = 3
SPECIFICATION Spec
INVARIANTS
    EvalShowsEdge
PROPERTIES
    EdgesInOrder
    DetachedIsQuiet
    ReplayEnds
CHECK_DEADLOCK FALSE
