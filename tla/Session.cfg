SPECIFICATION Spec
CONSTANTS
    Thread = {"server", "sim"}
    AnyLine = {0, 1, 7}
    Messages <- MCMessages
    Table <- MCTable
    Starts <- MCStarts
    EnvBps = {0}
    Signals <- MCSignals
    Design <- MCDesign
    MaxChannels = 2
    MaxRequests = 3
CHECK_DEADLOCK FALSE
INVARIANTS
    OneResponseEach
    OrderlySessionSafe
PROPERTIES
    OwnAnswer
    RequestsServed
