SPECIFICATION FairSpec
CONSTANTS
    sim1 = sim1
    sim2 = sim2
    server = server
    teardown = teardown
    nobody = nobody
    Waiters <- MCWaiters
    Setters <- MCSetters
    NoThread = nobody
INVARIANTS
    NoLostWakeup
    IInv
PROPERTIES
    ImplementsEvent
    SignalConsumed
