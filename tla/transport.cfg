CONSTANTS
    Requests = {r1, r2, r3}
SPECIFICATION FairTransportSpec
INVARIANTS
    ChildEndIsAccounted
PROPERTIES
    ImplementsRpcPromise
    EverythingSettles
CHECK_DEADLOCK FALSE
