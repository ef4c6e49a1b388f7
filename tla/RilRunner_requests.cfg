SPECIFICATION Spec
CONSTANTS
    r1 = r1
    r2 = r2
    Tokens = {r1, r2}
    Kind <- PowerAndCalls
    MaxRequests = 1
    MaxOpens = 2
    MaxFaults = 1
    MayShutdown = TRUE
INVARIANTS TypeOK RadioStateAnnounced SimPolled
PROPERTY RequestsCompleted
CHECK_DEADLOCK FALSE
