SPECIFICATION Spec
CONSTANTS
    None = None
    Clients = {c1}
    LinePrefixes <- AllPrefixes
    Commands <- PlainCommands
    Urcs <- NoUrcs
    TimeoutMsec = 180000
    HandshakeRetryCount = 2
    PauseDrains = TRUE
    MayHandshake = {c1}
    MayClose = {}
    MayGo = FALSE
    MaxCalls = 2
    MaxUrcs = 0
    MaxInfo = 2
INVARIANT HandshakeDrains
CHECK_DEADLOCK FALSE
