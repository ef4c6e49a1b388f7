SPECIFICATION Spec
CONSTANTS
    None = None
    Clients = {c1, c2}
    LinePrefixes <- AllPrefixes
    Commands <- PlainCommands
    Urcs <- CmtUrc
    TimeoutMsec = 180000
    HandshakeRetryCount = 2
    PauseDrains = FALSE
    MayHandshake = {c1}
    MayClose = {c2}
    MayGo = TRUE
    MaxCalls = 2
    MaxUrcs = 1
    MaxInfo = 2
PROPERTY CallReturns
CHECK_DEADLOCK FALSE
