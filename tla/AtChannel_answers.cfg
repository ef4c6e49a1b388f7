SPECIFICATION Spec
CONSTANTS
    None = None
    Clients = {c1, c2}
    LinePrefixes <- AllPrefixes
    Commands <- MixedCommands
    Urcs <- NoUrcs
    TimeoutMsec = 180000
    HandshakeRetryCount = 2
    PauseDrains = FALSE
    MayHandshake = {}
    MayClose = {}
    MayGo = FALSE
    MaxCalls = 3
    MaxUrcs = 0
    MaxInfo = 2
INVARIANTS TypeOK SlotOwned AnswerLag AnswerComplete PduOnce FinalNotUnsolicited
SYMMETRY ClientSymmetry
CHECK_DEADLOCK FALSE
