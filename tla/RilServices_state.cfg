SPECIFICATION Spec
CONSTANTS
    p1 = p1
    p2 = p2
    p3 = p3
    p4 = p4
    Pdus = {p1, p2, p3, p4}
    PduKind <- OneOfEach
    Binary = {p3}
    MaxArrived = 4
    MaxUnready = 1
    t1 = t1
    Tokens = {t1}
    MaxNodes = 3
    Repoll = 2
    MaxLate = 2
    MaxUrcs = 2
    CallIds = {1, 2}
    KillEvery = 2
    KillTurns = 3
    WaitTurns = 2
    MaxConns = 2
    PinTries = 3
    MaxRanges = 1
    MaxConfig = 2
    MaxDigits = 3
    MaxTypes = 2
    MaxLists = 2
INVARIANTS TypeOK ListSound TokenInOnePlace TunnelForCalls SimAnswersTrue LinesRead StaysNotified FreshAddress
PROPERTIES DeliveryPromise ListIsQueue EveryDelivered OperatorAnswered CallSetupFollowed
CHECK_DEADLOCK FALSE
