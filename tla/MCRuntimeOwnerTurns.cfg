SPECIFICATION Spec
CONSTANTS
    r1 = r1
    r2 = r2
    k1 = k1
    k2 = k2
    NoTurn = NoTurn
    NoRequest = NoRequest
    Key = {k1, k2}
    Turn = {1, 2}
    Request = {r1}
    TurnOf <- OneEach
    KeyOf <- DistinctKeys
    Reviewable = {r1}
    Oversized = {}
    SeenCap = 2
    StorageFails = FALSE
    Live = FALSE
    QueueCap = 1
    TurnCap = 1
    ApprovalCap = 2
    MaxCalls = 2
INVARIANTS
    ActiveTurnsCounted
    TerminalMeansReaped
CHECK_DEADLOCK FALSE
