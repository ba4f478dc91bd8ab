SPECIFICATION FairSpec
CONSTANTS
    r1 = r1
    r2 = r2
    k1 = k1
    k2 = k2
    NoTurn = NoTurn
    NoRequest = NoRequest
    Key = {k1, k2}
    Turn = {1}
    Request = {}
    TurnOf <- AllOfFirst
    KeyOf <- DistinctKeys
    Reviewable = {}
    Oversized = {}
    SeenCap = 2
    StorageFails = FALSE
    Live = TRUE
    QueueCap = 1
    TurnCap = 1
    ApprovalCap = 2
    MaxCalls = 4
PROPERTIES
    DropIsDelivered
CHECK_DEADLOCK FALSE
