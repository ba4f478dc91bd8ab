SPECIFICATION Spec
CONSTANTS
    r1 = r1
    r2 = r2
    k1 = k1
    k2 = k2
    NoTurn = NoTurn
    NoRequest = NoRequest
    Key = {k1, k2}
    Turn = {1}
    Request = {r1}
    TurnOf <- AllOfFirst
    KeyOf <- DistinctKeys
    Reviewable = {r1}
    Oversized = {}
    SeenCap = 2
    StorageFails = FALSE
    Live = TRUE
    QueueCap = 2
    TurnCap = 1
    ApprovalCap = 2
    MaxCalls = 3
INVARIANTS
    LeaseHasGuard
CHECK_DEADLOCK FALSE
