SPECIFICATION Spec
CONSTANTS
    r1 = r1
    r2 = r2
    k1 = k1
    k2 = k2
    NoTurn = NoTurn
    NoRequest = NoRequest
    Key = {k1, k2}
    Turn = {1}
    Request = {r1, r2}
    TurnOf <- AllOfFirst
    KeyOf <- DistinctKeys
    Reviewable = {r1, r2}
    Oversized = {r2}
    SeenCap = 2
    StorageFails = FALSE
    Live = TRUE
    QueueCap = 2
    TurnCap = 1
    ApprovalCap = 2
    MaxCalls = 2
INVARIANTS
    InterruptedIsConfirmed
    NoPendingOnTerminal
    ApprovedMeansAllowed
    AllowWasRegistered
PROPERTIES
    TerminalIsFinal
    TaskSpec
CHECK_DEADLOCK FALSE
