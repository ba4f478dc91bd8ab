SPECIFICATION TaskFairSpec
CONSTANTS
    t1 = t1
    r1 = r1
    r2 = r2
    r3 = r3
    k1 = k1
    k2 = k2
    Turn = {t1}
    Request = {r1, r2, r3}
    NoRequest = NoRequest
    Key = {k1, k2}
    TurnOf <- AllOfT1
    KeyOf <- RepeatedKey
    Reviewable = {r1, r2}
    SeenCap = 2
    StorageFails = TRUE
INVARIANTS
    GrantIsAuthorised
    AmbiguityStaysOpen
    OneGrantPerKey
PROPERTIES
    TaskTerminates
    DecisionSettles
CHECK_DEADLOCK FALSE
