SPECIFICATION Spec
CONSTANTS
    Allows = TRUE
    MaxRequests = 3
    StorageFails = TRUE
INVARIANTS
    AmbiguityStaysOpen
CHECK_DEADLOCK FALSE
