SPECIFICATION FairReaderSpec
CONSTANTS
    Calls = 2
    MaxPending = 2
    MaxBytes = 3
    Sizes = {1, 2}
    MaxUnasked = 3
INVARIANTS
    NotificationsInOrder
    PendingIsExact
PROPERTIES
    SessionEnds
CHECK_DEADLOCK FALSE
