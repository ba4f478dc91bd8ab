SPECIFICATION FairSpec
CONSTANTS
    Allows = TRUE
    MaxRequests = 3
    StorageFails = TRUE
INVARIANTS
    NothingIsReplayed
    NoChildIsLeft
PROPERTIES
    OneShotEnds
CHECK_DEADLOCK FALSE
