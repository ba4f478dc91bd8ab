SPECIFICATION FairSpec
CONSTANTS
    Leader = leader
    d1 = d1
    d2 = d2
    Descendant = {d1, d2}
    Pinned = pinned
    Other = other
    Deadline = TRUE
INVARIANTS
    NoMemberSurvives
    OwnGroupOnly
    RunsWhatWasVerified
    NothingIsLeft
PROPERTIES
    ShutdownEnds
CHECK_DEADLOCK FALSE
