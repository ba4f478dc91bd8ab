SPECIFICATION FairSpec
CONSTANTS
    c1 = c1
    c2 = c2
    old = old
    Caller = {c1, c2}
    Original = c2
    CapturesOf <- FirstCaptures
    Legacy <- OneRow
    NoCommand = NoCommand
    Fails = TRUE
    ChannelCap = 2
    MaxCalls <- TwoAndOne
    MaxLives = 2
INVARIANTS
    AcknowledgedIsDurable
    OrderOfCalls
    LegacyIsKept
PROPERTIES
    ImplementsAppendLog
    CallsReturn
CHECK_DEADLOCK FALSE
