SPECIFICATION FairEventSpec
CONSTANTS
    t1 = t1
    t2 = t2
    t3 = t3
    s1 = s1
    Turn = {t1, t2, t3}
    Subscriber = {s1}
    Follows <- FirstTurn
    Size = {1, 2, 3}
    MaxEventBytes = 2
    MaxReplay = 3
    MaxEvents = 2
    Channel = 2
    MaxTurns = 2
    MaxPushed = 4
INVARIANTS
    ReplayIsExact
    EachOnce
    NothingIsSkipped
PROPERTIES
    TerminalEndsStream
CHECK_DEADLOCK FALSE
