SPECIFICATION Spec
CONSTANTS
    x1 = x1
    x2 = x2
    k1 = k1
    k2 = k2
    Execution = {x1, x2}
    NoExecution = NoExecution
    Key = {k1, k2}
    NoKey = NoKey
    AppendFails = TRUE
SYMMETRY Symmetry
INVARIANTS
    DecidedOnce
    ProjectionIsExact
PROPERTIES
    ReadyMeansResolved
    ImplementsLedger
CHECK_DEADLOCK FALSE
