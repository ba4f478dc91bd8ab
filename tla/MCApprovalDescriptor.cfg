SPECIFICATION Spec
CONSTANTS
    a = a
    b = b
    red = red
    long = long
    Exact = {a, b}
    Redacted = {red}
    Long = {long}
    Wrong = wrong
    Absent = absent
    Hidden = hidden
    Bytes <- MCBytes
    ListCap = 2
    PatchCap = 4
    Requests <- MCRequests
INVARIANTS
    InformedGrant
    LimitsAreExact
CHECK_DEADLOCK FALSE
