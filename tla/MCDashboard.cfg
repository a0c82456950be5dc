SPECIFICATION Spec
CONSTANTS
    b1 = b1
    b2 = b2
    t1 = t1
    t2 = t2
    g = g
    k1 = k1
    k2 = k2
    k3 = k3
    k4 = k4
    k5 = k5
    k6 = k6
    None = None
    Browser = {b1, b2}
    Tab = {t1, t2}
    Handler = {t1, t2, g}
    Name <- Names
    Typed <- TypedNames
    Trim <- Trims
    Token = {k1, k2, k3, k4, k5, k6}
    Household <- Households
    Visited = {"first-run", "time"}
    Rule = {"time", "monitoring"}
    Lifetime = 1
    MaxNow = 1
    MaxSaves = 2
    MaxTrouble = 1
INVARIANTS
    TypeOK
    SessionsAreOwn
    NoDuplicateChild
PROPERTIES
    OneChance
    ParentGetsIn
    OnlyStalePagesUndo
CHECK_DEADLOCK FALSE
