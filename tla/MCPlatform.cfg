CONSTANTS
    Device = {d1}
    Enrolled = {d1}
    Handler = {h1, h2}
    p1 = p1
    p2 = p2
    Cap <- MCCap
    c1 = c1
    c2 = c2
    Need <- MCNeed
    None = None
    Nobody = Nobody
    Process = {p1, p2}
    Last = 2
    Has <- MCHas
    MaxTrouble = 3
SPECIFICATION Spec
INVARIANTS
    TypeOK
    
    SchemaIsPrefix
    ServedWhole
PROPERTIES
    Converges
    ComesUp
CHECK_DEADLOCK FALSE
