SPECIFICATION MCSpec
CONSTANTS
    c1 = c1
    c2 = c2
    c3 = c3
    k1 = k1
    r1 = r1
    r2 = r2
    Call = {c1, c2, c3}
    Key = {k1}
    Request = {r1, r2}
    None = None
INVARIANTS
    AtMostOnce
    
PROPERTIES
    InterruptedOnly
    CallsEnd
CHECK_DEADLOCK FALSE
