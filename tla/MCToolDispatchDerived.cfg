SPECIFICATION Spec
CONSTANTS
    c1 = c1
    c2 = c2
    c3 = c3
    k1 = k1
    r1 = r1
    Call = {c1, c2}
    Key = {k1}
    Request = {r1}
    None = None
PROPERTIES
    InterruptedAlways
CHECK_DEADLOCK FALSE
