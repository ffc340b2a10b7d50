SPECIFICATION Spec
CONSTANTS
    s1 = s1
    s2 = s2
    s3 = s3
    t1 = t1
    t2 = t2
    Segment = {s1, s2, s3}
    Transition = {t1, t2}
    None = None
    MaxCheckpoint = 1
    MaxTrace = 1
    MaxRevision = 2
SYMMETRY Symmetry
INVARIANTS
    StatusAgrees
    
    HandoffChain
    HandoffCanFinish
CHECK_DEADLOCK FALSE
