SPECIFICATION Spec
CONSTANTS
    m1 = m1
    m2 = m2
    n1 = n1
    n2 = n2
    t1 = t1
    c1 = c1
    c2 = c2
    c3 = c3
    None = None
SYMMETRY Symmetry
INVARIANTS
    CommittedSurvives
    DrivesCommitted
    HandoffOnce
    
    
    
    
    
CHECK_DEADLOCK FALSE
