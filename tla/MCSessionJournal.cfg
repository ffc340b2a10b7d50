SPECIFICATION Spec
CONSTANTS
    w1 = w1
    w2 = w2
    r1 = r1
    c1 = c1
    c2 = c2
    c3 = c3
    Writers = {w1, w2}
    Readers = {r1}
    Cmd = {c1, c2, c3}
    CreateCmd = {c1}
    None = None
    MaxEpoch = 3
SYMMETRY Symmetry
INVARIANTS
    AckedRecorded
    ReaderNeverFails
PROPERTIES
    ProjectionMonotone
    ImplementsLog
    FencedAppendOnly
CHECK_DEADLOCK FALSE
