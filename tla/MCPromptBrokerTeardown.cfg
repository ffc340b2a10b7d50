SPECIFICATION Spec
CONSTANTS
    t1 = t1
    x1 = x1
    x2 = x2
    yes = yes
    no = no
    MaxAttach = 2
    Turn = {t1}
    Post = {}
    Answer = {yes, no}
    None = None
SYMMETRY Symmetry
INVARIANTS
    LiveRunHasQueue
CHECK_DEADLOCK FALSE
