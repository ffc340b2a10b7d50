SPECIFICATION FairSpec
CONSTANTS
    t1 = t1
    x1 = x1
    x2 = x2
    yes = yes
    no = no
    MaxAttach = 2
    Turn = {t1}
    Post = {x1}
    Answer = {yes, no}
    None = None
INVARIANTS
    AnswersAgree
    WaitingReachable
PROPERTIES
    RunTornDown
CHECK_DEADLOCK FALSE
