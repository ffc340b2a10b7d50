SPECIFICATION Spec
CONSTANTS
    p1 = p1
    p2 = p2
    yes = yes
    no = no
    None = None
    Procs <- MCProcs
    Answers <- MCAnswers
    Kind <- AskThenTool
    Faults = {"save", "saved", "trace"}
    MaxFaults = 1
    MaxEpoch = 3
    LeasesPerStore = 1
SYMMETRY Symmetry
CHECK_DEADLOCK FALSE
INVARIANTS
    EffectOnce
    AckedAnswerKept
    
    CursorUnsettled
PROPERTIES
    FencedCheckpoints
