SPECIFICATION Spec
CONSTANT Absent = Absent
INVARIANTS
    FramesSound
    ReplayedAsRecorded
    
    ClosureFrozen
    PlanSound
    CallsContained
    
    ExtensionsContained
PROPERTIES
    RevisionSound
    ToolCallsExact
    PanelSafe
CHECK_DEADLOCK FALSE
