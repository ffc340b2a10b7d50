SPECIFICATION Spec
CONSTANT Absent = Absent
INVARIANT PlanIsTree
CHECK_DEADLOCK FALSE
