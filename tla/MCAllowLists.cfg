SPECIFICATION Spec
INVARIANT AllowListsHold
CHECK_DEADLOCK FALSE
