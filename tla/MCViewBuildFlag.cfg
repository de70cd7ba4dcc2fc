CONSTANT MaxRequests = 2
SPECIFICATION Spec
INVARIANT BuildingWhileBuilt
CHECK_DEADLOCK FALSE
