SPECIFICATION Spec
CONSTANTS FINISH = 3 DELAY = 1 MAX_NODES = 2 HORIZON = 7
INVARIANTS NodeTimeWhole
PROPERTIES NodeTimeSettles
CHECK_DEADLOCK FALSE
