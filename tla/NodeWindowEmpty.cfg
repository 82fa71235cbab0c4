SPECIFICATION Spec
CONSTANTS FINISH = 2 DELAY = 1 MAX_NODES = 2 HORIZON = 7
PROPERTIES NoLaterNodesInEmptyRun
CHECK_DEADLOCK FALSE
