SPECIFICATION QueueSpec
CONSTANTS START = 2 END = 4 LAG = 1 HOLD = 1 MESSAGES = 1 MISSED = TRUE
INVARIANTS DrainVerdictsAgree BurstNeedsDrain DrainIsUpperBound
CHECK_DEADLOCK FALSE
