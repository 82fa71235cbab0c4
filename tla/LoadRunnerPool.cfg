SPECIFICATION FairSpec
CONSTANTS
  LOAD_COUNT = 3
  MAX_COUNT = 2
  LOAD_CONCURRENCY = 2
  MAX_WORKERS = 2
  INTERVAL = FALSE
INVARIANTS TypeOK EveryRequestAccounted CleanExitMeansReady VerdictsAgree ProgressSound
PROPERTIES ProgressMonotone RunEnds ImplementsLoadRun
CHECK_DEADLOCK FALSE
