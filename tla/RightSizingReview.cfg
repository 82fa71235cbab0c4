SPECIFICATION ReviewSpec
CONSTANTS
  PROFILES <- MCProfiles
  HOST <- MCHost
  HEADROOM <- MCHeadroom
  RESERVED <- MCReserved
  Load <- MCLoad
  Unlisted = Unlisted
  NODE = "onp"
  Nodes = {"onp", "cloud"}
  Places <- MCPlaces
  Nowhere = "nowhere"
  Pods <- MCPods
  Workload <- MCWorkload
  Request <- MCRequest
  SCHEDULABLE = 9
  WINDOW = 2
  REVIEW = 2
INVARIANTS DecisionIsPolicy OneRecommendation WorkloadOomKept ResidentOomBlocks SafeIsSafe
PROPERTIES ResizeSettles QuietNodeIsReleased
