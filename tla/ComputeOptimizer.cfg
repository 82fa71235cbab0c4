SPECIFICATION FairSpec
CONSTANTS
  Nodes = {"a"}
  Types = {"m7i", "m7g"}
  Findings <- MCFindings
  NoOption = NoOption
INVARIANTS SuccessCounts
PROPERTIES CatchesUp
