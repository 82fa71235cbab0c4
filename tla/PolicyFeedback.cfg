SPECIFICATION Spec
CONSTANTS
  MANAGED_NAMESPACES = {"apps", "logging"}
  REPOSITORY = "own"
  Released <- MCReleased
  Helm <- MCHelm
  Commits <- MCCommits
  PUSHES = 3
INVARIANTS LabelIsTheCommit OneComment
PROPERTY ViolationIsLabelled
CHECK_DEADLOCK FALSE
