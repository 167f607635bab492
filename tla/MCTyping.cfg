SPECIFICATION Spec
CONSTANTS
  Library <- MCLibrary
  Objects <- MCObjects
  Projects <- MCProjects
  Edits <- MCEdits
  MaxRuns = 4
INVARIANTS InferenceSettles NoFindingFromIgnorance NarrowingReportedOnce SilenceIsCounted
PROPERTY ReturnsAreKept
CHECK_DEADLOCK FALSE
