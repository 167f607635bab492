SPECIFICATION Spec
CONSTANTS
  Library <- MCLibrary
  Objects <- MCObjects
  Projects <- GuessProjects
  Edits <- NoEdits
  MaxRuns = 1
INVARIANT NeverAGuess
CHECK_DEADLOCK FALSE
