SPECIFICATION Spec
CONSTANTS
  T001 = T001
  T002 = T002
  T041 = T041
  T042 = T042
  T050 = T050
  T064 = T064
  T088 = T088
  T089 = T089
  T090 = T090
  T093 = T093
  Typo = Typo
  Blank = Blank
  None = None
  TooDeep = T090
  Code <- MCCode
  OptIn <- MCOptIn
  Runs <- Unread
INVARIANT ReadableFilesReported
CHECK_DEADLOCK FALSE
