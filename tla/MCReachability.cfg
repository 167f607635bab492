SPECIFICATION Spec
CONSTANTS
  Function <- MCFunction
  UserFunction <- MCUser
  Projects <- MCProjects
INVARIANTS
  TypeOK
  OrphansExact
  WarnedExact
