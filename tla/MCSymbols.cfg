SPECIFICATION Spec
CONSTANTS
  CaseVariants <- MCCaseVariants
  QuantityLeaves <- MCQuantityLeaves
  Catalogue <- MCCatalogue
  Documents <- MCDocuments
  Library <- MCLibrary
  ObjectMethods <- MCObjectMethods
  References <- MCReferences
INVARIANTS
  OrderFree
  ScriptsAnchored
PROPERTIES
  MissingIsUntouched
  ProjectPrevails
  LoadingOnlyResolves
CHECK_DEADLOCK FALSE
