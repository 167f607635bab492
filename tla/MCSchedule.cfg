SPECIFICATION Spec
CONSTANTS
  Name <- MCName
  Channel <- MCChannel
  Rate = {50, 100}
  NoRate = NoRate
  MaxDepth = 3
  Projects <- MCProjects
INVARIANTS
  TypeOK
  ReportsReal
  ShortCyclesReported
  RecursionFlagged
  PendingBounded
