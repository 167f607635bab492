SPECIFICATION FairSpec
CONSTANTS
  Channel = {"a", "b"}
  NoChannel = NoChannel
  Function <- MCFunction
  Body <- MCBody
  Missing = Missing
  NotYet = NotYet
  CounterMax = 3
  MaxRange = 4
  Programs <- MCPrograms
INVARIANTS
  TypeOK
  StackIsCallPath
  MemoExact
  UnderApproximates
  T040Sound
  T102Sound
  DoubleAssignmentReported
PROPERTIES
  Terminates
