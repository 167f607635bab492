SPECIFICATION Spec
CONSTANTS
  Channel = {"a", "b"}
  NoChannel = NoChannel
  Function <- MCFunction
  Body <- MCBody
  Missing = Missing
  NotYet = NotYet
  CounterMax = 31
  MaxRange = 4
  Programs <- LonePrograms
INVARIANT
  NeverALoneHelper
