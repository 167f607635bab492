SPECIFICATION Spec
CONSTANTS
  NoSymbol = NoSymbol
  Name <- MCName
  Dotted = {"Root.B"}
  Channel <- MCChannel
  Resolves <- MCResolves
  Integers = {"Count"}
  FnSymbol = "Ratio"
  Scripts <- MCScripts
  NonFinite = {"nan"}
INVARIANTS
  SinksReported
  AnswerCoversTick
  PassesAgree
  NoNoise
