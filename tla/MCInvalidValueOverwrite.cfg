SPECIFICATION Spec
CONSTANTS
  NoSymbol = NoSymbol
  Name <- MCName
  Dotted = {"Root.B"}
  Channel <- MCChannel
  Resolves <- MCResolves
  Integers = {"Count"}
  FnSymbol = "Ratio"
  Scripts <- OverwriteScripts
  NonFinite = {"nan"}
INVARIANT SinksReported
