SPECIFICATION FairSpec
CONSTANTS
  NumChannels = 3
  NumScripts = 3
  Untainted = Untainted
  Projects <- MCProjects
INVARIANTS
  TypeOK
  SolvedExactly
  CauseForest
  ProvenanceGrounded
PROPERTIES
  FirstCauseWins
  RefinesPropagation
  Terminates
