SPECIFICATION FairSpec
CONSTANTS
  N = 3
  Graphs <- DependenciesAndTeardowns
  MaxParallel = 2
  WorkerCount = 3
  StopAllowed = TRUE
  MayPanic = TRUE
INVARIANTS
  DependenciesPassFirst
  PassedMeansAllPassed
  TeardownAfterParent
  WorkersWithinBudget
PROPERTIES
  EveryProjectSettles
