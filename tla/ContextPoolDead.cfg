SPECIFICATION FairPool
CONSTANTS
  Keys = {a}
  Depth = 2
  MaxContexts = 6
  MaxTests = 2
  MaxFailures = 0
  MayDie = TRUE
PROPERTIES
  AcquireReturns
