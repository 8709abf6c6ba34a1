SPECIFICATION FairPool
CONSTANTS
  Keys = {a, b}
  Depth = 2
  MaxContexts = 9
  MaxTests = 4
  MaxFailures = 1
  MayDie = TRUE
INVARIANTS
  CountersExact
  DrainLeavesNothing
PROPERTIES
  HandsOutFresh
  AcquireReturnsAlive
